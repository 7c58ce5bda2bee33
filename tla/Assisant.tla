------------------------------ MODULE Assisant ------------------------------
(***************************************************************************)
(* The bot: the tox callbacks of Assisant.cpp over the member cache         *)
(* (MemberMgr) and the member table (MemberModel).                          *)
(*                                                                         *)
(* The program is one thread: main() calls tox_iterate in a loop and every  *)
(* callback runs to completion inside it, so each callback is one action.   *)
(* It can be cut short only by the death of the process, which the database *)
(* and the savedata file survive and everything else does not.              *)
(*                                                                         *)
(* Users are the pk's of friends already accepted. Of friend_request_cb,    *)
(* which accepts one, there is what it does to the savedata file; the       *)
(* welcome it sends is FriendTips, the file itself Savedata.                *)
(***************************************************************************)
EXTENDS MemberModel

CONSTANTS
  Conns,            \* the online values of TOX_CONNECTION in use
  AvatarReads,      \* outcomes of reading the avatar file
  NameStoredFirst,  \* toxcore stores a new name or status before reporting it
  MaxTime           \* bounds the clock

Offline == "none"   \* TOX_CONNECTION_NONE

ASSUME AssisantAssumption ==
  /\ Offline \notin Conns
  /\ AvatarReads \subseteq BOOLEAN
  /\ NameStoredFirst \in BOOLEAN
  /\ MaxTime \in Nat

VARIABLES
  up,        \* the process is running
  conn,      \* friend -> TOX_CONNECTION, as last reported to the bot
  profile,   \* friend -> name and status message held by toxcore
  saved,     \* the profiles in the savedata file
  avatar,    \* avatar_data has been read
  mgr,       \* member_mgr
  db,        \* table t_tokme_member
  now,       \* tox_unixtime()
  out,       \* what the last callback sent
  consent,          \* history: what friend's last /start or /stop came to
  acked_signature   \* history: the signature whose /set was answered "Done!"

vars == <<up, conn, profile, saved, avatar, mgr, db, now, out,
          consent, acked_signature>>
history == <<consent, acked_signature>>

Profile == [nick_name : Names \cup {Empty}, bio : Bios \cup {Empty}]

(* desc_* names the template of a reply; about is what is filled into it.   *)
Message(to, desc, about) == [to |-> to, desc |-> desc, about |-> about]
NoMessage == Message(NULL, "nothing", Blank)

(* send_friend_message_req: its result is ignored by every command.         *)
Reply(to, desc, about) ==
  \/ out' = Message(to, desc, about)
  \/ "send" \in Faults /\ out' = NoMessage

Init ==
  /\ up = TRUE
  /\ conn = [p \in Users |-> Offline]
  /\ profile = [p \in Users |-> [nick_name |-> Empty, bio |-> Empty]]
  /\ saved = profile
  /\ avatar = FALSE
  /\ mgr = InitMgr
  /\ db = [p \in {} |-> NULL]
  /\ now = 0
  /\ out = NoMessage
  /\ consent = [p \in Users |-> "none"]
  /\ acked_signature = [p \in Users |-> Empty]

-----------------------------------------------------------------------------
(* The process dies, leaving table in the database. What toxcore will know  *)
(* of the friends after the restart is what the savedata file holds.        *)
Die(table) ==
  /\ up' = FALSE
  /\ db' = table
  /\ conn' = [p \in Users |-> Offline]
  /\ profile' = saved
  /\ avatar' = FALSE
  /\ mgr' = InitMgr
  /\ out' = NoMessage
  /\ UNCHANGED saved

Crash == up /\ Die(db) /\ UNCHANGED <<now, history>>

(* main(): the tox is created from the savedata file, which is written back *)
(* before the loop starts.                                                  *)
Restart ==
  /\ ~up
  /\ up' = TRUE
  /\ saved' = profile
  /\ UNCHANGED <<conn, profile, avatar, mgr, db, now, out, history>>

Tick == up /\ now < MaxTime /\ now' = now + 1
        /\ UNCHANGED <<up, conn, profile, saved, avatar, mgr, db, out, history>>

-----------------------------------------------------------------------------
(* The avatar is read at the first connection that finds the file, and      *)
(* offered to every friend that connects.                                   *)
SendAvatar(p) ==
  /\ avatar' \in IF avatar THEN {TRUE} ELSE AvatarReads
  /\ out' = IF avatar' THEN Message(p, "avatar", Blank) ELSE NoMessage

(* tox_friend_connection_status_callback, friend online: p connects, or its *)
(* connection changes between TCP and UDP.                                  *)
FriendOnline(p, c) ==
  /\ up /\ conn[p] # c
  /\ \E r \in FindFriend(db, mgr, p) :
       \/ ~r.up /\ Die(db)
       \/ /\ r.up
          /\ conn' = [conn EXCEPT ![p] = c]
          /\ mgr' = IF r.member = NULL THEN r.mgr ELSE AddMember(r.mgr, r.member)
          /\ SendAvatar(p)
          /\ UNCHANGED <<up, profile, saved, db>>
  /\ UNCHANGED <<now, history>>

(* The same callback, friend offline. *)
FriendOffline(p) ==
  /\ up /\ conn[p] # Offline
  /\ conn' = [conn EXCEPT ![p] = Offline]
  /\ mgr' = DelMember(mgr, p)
  /\ out' = NoMessage
  /\ UNCHANGED <<up, profile, saved, avatar, db, now, history>>

-----------------------------------------------------------------------------
(* Mutant: the savedata file is not written. *)
SaveNothing(newProfile) == profile' = newProfile /\ UNCHANGED saved

(* update_savedata_file, from a callback that reports newProfile. Nobody    *)
(* looks at the result of rename().                                         *)
Save(newProfile) ==
  /\ profile' = newProfile
  /\ \/ saved' = IF NameStoredFirst THEN newProfile ELSE profile
     \/ "rename" \in Faults /\ UNCHANGED saved

(* friend_name_cb (field nick_name) and friend_status_message_cb (bio):     *)
(* database, cache, savedata file, in this order; the result of the         *)
(* statement is ignored.                                                    *)
FriendReports(p, field, v) ==
  /\ up /\ conn[p] # Offline
  /\ \E r \in Execute(db, UpdateColumn(db, p, field, v, now)) :
       \/ ~r.up /\ Die(r.table)
       \/ /\ r.up
          /\ db' = r.table
          /\ mgr' = SetField(mgr, p, field, v)
          /\ Save([profile EXCEPT ![p] = [@ EXCEPT ![field] = v]])
          /\ out' = NoMessage
          /\ UNCHANGED <<up, conn, avatar>>
  /\ UNCHANGED <<now, history>>

(* friend_request_cb, for a friend who is new: the file then written has    *)
(* what toxcore holds of the others as well.                                *)
FriendRequest ==
  /\ up
  /\ Save(profile)
  /\ out' = NoMessage
  /\ UNCHANGED <<up, conn, avatar, mgr, db, now, history>>

-----------------------------------------------------------------------------
(* Commands. A message comes from a connected friend. /start and the fixed  *)
(* texts are always answered, /stop and /set when their statement reports a *)
(* changed row.                                                             *)

(* Mutant: they are answered whatever became of the statement. *)
AnsweredAlways(r) == TRUE

Answered(r) == r.ret > 0

(* What get_name and get_status_message are told by toxcore. Its queries    *)
(* find p, for whom the callback was called.                                *)
GetName(p) == profile[p].nick_name
GetStatusMessage(p) == profile[p].bio

(* cmd_start with a ToxID. The result of add_friend is ignored.             *)
Start(p, tok_id) ==
  LET name == GetName(p)
      bio  == GetStatusMessage(p)
  IN
  /\ up /\ conn[p] # Offline
  /\ \E r \in Execute(db, ReplaceRow(db, p, tok_id, name, bio, now)) :
       \/ ~r.up /\ Die(r.table)
       \/ /\ r.up
          /\ db' = r.table
          /\ \E m \in Allocatable(mgr) :
               mgr' = AddMember(Fill(Allocate(mgr, m), m,
                                     [Allocate(mgr, m).member[m] EXCEPT
                                        !.pk = p, !.tok_id = tok_id,
                                        !.nick_name = name, !.bio = bio]), m)
          /\ Reply(p, "start", Blank)
          /\ UNCHANGED <<up, conn, profile, saved, avatar>>
  /\ consent' = [consent EXCEPT ![p] = "on"]
  /\ acked_signature' = [acked_signature EXCEPT ![p] = Empty]
  /\ UNCHANGED now

(* What /stop makes of the friend's consent: withdrawn for good when the    *)
(* bot answers it, otherwise only asked for.                                *)
Withdrawn(p, answered) ==
  consent' = [consent EXCEPT ![p] =
                CASE answered  -> "off"
                  [] ~answered -> IF @ = "on" THEN "stopping" ELSE @]

(* cmd_stop                                                                 *)
Stop(p) ==
  /\ up /\ conn[p] # Offline
  /\ \E r \in Execute(db, DeleteRow(db, p)) :
       \/ ~r.up /\ Die(r.table) /\ Withdrawn(p, FALSE)
       \/ /\ r.up
          /\ db' = r.table
          /\ mgr' = DelMember(mgr, p)
          /\ IF Answered(r) THEN Reply(p, "stop", Blank) ELSE out' = NoMessage
          /\ Withdrawn(p, Answered(r))
          /\ UNCHANGED <<up, conn, profile, saved, avatar>>
  /\ acked_signature' = [acked_signature EXCEPT ![p] = Empty]
  /\ UNCHANGED now

(* cmd_set with a text: the cache first, then the database.                 *)
Set(p, signature) ==
  /\ up /\ conn[p] # Offline
  /\ \E r \in Execute(db, UpdateColumn(db, p, "signature", signature, now)) :
       \/ /\ ~r.up
          /\ Die(r.table)
          /\ acked_signature' = [acked_signature EXCEPT ![p] = Empty]
       \/ /\ r.up
          /\ db' = r.table
          /\ mgr' = SetField(mgr, p, "signature", signature)
          /\ IF Answered(r) THEN Reply(p, "set", Blank) ELSE out' = NoMessage
          /\ acked_signature' = [acked_signature EXCEPT ![p] =
                                   IF Answered(r) THEN signature ELSE Empty]
          /\ UNCHANGED <<up, conn, profile, saved, avatar>>
  /\ UNCHANGED <<now, consent>>

(* cmd_get: a random online member other than the one asking.               *)
Get(p) ==
  /\ up /\ conn[p] # Offline
  /\ \/ \E card \in RandomMember(mgr, p) : Reply(p, "get", card)
     \/ RandomMember(mgr, p) = {} /\ Reply(p, "get_none", Blank)
  /\ UNCHANGED <<up, conn, profile, saved, avatar, mgr, db, now, history>>

(* Nickname, bio and signature printed by cmd_info: of the cached member,   *)
(* else what toxcore knows of the friend and no signature.                  *)
InfoCard(p) ==
  IF Online(mgr, p)
    THEN [FindMember(mgr, p) EXCEPT !.pk = p, !.tok_id = Empty]
    ELSE Card(p, Empty, GetName(p), GetStatusMessage(p), Empty)

Info(p) ==
  /\ up /\ conn[p] # Offline
  /\ Reply(p, "info", InfoCard(p))
  /\ UNCHANGED <<up, conn, profile, saved, avatar, mgr, db, now, history>>

(* /help, /readme, an unknown command, and /start or /set with nothing      *)
(* after it: a fixed text is sent and no state changes.                     *)
FixedText(p) ==
  /\ up /\ conn[p] # Offline
  /\ Reply(p, "text", Blank)
  /\ UNCHANGED <<up, conn, profile, saved, avatar, mgr, db, now, history>>

(* Mutant: /start with nothing after it registers the friend. *)
CommandUnchecked(p) ==
  \/ \E t \in TokIds \cup {Empty} : Start(p, t)
  \/ Stop(p)

Command(p) ==
  \/ \E t \in TokIds : Start(p, t)
  \/ Stop(p)
  \/ \E s \in Signatures : Set(p, s)
  \/ Get(p)
  \/ Info(p)
  \/ FixedText(p)

Callback(p) ==
  \/ \E c \in Conns : FriendOnline(p, c)
  \/ FriendOffline(p)
  \/ \E field \in {"nick_name", "bio"} :
       \E v \in Texts[field] : FriendReports(p, field, v)
  \/ Command(p)

Next == Crash \/ Restart \/ Tick \/ FriendRequest \/ \E p \in Users : Callback(p)

Spec == Init /\ [][Next]_vars

-----------------------------------------------------------------------------
(* Types. *)
Records ==
  [tok_id : TokIds, nick_name : Names \cup {Empty}, bio : Bios \cup {Empty},
   signature : Signatures \cup {Empty},
   create_time : 0 .. MaxTime, update_time : 0 .. MaxTime]

Descs == {"nothing", "avatar", "start", "stop", "set", "get", "get_none",
          "info", "text"}

(* Every variable has its type; what a process that is down has forgotten   *)
(* is forgotten.                                                            *)
TypeOK ==
  /\ up \in BOOLEAN
  /\ conn \in [Users -> Conns \cup {Offline}]
  /\ profile \in [Users -> Profile]
  /\ saved \in [Users -> Profile]
  /\ avatar \in BOOLEAN
  /\ mgr \in MgrType
  /\ db \in UNION {[D -> Records] : D \in SUBSET Users}
  /\ now \in 0 .. MaxTime
  /\ out \in [to : Users \cup {NULL}, desc : Descs, about : Cards]
  /\ consent \in [Users -> {"none", "on", "stopping", "off"}]
  /\ acked_signature \in [Users -> Signatures \cup {Empty}]
  /\ ~up => mgr = InitMgr /\ conn = [p \in Users |-> Offline]

-----------------------------------------------------------------------------
(* Safety, under every fault.                                               *)

(* Every Member object has one owner, whatever order friends connect,       *)
(* disconnect, register and withdraw in and whichever statement fails: no   *)
(* object is in the pool and in the map, or twice in either, so a recycled  *)
(* object never shows one friend under another's key (MemberMgr.cpp).       *)
PoolOwnership == OwnedOnce(mgr)

(* The pool never grows past its limit, which the code's comparison makes   *)
(* one more than MAX_POOL_SIZE (LockedQueue.h, deallcate).                  *)
PoolBounded == Len(mgr.free_list) <= MAX_POOL_SIZE + 1

(* Only friends connected now are in online_member, which is what the name  *)
(* of the map and "number of member online" say of it. The entry "" that a  *)
(* half-read row leaves is set apart.                                       *)
ListedAreConnected ==
  \A p \in Users : Online(mgr, p) => conn[p] # Offline

(* README.md: "/stop: Let the bot stop recommending you to others". Once    *)
(* /stop was answered, the friend is neither cached nor in the table, in    *)
(* every later state, across crashes and reconnections, until the next      *)
(* /start. A friend who never sent /start is in neither.                    *)
AckedStopHonoured ==
  \A p \in Users :
    Online(mgr, p) \/ p \in DOMAIN db => consent[p] \in {"on", "stopping"}

(* A /set answered with "Done!" is in the table, across crashes, until the  *)
(* friend's next /start, /stop or /set.                                     *)
AckedSignatureKept ==
  \A p \in Users :
    acked_signature[p] # Empty =>
      p \in DOMAIN db /\ db[p].signature = acked_signature[p]

(* No callback changes the row, or the cached card, of more than one        *)
(* friend: every handler works on the friend it was called for.             *)
CardOf(s, p) == IF Online(s, p) THEN FindMember(s, p) ELSE Blank
RowOf(table, p) == IF p \in DOMAIN table THEN table[p] ELSE NULL

Changed(p) ==
  CardOf(mgr, p)' # CardOf(mgr, p) \/ RowOf(db, p)' # RowOf(db, p)

OneFriendAtATime ==
  [][up' => \A p, q \in Users : Changed(p) /\ Changed(q) => p = q]_vars

-----------------------------------------------------------------------------
(* Safety of the program as long as no statement, query or message fails:   *)
(* the process may die at any place of a callback and rename() fail (Faults *)
(* has no kind but connect, kill and rename).                               *)

(* A friend is listed exactly when connected and registered: a friend who   *)
(* registered is offered to the others, and one who withdrew, was never     *)
(* registered or left is not.                                               *)
ListedExactly ==
  DOMAIN mgr.online_member = {p \in DOMAIN db : conn[p] # Offline}

(* The card that belongs to a row. *)
CardOfRow(p) ==
  Card(p, db[p].tok_id, db[p].nick_name, db[p].bio, db[p].signature)

(* What others are shown as "Interested in" is the text whose /set was      *)
(* answered "Done!" last, as long as the friend is listed.                  *)
AckedSignatureShown ==
  \A p \in Users :
    acked_signature[p] # Empty /\ Online(mgr, p) =>
      FindMember(mgr, p).signature = acked_signature[p]

(* Is p's cached card, if there is one, field by field that of p's row? *)
Exact(p) == Online(mgr, p) => p \in DOMAIN db /\ FindMember(mgr, p) = CardOfRow(p)

(* Only one thing makes a cached card differ from its row: a /start of a    *)
(* friend who is listed already. No other callback of any friend, no death  *)
(* and no change between TCP and UDP does. A friend who comes back online   *)
(* is therefore listed as the table says, whatever was shown before.        *)
CacheStaysExact ==
  [][\A p \in Users :
       Exact(p) => \/ Exact(p)'
                   \/ Online(mgr, p) /\ out' = Message(p, "start", Blank)]_vars

(* The objects that are in use and in neither the pool nor the map. *)
Leaked(s) ==
  s.live \ ({s.free_list[i] : i \in 1 .. Len(s.free_list)}
             \cup {s.online_member[k] : k \in DOMAIN s.online_member})

(* A Member object is lost to pool and map only when add_member finds the   *)
(* friend listed already: at another /start, or when the connection changes *)
(* between TCP and UDP.                                                     *)
OnlyReaddingLeaks ==
  [][\/ Leaked(mgr') \subseteq Leaked(mgr)
     \/ \E p \in Users :
          /\ Online(mgr, p)
          /\ \/ out' = Message(p, "start", Blank)
             \/ conn[p] # Offline /\ conn'[p] \notin {Offline, conn[p]}]_vars

-----------------------------------------------------------------------------
(* Safety of the names and bios as long as a statement that returns was run *)
(* and rename() succeeds (Faults without prepare, execute and rename).      *)

(* A name or bio that toxcore has and the savedata file has not. *)
Unsaved(p, field) == saved[p][field] # profile[p][field]

(* The savedata file, which toxcore is created from after a death, is at    *)
(* most one name or bio of one friend behind toxcore, whoever reports       *)
(* what and wherever the process dies (update_savedata_file).               *)
SavedOneBehind ==
  \A p, q \in Users : \A f, g \in {"nick_name", "bio"} :
    Unsaved(p, f) /\ Unsaved(q, g) => p = q /\ f = g

(* A name or bio of a row that is not the one toxcore holds. *)
Stale(p, field) == p \in DOMAIN db /\ db[p][field] # profile[p][field]

NewlyStale(p, field) == Stale(p, field)' /\ ~Stale(p, field)

(* What others are shown of a friend goes stale by a death and by nothing   *)
(* else, and then little of it. While the process runs, no callback parts   *)
(* a row from toxcore, and one that writes to either makes them agree. A    *)
(* death between callbacks leaves one name or bio of one friend that the    *)
(* file did not have yet; one after the statement of a callback, that and   *)
(* the one the statement wrote.                                             *)
RowsGoStaleByDeath ==
  [][/\ up' =>
          \A p \in Users, f \in {"nick_name", "bio"} :
            Stale(p, f)' => Stale(p, f) /\ UNCHANGED <<db[p][f], profile[p][f]>>
     /\ ~up' =>
          \A p, q, r \in Users : \A f, g, h \in {"nick_name", "bio"} :
            NewlyStale(p, f) /\ NewlyStale(q, g) /\ NewlyStale(r, h) =>
              \/ <<p, f>> = <<q, g>>
              \/ db' # db /\ <<r, h>> \in {<<p, f>>, <<q, g>>}]_vars

-----------------------------------------------------------------------------
(* What the repository says and the code does not do.                       *)

(* config.ini, desc_get: "TokID: %4% ... Click Tok ID to add this friend",  *)
(* and desc_start after every /start: what a recommendation shows is what   *)
(* the friend registered last.                                              *)
RecommendsRegisteredCard ==
  out.desc = "get" /\ out.about.pk \in DOMAIN db =>
    out.about.tok_id = db[out.about.pk].tok_id

(* README.md: "/stop: Let the bot stop recommending you to others". A       *)
(* friend whose last command was /stop is not recommended.                  *)
StoppedNotRecommended ==
  out.desc = "get" /\ out.about.pk \in Users => consent[out.about.pk] = "on"

(* config.ini, desc_start: "FindFriendBot service has been turned on". A    *)
(* friend who was told so, has not sent /stop since and is connected is     *)
(* there when another asks for a recommendation.                            *)
StartedIsRecommended ==
  out.desc = "get_none" =>
    \A p \in Users \ {out.to} : consent[p] = "on" => conn[p] = Offline
=============================================================================
