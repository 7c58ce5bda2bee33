# FindFriendBot in TLA+

FindFriendBot is a bot on the Tox network. Friends who send `/start` let it
recommend them to others, `/get` asks for a recommendation, `/set` attaches a
text to it, `/stop` ends it. This directory holds a model of the bot in TLA+,
the TLC runs that check it and the proofs that TLAPS checks.

Sources are named as they lie below `src/`: the code is in `src/src/`, its
documents are `src/README.md`, `src/conf/config.ini` and
`src/doc/mysql/db_tok.sql`. The repository has no tests.

## 1. The system

The program is one thread. `main` (`main.cpp`) reads options and settings,
creates the tox from the savedata file, joins the network, writes the savedata
file back, and then calls `tox_iterate` and sleeps a little, for ever. toxcore
calls back from inside `tox_iterate`, and every callback runs to completion.
So there are no interleavings of threads; what interleaves are *callbacks* of
several friends, timers, deaths of the process, and changes of the files and of
the database server by others. Three pieces of state answer the question "who
is registered": the table in MySQL, the cache in memory, and toxcore's
connection status. They are updated one after the other, and each update can
fail while the others succeed.

| Part | State | Operations | Uses |
|---|---|---|---|
| Callbacks and commands (`Assisant.cpp`) | none of its own but the avatar | `tox_friend_connection_status_callback`, `friend_name_cb`, `friend_status_message_cb`, `friend_message_cb`, `cmd_*` | all below |
| Member cache (`MemberMgr`, `Member`) | `map_members online_member`: pk to `Member*` | add, find, del, random, allocate | object pool |
| Object pool (`lock_queue<Member>`) | `list<Member*>` | `allocate`, `deallcate` | – |
| Member table (`MemberModel.cpp`) | rows of `t_tokme_member` | replace, delete, three updates, select | connection pool, cache (`allocate`) |
| Connection pool (`DBConn`) | list of connections | `allocate`, `release`, `_create_connection`, `_destroy` | Connector/C++ |
| Message parser (`parse_msg`, `process_cmd`) | none | – | commands |
| Welcome text (`friend_request_cb`, `event_timeout_cb`) | malloc'd intervals, timers | – | toxcore's timers |
| Savedata file (`update_savedata_file`, `Bot::create_tox`) | file and temporary file | load, save | `Conf` |
| Avatar (`get_data`, `file_chunk_request_cb`) | `avatar_data`, `avatar_data_size` | read, offer, send chunk | toxcore's transfers |
| Configuration (`Conf`), bootstrap, `Logger`, `Util`, `Lock.h` | settings | – | – |

What is hard, and a test would hardly reach:

- **Order.** Friends connect, change between TCP and UDP (which is reported as
  another connection), leave, register twice, withdraw, rename, in any order;
  `Member` objects go round between pool and map all the while.
- **Partial failure.** A callback writes table, cache and savedata file, one
  after the other. A statement can fail before it ran, fail after it ran, or end
  the process, because pointers are dereferenced or deleted unchecked.
- **Crashes.** The process can die between any two steps. Table and savedata
  file remain; cache, connection status, timers and transfers do not.
- **Retries.** The welcome text is sent again by a timer whose friend comes and
  goes, and whose buffer is handed from one timer event to the next.
- **Files that change under the program**: the avatar while it is being sent,
  the savedata file while it is being replaced.
- **Boundaries**: the pool's limit, the last wait, the last chunk, the wrapping
  count in `substr`.

What makes each part correct, in a sentence each:

- *Cache and pool*: each `Member` object has one owner; nobody is shown under
  another's pk; the pool stays within its limit.
- *Callbacks*: those listed are those registered and connected; what was
  answered (`/stop`, `/set`) is so, in every later state.
- *Table*: name and bio follow toxcore's while the process runs; a death leaves
  them behind by what was being reported, and by no more.
- *Connection pool*: whatever throws, what was taken is given back; a call has
  one of a few outcomes as seen from outside.
- *Parser*: never throws; runs the command meant and no other.
- *Welcome text*: one owner per buffer; tried again in time, given up late,
  settled in the end.
- *Savedata*: identity and friends survive; only a configured bot serves.
- *Avatar*: the bytes sent are those of the hash offered; `memcpy` stays in the
  buffer.

## 2. The modules

| Module | Models | Form |
|---|---|---|
| `MemberMgr` | cache, pool and `Member` | operators on one record (`online_member`, `free_list`, `member`, `live`), one per method |
| `MemberModel` | the table's statements | one operator per statement, and the set of its outcomes under `Faults` |
| `Assisant` | the bot: callbacks over cache and table, savedata, death and restart | one action per callback or command |
| `Directory` | what `README.md` promises | abstract specification: who authorized, who is present |
| `MCAssisant` | – | symmetry and the refinement mapping |
| `Callbacks`, `MCCallbacks` | the callbacks of `Assisant` taken apart, with cache, table and savedata file | one action per call that changes something |
| `DBConn` | connection pool, and a `MemberModel` call taken apart | one action per step of the call |
| `Conf` | command line, config file, settings | operators on a record of the settings |
| `Savedata`, `MCSavedata` | process start and `update_savedata_file` | one action per system call |
| `FriendTips` | welcome text, timers | one action per branch of the callback |
| `Avatar`, `MCAvatar` | avatar | one action per callback |
| `Commands`, `MCCommands` | the message parser | operators for `parse_msg`, `process_cmd`; messages as sequences of tokens |
| `AssisantProofs`, `DirectoryProofs`, `CallbacksProofs`, `DBConnProofs`, `SavedataProofs`, `FriendTipsProofs`, `AvatarProofs`, `CommandsProofs` | – | the proofs about the module named, `DirectoryProofs` those about `MCAssisant`: the bot where only the process fails, and that it is a `Directory` |

`Assisant` extends `MemberModel`, which extends `MemberMgr`; the three are one
state machine. `DBConn` extends `MemberModel` to show that its `Execute` and
`FindFriend` are the outcomes of the real sequence of calls. `Callbacks` extends
`Assisant` to show that its actions are those of the real callbacks: between
their calls the process can be killed, and cache, table, temporary file and
savedata file are seen as they are then. `Savedata` extends `Conf`. The other
modules are state machines of their own: they share no state with the members
(the savedata file apart, of which `Assisant` and `Callbacks` keep the profiles,
`saved`, and `Savedata` the identity and the friends).

The abstractions are stacked: `DBConn` justifies the database call that is one
step in `Callbacks` and `Assisant`; `Callbacks` implements `Assisant`, so that a
safety property of `Assisant`'s runs holds of the callbacks taken apart, as
friends see them;
`Assisant` implements `Directory`, the promise of `README.md`, wherever the process
dies and as long as nothing else fails. Each of the three is checked by a run and
proved.

### How state and actions correspond to the code

*`MemberMgr`.* A `Member*` is a member of `Members`, which bounds the heap.
`live` holds what was new'd and not deleted. `Allocate` is
`lock_queue::allocate` and `_reset`; `Deallcate` the limit check and the push or
delete; `AddMember` keeps an existing entry as `map::insert` does; the object
handed in is then in `live` and nowhere else. `RandomMember` is the *set* of
members `random_member` may pick. A deleted object's fields are normalised to
blank, so that they tell no states apart.

*`MemberModel`.* The table is a function from pk to a row. `Execute(old, new)`
is the set of outcomes of one statement: it runs; no connection was to be had and
the process dies of the null pointer (`"connect"`); `prepareStatement` throws and
an uninitialised pointer is deleted, which the process may or may not survive
(`"prepare"`); it throws before the server ran it (`"execute"`) or after
(`"lost"`); the process is killed after it ran (`"kill"`). `FindFriend` adds a
row that is read only in part (`"fetch"`). The constant `Faults` says which of
these happen.

*`Assisant`.* `conn` and `profile` are what toxcore last reported and what it
holds; `saved` is what the savedata file holds of it; `out` is what the last
callback sent, the text itself abstracted to the name of its template. Each
callback is one action with everything it calls, in its order: `FriendReports`
(a name or a status message, in two callbacks of the same shape) writes the row,
then the cache, then the savedata file, and ignores the results of the statement
and of `rename()`; `Set` changes the cache before the row; `Stop` erases before
it deletes and answers only if a row went; `Start` ignores what `add_friend`
returns. `FriendRequest` is the part of `friend_request_cb` that touches this
state: it saves what toxcore holds of everyone. A death is before a callback or
between two (`Crash`), or, with `"kill"`, after its statement. `NameStoredFirst`
says whether toxcore stores a name before or after it reports it, which the
repository does not determine: c-toxcore reports first, so that the file
`update_savedata_file` writes in the callback has the old name. The runs whose
properties read names and bios have it `FALSE`; in `clean`, where none does, it is
`TRUE`; the theorems hold of both. `consent` and `acked_signature` are histories.

*`Callbacks`.* `call` is the callback in progress, which step it takes next, for
whom and with what; `tmp` is `save_data_tmp_file`. `FindFound`, `AddFound`,
`OfferAvatar` are the connection callback; `UpdateReported`, `CacheReported`,
`Fopen`, `Fwrite`, `Rename` a name or status message; `RequestAdded`, followed by
the same three, `friend_request_cb`; `StartReplace`,
`StartRegister` are `cmd_start`; `StopCache` and `SetCache` begin `cmd_stop` and
`cmd_set`, whose statement is `CommandStatement`; `Answer` is the end of
`process_cmd`. `Kill` is possible after each. `before` is what the callback found:
a friend sees nothing of a callback until it ends, and `Seen` is therefore
`before` while one is in progress. The refinement mapping replaces the state by
`Seen`, so that a callback is one step of `Assisant`, at its end or death.
Callbacks that change one thing only are `Assisant`'s own actions (`Whole`).

*`Conf`.* A config file is the set of settings it gives and whether the parser
refuses it; a setting's value is the file that it came from. `OptionThrows` and
`ConfThrows` are the exceptions that `parse_option` and `parse_conf` let through,
from `notify()`, which checks `required()` before it stores anything; what
`store()` throws is caught.

*`Savedata`.* `pc` is the call that `main` or a callback is in, `Kill` is
possible at each. `tmp` is truncated by `Fopen`, filled by `Fwrite` and renamed;
none of the three results is checked. `create_tox` is `NoSavedata` (there is no
file, or `fopen` fails for one that is there: both take the `else` branch),
`LoadWhole`, or `LoadPart` (the file is torn, or `fread` does not get all of it);
`misread` is the history of a file that was there and was not loaded whole.
`conf` is the global of that name: `main` ignores what `parse_option` and
`parse_conf` return. A command line that is refused leaves the file name empty, and
`parse_conf` throws for want of every setting. A config file that is refused leaves
every setting empty and the start goes on, until `fopen` of an empty name fails in
`update_savedata_file`: `Exists`, `CanOpen` and `Bootstrap` say what the calls in
between make of it.

*`FriendTips`.* A timer carries the address of its buffer, the heap maps
addresses to intervals. `Die` and `Start` are the process's: friends remain, timers
and connections do not. A request that toxcore could not add has its timer for
`NoFriend`, the invalid number, to whom nothing is ever sent. `told`, `owed` (whose
request is still to be answered by a timer), `untried` (for how long) and `elapsed`
in a timer are histories; the clocks are bounded by `Horizon`.

*`Avatar`.* An image is a model value with a size. `GetData` may fail with no
file, no memory (the size then keeps its value) or a read that does not fill the
buffer (`Garbage`).

*`Commands`.* A message is a sequence of words, slashes and spaces; two words in
a row are a longer word. `Find` and `Substr` are those of `std::string`, with
`npos` and a `size_t` that wraps (`SIZE_MAX`).

*`DBConn`.* The pointers `pstmt` and `res` are uninitialised, alive, deleted or
deleted twice. Tables are told apart as old and new only. `undeleted` counts the
Statements of `_create_connection` (`DBConn.cpp:97`), which nothing deletes.

## 3. The runs

A run whose name is in the first table passes; a run in the second finds a
statement of the repository violated.

| Run | Instance | What it shows |
|---|---|---|
| `clean` | 2 friends, 3 objects, pool limit 0, TCP and UDP, a name, no faults but the death of the process, between callbacks and in them | `ListedExactly`: the listed are the registered and connected. `CacheStaysExact`: only a repeated `/start` makes a card differ from its row. `OnlyReaddingLeaks`: only a repeated add loses a `Member`. `AckedSignatureShown`, `OneFriendAtATime`. `ImplementsDirectory`: the bot is a `Directory`. |
| `rows` | 2 friends, 2 objects, a clock, a name and a bio, stored by toxcore after the callback, the process killed anywhere | `SavedOneBehind`: the savedata file is one name or bio of one friend behind at most. `RowsGoStaleByDeath`: a row parts from toxcore by a death only, and by two names or bios at most |
| `faults` | 2 friends, 3 objects, every fault of the database and of sending; no names or bios, so that `FriendReports` does not happen | `TypeOK`, `PoolOwnership`, `PoolBounded`, `ListedAreConnected`, `AckedStopHonoured`, `AckedSignatureKept`, whichever call fails |
| `callbacks` | 1 friend, a name, a signature, a clock, toxcore storing names late, friend requests, killed between any two calls, exceptions, `rename()` failing | `CallTypeOK`; `ImplementsAssisant`: a callback taken apart, wherever it dies, is one step of `Assisant` |
| `tips` | 2 friends, 2 buffers, intervals 1, 2, 4, timers up to 1 s late, deaths and starts | `BufferOwnership`; `TriedSoonEnough`: whoever is owed the text is tried again in time; `GivesUpLate`: a process that runs on gives up late, whoever is connected; and `WelcomeSettles` (liveness) |
| `savedata` | 3 identities, 2 friends, every fault, four config files: complete, misspelt, incomplete, missing | `SavedFileWhole`; `SavedataCarriedOver`: the file is never replaced by one with another identity or a friend less but by a process that could not read it; `ServesAsBefore`, `ServesConfigured`, and `AcceptedIsSaved` (liveness) |
| `commands` | every message of up to 4 tokens | `NeverThrows`, and the parser against a reference reading (`RunsOnlyWhatIsMeant`, `RunsWhatIsTyped`) |
| `avatar` | 2 friends, 2 transfers each, images of size 0, 3 and 4, chunks of 2 | `SizeIsOfBuffer`, `SentAsOffered`, `NothingRefused` |
| `dbconn` | one call after the other, every fault, `max_conn` 1 | `OneConnection`, `ConnectionsReturned`, `DeletedOnce`, and that `MemberModel` is right (`UpdateIsAtomic`, `FindIsAtomic`) |

| Run | Statement | What happens |
|---|---|---|
| `stale_tok_id` | `config.ini:18,25`: the service is on, and the card shows the ToxID to click | after a second `/start` with another ToxID, `insert` keeps the old entry: others get the old ToxID until the friend reconnects |
| `stop_lost` | `README.md:11`: `/stop` stops recommending you | the DELETE fails after the cache entry is gone: the next connection lists the friend again |
| `start_lost` | `config.ini:18`: the service has been turned on | the REPLACE fails and the result is ignored: the friend is listed until the next disconnection and then not, and others are told there is nobody |

### Why the bounds are enough

Two friends are needed for anything about mixing them up, and no property speaks
of three. Three `Member` objects let both friends be listed while one is leaked
or pooled; when all are leaked, allocation stops, which only cuts behaviours off
after that point. A pool limit of 0 makes the pool reach its limit, 1, and
overflow, with two friends. In `rows` two objects are enough: no property speaks
of them there. The connection kinds are two only where it matters (`clean`).
Every friend begins with the empty name and bio. There is a name besides in `clean`
and `callbacks`, a name and a bio in `rows`, and neither in the other runs, whose
properties do not read them; a bio is treated in model and code as a name is, and
the proofs are of both. Where `MaxTime` is 0 no property reads the clock; in `rows`
and `callbacks` a clock of two values tells the two times of a row apart. In
`callbacks` one friend suffices: while a callback is in progress no other friend's
runs, and which friend a whole callback is for is the concern of `clean` and
`faults`. Symmetry is used for friends and objects in `clean`, `rows` and `faults`,
for objects in `callbacks` and for friends in `avatar`; none of these checks a
liveness property, and no definition chooses among them.

In `tips` the intervals are scaled down from 1…128 to 1…2; the bounds in the
properties are given in `RESEND_TIME_BASE` and `RESEND_TIME_MAX`, and the largest
is reached. The clocks of the properties stop at `Horizon`, four times
`RESEND_TIME_MAX` and the lateness, which is beyond every bound a property names. In `savedata` three identities let the bot lose its own twice, and the four config
files are the ways `parse_conf` can end: stored, caught, thrown for a setting that
is missing, thrown for all of them.
In `commands` four tokens suffice for a space before the slash, a second slash, a
word after the command, and a longer word; `SIZE_MAX` is 65535, larger than any
length and so as good as the real one for a count that wraps. In `avatar` the
images are empty, not a multiple of the chunk, and a multiple. In `dbconn` the
three connections let a leaked one be noticed, and `undeleted` is counted up to
`MaxUndeleted`, 2; no property reads it.

The deadlock check is on in every run: the bot never stops of itself.

### Fairness

Only `tips` and `savedata` check liveness. `FairSpec` of `FriendTips` is weak
fairness of `Tick` and `Fire`: seconds pass, and the loop of `main.cpp:56-59`
comes round to a timer that has run out. Friends are under no obligation to
connect or ask, and sends may be refused for ever. `FairSpec` of `Savedata` is
weak fairness of `Step`: the process goes on unless it is killed. Nobody is
obliged to start it again, and it may be killed whenever it is up; the property
allows for that.

## 4. The proofs

Every safety property that a passing run checks is also a theorem, proved for
every value of the constants under the assumptions that the modules state:
the invariants, the action properties and the three refinements. What is assumed
beyond them is a hypothesis of the theorem, and named below.

Everywhere the argument is an inductive invariant: it holds at first, every step
of `Next` keeps it (one lemma per action, or one step per action in a proof), and
it implies the property.

### The bot under every fault: `AssisantProofs`

For any sets of friends, texts and `Member` objects, any pool size, any `Faults`,
and any `MaxTime`:

| Theorem | Property |
|---|---|
| `TypeCorrect` | `TypeOK` |
| `OneOwner` | `PoolOwnership`: one owner per `Member` object |
| `PoolLimit` | `PoolBounded` |
| `OnlyConnectedListed` | `ListedAreConnected` |
| `StopHonoured` | `AckedStopHonoured`: an answered `/stop` keeps the friend out of cache and table |
| `SignatureKept` | `AckedSignatureKept`: an answered `/set` is in the table |

The assumptions are those the modules state: `NULL` and the empty string are no
pk, the empty string is no signature, `Offline` is no connection kind,
`Faults` are of the kinds listed, numbers are naturals.

The inductive invariant `IInv` is the conjunction of the six. None of the last
five stands without the types, and they lean on each other: that a disconnection
leaves the friend unlisted needs only that the map has one entry per pk, but that
it leaves *nobody else's* card changed or freed needs `PoolOwnership`;
`AckedStopHonoured` after a connection needs the table's half of itself, because
`find_friend` lists whom the table holds.

The module begins with the part about objects. `Sound(s)` is type, ownership
and limit of the record. Between `allocate()` and `add_member()` an object is
owned by nobody yet, which is `Unowned(s, m)`: `AllocateLemma` establishes it,
`FillLemma` keeps it, `AddMemberLemma` uses it up. `Sound` is needed with
`s.member[...].pk = k` in it: `add_member` files an object under its own pk, and
only then is it sure that the setters, which look a member up by pk, write to that
friend's card. `DelMemberLemma` and `SetterLemma`, one lemma for the three
fields, do the rest. `ExecuteLemma` and `FindFriendLemma` then say what a
statement can come to under any faults, `DieLemma` what a death leaves, and there
is one lemma per action.

### The bot where only the process fails: `DirectoryProofs`

| Theorem | Property | Hypothesis |
|---|---|---|
| `OneAtATime` | `OneFriendAtATime`: a callback changes one friend's row and card at most | – |
| `ListedThoseWhoAre` | `ListedExactly` | `OnlyDeaths` |
| `SignatureShown` | `AckedSignatureShown` | `OnlyDeaths` |
| `ExactStaysExact` | `CacheStaysExact` | `OnlyDeaths` |
| `LeaksOnlyByReadding` | `OnlyReaddingLeaks` | `OnlyDeaths` |
| `KeepsThePromise` | `ImplementsDirectory` | `OnlyDeaths` |
| `SavedBehindByOne` | `SavedOneBehind` | `NoneLost` |
| `RowsStaleByDeath` | `RowsGoStaleByDeath` | `NoneLost` |

`OnlyDeaths` is that `Faults` has none but `"connect"`, `"kill"` and `"rename"`: the
process may die at any place of a callback and `rename()` fail, and no statement,
query or message does. It cannot be left out: with a statement that fails and a
process that goes on, a friend is in one of table and cache and not in the other
(section 6). `NoneLost` is that `Faults` has neither `"prepare"` nor `"execute"` nor
`"rename"`: a statement that returns was run, and the file is replaced.

`CleanInv` adds to `IInv` that the map has entries for friends only, and for each
friend `Listed` (in the map if and only if connected and in the table) and
`AckShown` (the card has the text of an answered `/set`). A step is one the process
survives or a death. Of the first, `Effect(p)` says what a callback for `p` does to
`p` and that nobody else's connection or acknowledged text changes, `OthersKept(p)`
that all others keep row and card; one lemma per callback establishes each. After a
death cache and connections are gone, and the table is as before or has one present
friend's command obeyed, which is `AllLeave` of `Directory`: whoever dies of a
`/start` has registered or has not. The action properties are read off these
lemmas.

`RowsGoStaleByDeath` needs no more of the cache than `IInv`. While the process runs,
each callback that writes a row or toxcore's profile leaves the two equal
(`FreshLemma`). After a death toxcore has what the savedata file had, so what goes
stale is what was `Unsaved`, and what the statement under way wrote: `LostLemma`
puts `SavedOneBehind` to use, which says of the first that it is one name or bio.

### The callbacks taken apart: `CallbacksProofs`

`CallbacksImplementAssisant` proves `ImplementsAssisant`, `CallTypeCorrect` proves
`CallTypeOK`. `CallbacksAssumption` is that a process can be killed before and
after a statement, and that `NULL` is no state.

The inductive invariant `CInv` says, for each place a callback can be in, how the
state differs from `before`, what the callback found: by the outcomes that its
calls have had so far, each an outcome `Assisant` gives it. So when a callback
ends, the conjunction of those outcomes is the action of `Assisant` from `before`
to now; when it dies, the same holds with the cache gone. The types of `mgr` between the
calls come from the lemmas on `MemberMgr`. Each step is shown to keep
`CInv` and to be a stutter or a step of `Assisant` (`Simulated`) in one lemma.
`friend_request_cb`, which changes nothing but the two files, has an invariant of
its own (`RequestInv`) and becomes `FriendRequest` at its `rename()`.

What it carries over is a property of `Seen`: cache, table and histories as they
are between callbacks. In the middle of `cmd_stop` the friend is out of the cache
and in the table, and nobody can tell.

### A database call taken apart: `DBConnProofs`

| Theorem | Property |
|---|---|
| `TypeCorrect` | `TypeOK` |
| `AtMostOneConnection` | `OneConnection` |
| `NoConnectionLost` | `ConnectionsReturned` |
| `StatementsDeletedOnce` | `DeletedOnce`, of `pstmt` and `res` only |
| `CallRefinesExecute` | `UpdateIsAtomic`, if `"kill"` is among the faults |
| `CallRefinesFindFriend` | `FindIsAtomic` |

`IInv` gives for each `pc` where the connection is (`ConnectionInv`: one
connection, in the pool or out of it, and the call in the try block has it), what
the two pointers are (`PointerInv`) and what the call has done (`UpdateInv`,
`FindInv`). `"kill"` has to be among the faults because a call taken apart can
always be killed after the server ran its statement, and `Execute` has that death
only as this fault.

### The savedata file: `SavedataProofs`

For any identities, friends, config files and `Faults`:

| Theorem | Property |
|---|---|
| `TypeCorrect` | `TypeOK` |
| `FileWhole` | `SavedFileWhole` |
| `CarriedOver` | `SavedataCarriedOver` |
| `IdentityKept` | `ServesAsBefore` |
| `Configured` | `ServesConfigured` |

Its only assumptions are that `NULL` is no snapshot, what `Faults` may hold, and
that a file's name is not empty and its content names settings only
(`ConfAssumption`).
None of the properties is inductive. `IInv` adds what connects them across the
steps of a save: the buffer is the tox in memory (`BufferIsTox`), the file about
to be renamed holds the buffer unless a write was short (`TmpIsBuffer`), and a tox
made with all settings read carries identity and friends of the savedata file that
is there, unless it was misread (`ToxCarriesFile`). The last is what a start with
empty settings would break, were it not for `ConfAtPc`: such a start makes up
a new tox, and never gets past `fopen`. It is also what a failing `fopen` or `fread`
in `create_tox` does break: the new or shortened tox is written over a good file,
and `~misread` in the two properties says that nothing else does this. `misread` is
of the present process: what a misread start wrote is the file that later ones must
carry over.

### The welcome text: `FriendTipsProofs`

| Theorem | Property | Hypothesis |
|---|---|---|
| `TypeCorrect` | `TypeOK` | – |
| `BuffersOwned` | `BufferOwnership` | – |
| `TriedInTime` | `TriedSoonEnough` | – |
| `GivesUpInTime` | `GivesUpLate` | `MaxIsBaseDoubled` |

For any friends, buffers, intervals with `RESEND_TIME_BASE <= RESEND_TIME_MAX`,
and any lateness of the loop. `IInv` bounds what is in a buffer by twice
`RESEND_TIME_MAX`, says that whoever is owed the text has a timer (`DebtsHaveTimers`,
which is why a last attempt looks for other timers of the friend before the debt
ends), and that the time since the friend was tried and the time left are together
no more than that (`WaitsWithinInterval`). That a timer and its buffer belong
together, `BufferOwnership`, is what lets the wait and the interval be compared at
all. What is proved is that a friend is *tried* in time: toxcore may refuse every
try, and after a death there is none.
`GivesUpLate` is about the sum of all intervals.
`MaxIsBaseDoubled` says that doubling meets `RESEND_TIME_MAX`, as 1 and 128 do:
otherwise the bot gives up after other numbers of seconds. That a number is the
base doubled some number of times is an inductive notion, so the hypothesis names the set of the intervals instead, from which
the largest is reached by doubling. `LateInv` then says that the intervals before
the present one have passed, which together are the interval less the base. Nothing
is asked of who is connected; only the timers that die with the process are left
out.

### The avatar: `AvatarProofs`

| Theorem | Property |
|---|---|
| `TypeCorrect` | `TypeOK` |
| `BufferHasSize` | `SizeIsOfBuffer` |
| `OneImagePerTransfer` | `SentAsOffered` |
| `EveryChunkInBuffer` | `NothingRefused` |

For any images, chunk size and number of transfers. An image in memory that has
bytes is never read again (`LoadLemma`), so the image of an open offer of some
bytes is still there (`Held`); an offer of no bytes has no chunks, which is the
case in which the image in memory may have become another.

### The parser: `CommandsProofs`

| Theorem | Property |
|---|---|
| `NoMessageThrows` | `NeverThrows` |
| `OnlyWhatIsMeantRuns` | `RunsOnlyWhatIsMeant` |
| `WhatIsTypedRuns` | `RunsWhatIsTyped` |

For any words and messages of any length below `SIZE_MAX`, which the length of a
`std::string` is. Nothing happens between messages, so the invariant is only that
the action is `Handle(msg)`. The work is in `Find` (the first position, by the
well-founded order of the naturals) and in the count of `substr`, which wraps
when the first space is before the slash: `WrapLemma` says where it lands, and it
is beyond the end of any message, so that `substr` takes the rest.

### Only model-checked

`WelcomeSettles` and `AcceptedIsSaved`: liveness under fairness is out of reach of
the prover. The three runs of the second table refute their property, so there is
nothing to prove.

## 5. What is not modelled

- `Lock.h`: `CMakeLists.txt` defines neither `__LINUX` nor `__MACX`, so every
  lock is empty, and there is one thread. Its reference counts are used by
  nothing.
- `Logger`, `Util`: output, and a one-to-one conversion of a friend number to a
  pk.
- `Conf`'s setters, which nothing calls.
- The JSON of bootstrap nodes and the nodes themselves: `bootstrap` changes no
  state of the bot; `Bootstrap` in `Savedata` is passed over or ends the process.
  Its `#else` branch is not compiled.
- Destructors, which run at `exit`; `lock_container`, which nothing uses; file
  receiving, which only logs.
- `get_name` and `get_status_message` failing, which would make `cmd_start` return
  with nothing done, had it not logged the null pointer first: toxcore knows every
  friend whose message it reports, so `GetName` and `GetStatusMessage` do not fail.
- Texts: replies are the name of their template. Wording and layout are left out.
- toxcore, MySQL, Connector/C++ and the file system, which are outside the
  repository, as far as the code does not use them. The operating system does not
  go down, so a rename is not undone. Config files that are complete name one
  savedata file and a temporary file of its own beside it.

## 6. Observations

Besides the three runs above, while the code was being modelled:

- A second `/start` deletes and inserts the row (`REPLACE`, `MemberModel.cpp:49`): it
  overwrites `create_time`, which `db_tok.sql:9` calls the "first start time", and
  resets the signature.
- `"/start "` has the parameter `" "`, which is not empty (`Assisant.cpp:227,300`): it
  registers a blank ToxID, where `config.ini:19` asks for one.
- The timer that resends the welcome text is in memory and the friend in the
  savedata file (`Assisant.cpp:80,94`): after a restart nothing resends it.
- When `getString` throws on the first column (`MemberModel.cpp:167`),
  `find_friend` returns a member with an empty pk, which is filed under the key
  `""` and can be recommended. No callback removes it.
- A member object is lost at every repeated `/start` and every change between TCP
  and UDP (`MemberMgr.cpp:33`).
- `friend_name_cb` and `friend_status_message_cb` ignore `length` and stop at the
  first NUL (`Assisant.cpp:190,205`); a text with a NUL in it is shorter in table
  and cache than in toxcore. The models take texts without one.
- The pool holds up to `MAX_POOL_SIZE + 1` objects, since the limit is compared
  before the push (`LockedQueue.h:63`).
- The table's names can stay behind or ahead of toxcore's after a death: the process
  died after the statement and before the file was renamed, or toxcore stored the
  name after the callback that saved, and gives the old one back. The next report of
  that friend repairs it. `RowsGoStaleByDeath` says that nothing more is lost; a
  `rename()` that fails for long may lose any number of names.
- `create_tox` takes every failure of `fopen` for a first start (`Bot.cpp:58`) and
  looks neither at what `fread` read (`:64`) nor at the error of `tox_new`. A savedata
  file that is there and cannot be read at that moment is replaced by a new identity,
  or what was read of it, by the `update_savedata_file` of `main.cpp:54`.
- The Statement that `_create_connection` makes for `SET names` (`DBConn.cpp:97`) is
  deleted by nothing: one is lost for every connection made.
- A `/start` that dies between the statement and `member_mgr` leaves the friend
  registered and unanswered; a `/stop` that dies after the cache leaves it listed
  again after the restart, and unanswered.
- `--help` is an option and is never looked at: `FindFriendBot --help` ends with an
  exception, because `--file` is required (`Conf.cpp:63,73`). A misspelt *option* is
  caught, and the exception comes from `parse_conf` instead, which reads a file with
  no name and misses every setting. Only a config file that is refused lets the start
  go on with no settings, until `fopen` fails.
- A short write is renamed over a good savedata file (`Assisant.cpp:150`).
- The condition at `Assisant.cpp:139`, `err != OK && ret`, is never true: a chunk
  that was not queued is neither logged nor sent again.
- `"hi /start"` is the command `start` with the parameter `" /start"`: the
  parameter begins at the first space, wherever the slash is.

## 7. Plan

Done: all components above, their runs, and the proofs of section 4. Left:

1. `Assisant`'s safety properties stated of the callbacks taken apart: that
   `AckedStopHonoured`, `AckedSignatureKept` and `PoolOwnership` hold of `Seen`
   follows from `CallbacksImplementAssisant` and `Invariance`; which of them hold
   between two calls of a callback as well is the stronger statement.
2. What `Directory` promises of the callbacks taken apart follows for `Seen` from
   `CallbacksImplementAssisant` and `KeepsThePromise`, deaths in callbacks included;
   as one theorem it needs the two mappings composed.
3. The proofs of `CallbacksProofs` and `DirectoryProofs` are the longest; lemmas
   they share could be fewer.
