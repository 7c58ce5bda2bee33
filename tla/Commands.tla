------------------------------ MODULE Commands ------------------------------
(***************************************************************************)
(* How a message becomes a command: parse_msg and process_cmd               *)
(* (Assisant.cpp), with the arithmetic of std::string's positions.          *)
(*                                                                         *)
(* A message is a sequence of tokens: the two characters the parser looks   *)
(* for, and words. A word stands for its characters, of which the parser    *)
(* sees none; Lower and Upper give the word boost::to_lower and to_upper    *)
(* make of it. What the commands do is in Assisant; here they are named.    *)
(***************************************************************************)
EXTENDS Integers, Sequences, SequencesExt

CONSTANTS
  Words,       \* the words friends write
  Lower, Upper,  \* functions on Words
  MaxLength,   \* bounds the length of a message
  SIZE_MAX     \* the largest size_t, 2^64 - 1 in the code

Slash == "/"
Space == " "

(* What process_cmd compares the command with. *)
CommandWords == {"start", "stop", "set", "get", "info", "help", "readme"}

ASSUME CommandsAssumption ==
  /\ {Slash, Space} \cap Words = {}
  /\ CommandWords \subseteq Words
  /\ Lower \in [Words -> Words] /\ Upper \in [Words -> Words]
  /\ MaxLength \in Nat /\ SIZE_MAX \in Nat /\ MaxLength < SIZE_MAX

VARIABLES
  msg,     \* the message friend_message_cb is called with
  action   \* what the bot does with it, and the parameter it does it with

vars == <<msg, action>>

Tokens == Words \cup {Slash, Space}

-----------------------------------------------------------------------------
npos == SIZE_MAX

(* Unsigned arithmetic. *)
Wrap(n) == n % (SIZE_MAX + 1)

(* std::string::find, of one character; positions start at 0. *)
Find(s, c) ==
  IF c \in Range(s) THEN SelectInSeq(s, LAMBDA t : t = c) - 1 ELSE npos

(* std::string::substr throws std::out_of_range past the end, and ends at   *)
(* the end whatever the count.                                              *)
SubstrThrows(s, pos) == pos > Len(s)
Substr(s, pos, n) ==
  SubSeq(s, pos + 1, IF n > Len(s) - pos THEN Len(s) ELSE pos + n)

(* parse_msg's two local variables. *)
Start(s) == Find(s, Slash)

(* Mutant: a message without a space is not thought of. *)
EndUnchecked(s) == Find(s, Space)

End(s) == IF Find(s, Space) = npos THEN Len(s) ELSE Find(s, Space)

(* Mutant: the slash is counted in. *)
CmdTooLong(s) == Substr(s, Start(s) + 1, Wrap(End(s) - Start(s)))

(* The count wraps when the first space precedes the slash: the command is  *)
(* then all that follows the slash.                                         *)
Cmd(s) ==
  IF Start(s) = npos THEN << >>
                     ELSE Substr(s, Start(s) + 1, Wrap(End(s) - Start(s) - 1))

Param(s) ==
  IF Start(s) = npos THEN << >> ELSE Substr(s, End(s), Wrap(Len(s) - End(s)))

ParseThrows(s) ==
  Start(s) # npos /\ (SubstrThrows(s, Start(s) + 1) \/ SubstrThrows(s, End(s)))

-----------------------------------------------------------------------------
ToLower(s) == [i \in DOMAIN s |-> IF s[i] \in Words THEN Lower[s[i]] ELSE s[i]]
ToUpper(s) == [i \in DOMAIN s |-> IF s[i] \in Words THEN Upper[s[i]] ELSE s[i]]

Act(name, param) == [name |-> name, param |-> param]

(* Mutant: the command is recognised by how it begins. *)
CommandWordByPrefix(cmd, w) == cmd # << >> /\ ToLower(cmd)[1] = w

IsCommandWord(cmd, w) == ToLower(cmd) = <<w>>

(* process_cmd and the checks for a parameter in cmd_start and cmd_set. *)
Process(cmd, param) ==
  IF \E w \in CommandWords : IsCommandWord(cmd, w)
    THEN LET w == CHOOSE w \in CommandWords : IsCommandWord(cmd, w) IN
         CASE w \in {"start", "set"} /\ param = << >> -> Act("usage", << >>)
           [] w = "start" -> Act(w, ToUpper(param))
           [] w = "set"   -> Act(w, param)
           [] OTHER       -> Act(w, << >>)
    ELSE Act("unknown", << >>)

(* friend_message_cb *)
Handle(s) ==
  IF ParseThrows(s) THEN Act("abort", << >>) ELSE Process(Cmd(s), Param(s))

Nothing == Act("nothing", << >>)

Init == msg = << >> /\ action = Nothing

(* The friend writes a message, token by token, and sends it; then another. *)
Write(t) ==
  /\ action = Nothing /\ Len(msg) < MaxLength
  /\ msg' = Append(msg, t) /\ UNCHANGED action

FriendMessage ==
  /\ action = Nothing
  /\ action' = Handle(msg) /\ UNCHANGED msg

NextMessage == action # Nothing /\ msg' = << >> /\ action' = Nothing

Next == FriendMessage \/ NextMessage \/ \E t \in Tokens : Write(t)

Spec == Init /\ [][Next]_vars

-----------------------------------------------------------------------------
(* No message ends the bot: std::out_of_range, which nothing catches, is    *)
(* never thrown, whatever the positions of slash and space and though the   *)
(* count between them may wrap.                                             *)
NeverThrows == action.name # "abort"

(* The reference: what a message is meant to say. A command is the word     *)
(* right after the first slash, and the word is followed by a space or the  *)
(* end; the text after it, with its space, is the parameter.                *)
Meant(s, w) ==
  \E i \in 1 .. Len(s) - 1 :
    /\ s[i] = Slash /\ \A j \in 1 .. i - 1 : s[j] # Slash
    /\ s[i + 1] \in Words /\ Lower[s[i + 1]] = w
    /\ i + 1 = Len(s) \/ s[i + 2] = Space

(* A command is run only if the message says so: a stray slash in a text, a *)
(* longer word or a second slash runs nothing, nor does the wrapped count.  *)
RunsOnlyWhatIsMeant ==
  action.name \in CommandWords => Meant(msg, action.name)

(* A message that begins with a command runs it, with all that follows the  *)
(* word as its parameter.                                                   *)
RunsWhatIsTyped ==
  \A w \in CommandWords :
    action # Nothing /\ Len(msg) > 1 /\ msg[1] = Slash /\ Meant(msg, w) =>
      \/ action.name = w
         /\ action.param = CASE w = "start" -> ToUpper(SubSeq(msg, 3, Len(msg)))
                             [] w = "set"   -> SubSeq(msg, 3, Len(msg))
                             [] OTHER       -> << >>
      \/ action.name = "usage" /\ w \in {"start", "set"} /\ Len(msg) = 2
=============================================================================
