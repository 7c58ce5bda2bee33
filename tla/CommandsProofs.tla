--------------------------- MODULE CommandsProofs ---------------------------
(***************************************************************************)
(* The message parser, for messages of any length below SIZE_MAX and any    *)
(* words: what the positions and the count of parse_msg come to, and which  *)
(* command a message runs.                                                  *)
(*                                                                         *)
(* The invariant is only that the action is what Handle makes of the        *)
(* message; what there is to prove is about Handle.                         *)
(***************************************************************************)
EXTENDS Commands, SequenceTheorems, WellFoundedInduction, TLAPS

USE CommandsAssumption

Messages == {s \in Seq(Tokens) : Len(s) <= MaxLength}

(* A set of positions has a least one. *)
LEMMA MinLemma ==
  ASSUME NEW I \in SUBSET Nat, I # {}
  PROVE  Min(I) \in I /\ \A j \in I : Min(I) <= j
<1>1. IsWellFoundedOn(OpToRel(<, Nat), Nat)
  BY NatLessThanWellFounded
<1>2. PICK x \in I : \A y \in I : ~(<<y, x>> \in OpToRel(<, Nat))
  BY <1>1, WFMin
<1>3. \A y \in I : ~(y < x)
  BY <1>2 DEF OpToRel
<1>4. \A y \in I : x <= y
  BY <1>3
<1> QED BY <1>4 DEF Min

(* Unsigned arithmetic on positions: a count that is negative wraps once.   *)
LEMMA WrapLemma ==
  /\ \A n \in 0 .. SIZE_MAX : Wrap(n) = n
  /\ \A n \in -SIZE_MAX .. -1 : Wrap(n) = n + SIZE_MAX + 1
BY DEF Wrap

-----------------------------------------------------------------------------
(* The positions of parse_msg.                                              *)
LEMMA FindLemma ==
  ASSUME NEW s \in Messages, NEW c
  PROVE  \/ Find(s, c) = npos /\ \A i \in 1 .. Len(s) : s[i] # c
         \/ /\ Find(s, c) \in 0 .. Len(s) - 1 /\ Find(s, c) # npos
            /\ s[Find(s, c) + 1] = c /\ \A j \in 1 .. Find(s, c) : s[j] # c
<1> DEFINE I == {i \in 1 .. Len(s) : s[i] = c}
<1>1. s \in Seq(Tokens) /\ Len(s) \in Nat /\ Len(s) < SIZE_MAX /\ DOMAIN s = 1 .. Len(s)
  BY DEF Messages
<1>2. c \in Range(s) <=> I # {}
  BY <1>1 DEF Range
<1>3. CASE I = {}
  BY <1>2, <1>3 DEF Find, npos
<1>4. CASE I # {}
  <2>1. I \in SUBSET Nat
    OBVIOUS
  <2>2. Min(I) \in I /\ \A j \in I : Min(I) <= j
    BY <1>4, <2>1, MinLemma
  <2>3. Find(s, c) = Min(I) - 1
    BY <1>2, <1>4 DEF Find, SelectInSeq
  <2>4. \A j \in 1 .. Len(s) : s[j] = c => Min(I) <= j
    BY <2>2
  <2>5. Min(I) \in 1 .. Len(s) /\ s[Min(I)] = c
    BY <2>2
  <2> HIDE DEF I
  <2> QED BY <1>1, <2>3, <2>4, <2>5 DEF npos
<1> QED BY <1>3, <1>4

LEMMA StartLemma ==
  ASSUME NEW s \in Messages, Start(s) # npos
  PROVE  /\ Start(s) \in 0 .. Len(s) - 1 /\ s[Start(s) + 1] = Slash
         /\ \A j \in 1 .. Start(s) : s[j] # Slash
BY FindLemma DEF Start

LEMMA EndLemma ==
  ASSUME NEW s \in Messages
  PROVE  /\ End(s) \in 0 .. Len(s)
         /\ \A j \in 1 .. End(s) : s[j] # Space
         /\ End(s) < Len(s) => s[End(s) + 1] = Space
<1>1. Len(s) \in Nat
  BY DEF Messages
<1> QED BY <1>1, FindLemma DEF End

(* The command ends before the first space, or where that precedes the      *)
(* slash at the end of the message.                                         *)
LEMMA CmdLemma ==
  ASSUME NEW s \in Messages, Start(s) # npos
  PROVE  Cmd(s) = SubSeq(s, Start(s) + 2, IF End(s) < Start(s) THEN Len(s) ELSE End(s))
<1> DEFINE n == End(s) - Start(s) - 1
<1>1. /\ Len(s) \in Nat /\ Len(s) < SIZE_MAX /\ SIZE_MAX \in Nat
      /\ Start(s) \in 0 .. Len(s) - 1 /\ End(s) \in 0 .. Len(s)
  BY StartLemma, EndLemma DEF Messages
<1>2. End(s) # Start(s)
  <2>1. s[Start(s) + 1] = Slash
    BY StartLemma
  <2>2. End(s) < Len(s) => s[End(s) + 1] = Space
    BY EndLemma
  <2>3. Slash # Space
    BY DEF Slash, Space
  <2> QED BY <1>1, <2>1, <2>2, <2>3
<1>3. CASE End(s) < Start(s)
  <2>1. Wrap(n) = n + SIZE_MAX + 1
    BY <1>1, <1>3, WrapLemma
  <2>2. Wrap(n) > Len(s) - (Start(s) + 1)
    BY <1>1, <2>1
  <2>3. Cmd(s) = Substr(s, Start(s) + 1, Wrap(n))
    BY DEF Cmd
  <2> HIDE DEF n
  <2> QED BY <1>1, <1>3, <2>2, <2>3 DEF Substr
<1>4. CASE Start(s) < End(s)
  <2>1. Wrap(n) = n
    BY <1>1, <1>4, WrapLemma
  <2>2. n \in Int /\ ~(n > Len(s) - (Start(s) + 1)) /\ Start(s) + 1 + n = End(s)
    BY <1>1
  <2>3. Cmd(s) = Substr(s, Start(s) + 1, Wrap(n))
    BY DEF Cmd
  <2> HIDE DEF n
  <2>4. Cmd(s) = SubSeq(s, Start(s) + 1 + 1, Start(s) + 1 + n)
    BY <2>1, <2>2, <2>3 DEF Substr
  <2>5. Start(s) + 1 + 1 = Start(s) + 2 /\ ~(End(s) < Start(s))
    BY <1>1, <1>4
  <2> QED BY <2>2, <2>4, <2>5
<1> QED BY <1>1, <1>2, <1>3, <1>4

(* The parameter is what follows, with its space.                           *)
LEMMA ParamLemma ==
  ASSUME NEW s \in Messages, Start(s) # npos
  PROVE  Param(s) = SubSeq(s, End(s) + 1, Len(s))
<1> DEFINE n == Len(s) - End(s)
<1>1. /\ Len(s) \in Nat /\ Len(s) < SIZE_MAX /\ SIZE_MAX \in Nat
      /\ End(s) \in 0 .. Len(s)
  BY EndLemma DEF Messages
<1>2. Wrap(n) = n
  BY <1>1, WrapLemma
<1>3. Param(s) = Substr(s, End(s), Wrap(n))
  BY DEF Param
<1> QED BY <1>1, <1>2, <1>3 DEF Substr

LEMMA NoThrow ==
  ASSUME NEW s \in Messages
  PROVE  ~ParseThrows(s)
<1>1. Len(s) \in Nat
  BY DEF Messages
<1> QED BY <1>1, StartLemma, EndLemma DEF ParseThrows, SubstrThrows

-----------------------------------------------------------------------------
(* A command word is one word that boost::to_lower takes to it.             *)
LEMMA CommandWordLemma ==
  ASSUME NEW cmd \in Seq(Tokens), NEW w \in CommandWords
  PROVE  IsCommandWord(cmd, w) <=> Len(cmd) = 1 /\ cmd[1] \in Words /\ Lower[cmd[1]] = w
<1> DEFINE low == ToLower(cmd)
<1>1. /\ DOMAIN cmd = 1 .. Len(cmd) /\ Len(cmd) \in Nat
      /\ DOMAIN low = 1 .. Len(cmd)
      /\ \A i \in 1 .. Len(cmd) :
           low[i] = IF cmd[i] \in Words THEN Lower[cmd[i]] ELSE cmd[i]
  BY DEF ToLower
<1>2. w \in Words /\ w # Slash /\ w # Space
  OBVIOUS
<1>3. ASSUME low = <<w>>
      PROVE  Len(cmd) = 1 /\ cmd[1] \in Words /\ Lower[cmd[1]] = w
  <2>1. DOMAIN low = 1 .. 1 /\ low[1] = w
    BY <1>3
  <2> HIDE DEF low
  <2>2. Len(cmd) = 1
    <3>1. 1 .. Len(cmd) = 1 .. 1
      BY <1>1, <2>1
    <3>2. 1 \in 1 .. Len(cmd) /\ ~(2 \in 1 .. Len(cmd))
      BY <3>1
    <3> QED BY <1>1, <3>2
  <2> QED BY <1>1, <1>2, <2>1, <2>2
<1>4. ASSUME Len(cmd) = 1, cmd[1] \in Words, Lower[cmd[1]] = w
      PROVE  low = <<w>>
  <2>1. low = [i \in 1 .. 1 |-> w]
    BY <1>1, <1>4 DEF ToLower
  <2> QED BY <2>1
<1> QED BY <1>3, <1>4 DEF IsCommandWord

(* process_cmd runs the command word there is, or none.                     *)
LEMMA ProcessLemma ==
  ASSUME NEW cmd \in Seq(Tokens), NEW param
  PROVE  /\ \A w \in CommandWords :
              IsCommandWord(cmd, w) =>
                Process(cmd, param) =
                  CASE w \in {"start", "set"} /\ param = << >> -> Act("usage", << >>)
                    [] w = "start" -> Act(w, ToUpper(param))
                    [] w = "set"   -> Act(w, param)
                    [] OTHER       -> Act(w, << >>)
         /\ (\A w \in CommandWords : ~IsCommandWord(cmd, w)) =>
              Process(cmd, param) = Act("unknown", << >>)
<1>1. \A v, w \in CommandWords : IsCommandWord(cmd, v) /\ IsCommandWord(cmd, w) => v = w
  BY CommandWordLemma
<1>2. ASSUME NEW w \in CommandWords, IsCommandWord(cmd, w)
      PROVE  (CHOOSE v \in CommandWords : IsCommandWord(cmd, v)) = w
  BY <1>1, <1>2
<1> QED BY <1>2 DEF Process

LEMMA ProcessName ==
  ASSUME NEW cmd \in Seq(Tokens), NEW param
  PROVE  /\ Process(cmd, param).name \in CommandWords \cup {"usage", "unknown"}
         /\ \A w \in CommandWords :
              Process(cmd, param).name = w => IsCommandWord(cmd, w)
<1>1. \A name, p : Act(name, p).name = name
  BY DEF Act
<1>2. {"usage", "unknown"} \cap CommandWords = {}
  BY DEF CommandWords
<1>3. CASE \E w \in CommandWords : IsCommandWord(cmd, w)
  <2>1. PICK w \in CommandWords : IsCommandWord(cmd, w)
    BY <1>3
  <2>2. Process(cmd, param).name \in {w, "usage"}
    BY <1>1, <2>1, ProcessLemma
  <2> QED BY <1>2, <2>1, <2>2
<1>4. CASE \A w \in CommandWords : ~IsCommandWord(cmd, w)
  BY <1>1, <1>2, <1>4, ProcessLemma
<1> QED BY <1>3, <1>4

-----------------------------------------------------------------------------
(* What a message runs.                                                     *)
LEMMA CmdInSeq ==
  ASSUME NEW s \in Messages
  PROVE  Cmd(s) \in Seq(Tokens)
<1>1. CASE Start(s) = npos
  BY <1>1 DEF Cmd
<1>2. CASE Start(s) # npos
  <2> DEFINE e == IF End(s) < Start(s) THEN Len(s) ELSE End(s)
  <2>1. /\ Start(s) + 2 \in Int /\ e \in Int /\ e <= Len(s) /\ Start(s) + 2 > 0
        /\ s \in Seq(Tokens) /\ Len(s) \in Nat
    BY <1>2, StartLemma, EndLemma DEF Messages
  <2> HIDE DEF e
  <2>2. \A i \in Start(s) + 2 .. e : s[i] \in Tokens
    BY <2>1
  <2>3. SubSeq(s, Start(s) + 2, e) \in Seq(Tokens)
    BY <2>1, <2>2, SubSeqProperties
  <2> QED BY <1>2, <2>3, CmdLemma DEF e
<1> QED BY <1>1, <1>2

(* A command that is one word stands right after the first slash, and a     *)
(* space or the end of the message after it.                                *)
LEMMA OneWordLemma ==
  ASSUME NEW s \in Messages, NEW w \in CommandWords, IsCommandWord(Cmd(s), w)
  PROVE  Meant(s, w)
<1>1. Len(Cmd(s)) = 1 /\ Cmd(s)[1] \in Words /\ Lower[Cmd(s)[1]] = w
  BY CmdInSeq, CommandWordLemma
<1>2. Start(s) # npos
  BY <1>1 DEF Cmd
<1> DEFINE a == Start(s)
           e == IF End(s) < Start(s) THEN Len(s) ELSE End(s)
<1>3. /\ Len(s) \in Nat /\ a \in 0 .. Len(s) - 1 /\ e \in 0 .. Len(s)
      /\ s \in Seq(Tokens)
      /\ s[a + 1] = Slash /\ \A j \in 1 .. a : s[j] # Slash
      /\ e < Len(s) => s[e + 1] = Space
  BY <1>2, StartLemma, EndLemma DEF Messages
<1>4. Cmd(s) = SubSeq(s, a + 2, e)
  BY <1>2, CmdLemma
<1> HIDE DEF a, e
<1>5. /\ Len(Cmd(s)) = IF a + 2 <= e THEN e - (a + 2) + 1 ELSE 0
      /\ \A i \in 1 .. e - (a + 2) + 1 : Cmd(s)[i] = s[a + 2 + i - 1]
  <2>1. \A i \in a + 2 .. e : s[i] \in Tokens
    BY <1>3
  <2>2. a + 2 \in Int /\ e \in Int
    BY <1>3
  <2> QED BY <1>4, <2>1, <2>2, SubSeqProperties
<1>6. e = a + 2
  <2>1. a + 2 \in Int /\ e \in Int
    BY <1>3
  <2>2. 1 = IF a + 2 <= e THEN e - (a + 2) + 1 ELSE 0
    BY <1>1, <1>5
  <2> QED BY <2>1, <2>2
<1>7. Cmd(s)[1] = s[a + 2]
  BY <1>3, <1>5, <1>6
<1>8. /\ a + 1 \in 1 .. Len(s) - 1
      /\ s[a + 1 + 1] = s[a + 2]
      /\ \A j \in 1 .. (a + 1) - 1 : s[j] # Slash
      /\ a + 1 + 1 = Len(s) \/ s[a + 1 + 2] = Space
  BY <1>3, <1>6
<1> QED BY <1>1, <1>3, <1>7, <1>8 DEF Meant

(* A message that begins with a slash and a command word is that command.   *)
LEMMA TypedCommandLemma ==
  ASSUME NEW s \in Messages, NEW w \in CommandWords,
         Len(s) > 1, s[1] = Slash, Meant(s, w)
  PROVE  /\ IsCommandWord(Cmd(s), w)
         /\ Param(s) = SubSeq(s, 3, Len(s))
         /\ Param(s) = << >> <=> Len(s) = 2
<1>1. /\ Len(s) \in Nat /\ s \in Seq(Tokens) /\ \A i \in 1 .. Len(s) : s[i] \in Tokens
  BY DEF Messages
<1>2. s[2] \in Words /\ Lower[s[2]] = w /\ (Len(s) = 2 \/ s[3] = Space)
  <2>1. PICK i \in 1 .. Len(s) - 1 :
          /\ s[i] = Slash /\ \A j \in 1 .. i - 1 : s[j] # Slash
          /\ s[i + 1] \in Words /\ Lower[s[i + 1]] = w
          /\ i + 1 = Len(s) \/ s[i + 2] = Space
    BY DEF Meant
  <2>2. i = 1
    BY <1>1, <2>1
  <2> QED BY <2>1, <2>2
<1>3. Start(s) = 0
  <2>1. Start(s) # npos
    BY <1>1, FindLemma DEF Start
  <2>2. /\ Start(s) \in 0 .. Len(s) - 1
        /\ \A j \in 1 .. Start(s) : s[j] # Slash
    BY <2>1, StartLemma
  <2> QED BY <1>1, <2>2
<1>4. End(s) = 2
  <2>1. s[1] # Space /\ s[2] # Space
    BY <1>2 DEF Slash, Space
  <2>2. /\ End(s) \in 0 .. Len(s)
        /\ \A j \in 1 .. End(s) : s[j] # Space
        /\ End(s) < Len(s) => s[End(s) + 1] = Space
    BY EndLemma
  <2>3. End(s) # 0 /\ End(s) # 1
    BY <1>1, <2>1, <2>2
  <2>4. ~(End(s) > 2)
    <3>1. End(s) > 2 => Len(s) # 2 /\ s[3] # Space
      BY <1>1, <2>2
    <3> QED BY <1>2, <3>1
  <2> QED BY <1>1, <2>2, <2>3, <2>4
<1>5. Start(s) # npos
  BY <1>3 DEF npos
<1>6. Cmd(s) = SubSeq(s, 2, 2)
  <2>1. Start(s) + 2 = 2 /\ ~(End(s) < Start(s))
    BY <1>3, <1>4
  <2> QED BY <1>4, <1>5, <2>1, CmdLemma
<1>7. Len(Cmd(s)) = 1 /\ Cmd(s)[1] = s[2]
  <2>1. \A i \in 2 .. 2 : s[i] \in Tokens
    BY <1>1
  <2>2. /\ Len(SubSeq(s, 2, 2)) = IF 2 <= 2 THEN 2 - 2 + 1 ELSE 0
        /\ \A i \in 1 .. 2 - 2 + 1 : SubSeq(s, 2, 2)[i] = s[2 + i - 1]
    BY <2>1, SubSeqProperties
  <2> QED BY <1>6, <2>2
<1>8. IsCommandWord(Cmd(s), w)
  BY <1>2, <1>7, CmdInSeq, CommandWordLemma
<1>9. Param(s) = SubSeq(s, 3, Len(s))
  <2>1. End(s) + 1 = 3
    BY <1>4
  <2> QED BY <1>5, <2>1, ParamLemma
<1>10. Param(s) = << >> <=> Len(s) = 2
  <2>1. Len(Param(s)) = IF 3 <= Len(s) THEN Len(s) - 3 + 1 ELSE 0
    <3>1. \A i \in 3 .. Len(s) : s[i] \in Tokens
      BY <1>1
    <3>2. Len(s) \in Int
      BY <1>1
    <3> QED BY <1>9, <3>1, <3>2, SubSeqProperties
  <2>2. Len(s) = 2 => Param(s) = << >>
    BY <1>9, SubSeqEmpty
  <2>3. Param(s) = << >> => Len(Param(s)) = 0
    <3>1. Len(<< >>) = 0
      OBVIOUS
    <3> QED BY <3>1, Zenon
  <2>4. ASSUME Len(Param(s)) = 0 PROVE Len(s) = 2
    <3> DEFINE n == Len(s)
    <3>1. n \in Nat /\ n > 1 /\ 0 = IF 3 <= n THEN n - 3 + 1 ELSE 0
      BY <1>1, <2>1, <2>4
    <3> HIDE DEF n
    <3>2. n = 2
      BY <3>1
    <3> QED BY <3>2 DEF n
  <2> QED BY <2>2, <2>3, <2>4
<1> QED BY <1>8, <1>9, <1>10

-----------------------------------------------------------------------------
(* The message is one, and the action what friend_message_cb makes of it.   *)
IInv == msg \in Messages /\ (action = Nothing \/ action = Handle(msg))

LEMMA HandleLemma ==
  ASSUME NEW s \in Messages
  PROVE  Handle(s) = Process(Cmd(s), Param(s))
BY NoThrow DEF Handle

LEMMA NothingLemma == Nothing.name = "nothing"
BY DEF Nothing, Act

(* The bot does with a message what Handle makes of it, whatever its length. *)
THEOREM Invariance == Spec => []IInv
<1>1. Init => IInv
  BY DEF Init, IInv, Messages
<1>2. IInv /\ [Next]_vars => IInv'
  <2> SUFFICES ASSUME IInv, [Next]_vars PROVE IInv'
    OBVIOUS
  <2>1. CASE FriendMessage
    BY <2>1 DEF IInv, FriendMessage
  <2>2. CASE NextMessage
    BY <2>2 DEF IInv, NextMessage, Messages
  <2>3. ASSUME NEW t \in Tokens, Write(t) PROVE IInv'
    <3>1. Append(msg, t) \in Seq(Tokens) /\ Len(Append(msg, t)) = Len(msg) + 1
      BY DEF IInv, Messages
    <3> QED BY <2>3, <3>1 DEF IInv, Write, Messages
  <2>4. CASE UNCHANGED vars
    BY <2>4 DEF IInv, vars
  <2> QED BY <2>1, <2>2, <2>3, <2>4 DEF Next
<1> QED BY <1>1, <1>2, PTL DEF Spec

(* No message of any length ends the bot: substr is never called past the   *)
(* end, and a command is one of process_cmd's or unknown.                   *)
THEOREM NoMessageThrows == Spec => []NeverThrows
<1>1. IInv => NeverThrows
  <2> SUFFICES ASSUME IInv PROVE NeverThrows
    OBVIOUS
  <2>1. CASE action = Nothing
    BY <2>1, NothingLemma DEF NeverThrows
  <2>2. CASE action = Handle(msg)
    <3>1. action.name \in CommandWords \cup {"usage", "unknown"}
      BY <2>2, HandleLemma, CmdInSeq, ProcessName DEF IInv
    <3> QED BY <3>1 DEF NeverThrows, CommandWords
  <2> QED BY <2>1, <2>2 DEF IInv
<1> QED BY <1>1, Invariance, PTL

(* A command runs only if its word follows the first slash of the message   *)
(* and is followed by a space or the end, the wrapped count included.       *)
THEOREM OnlyWhatIsMeantRuns == Spec => []RunsOnlyWhatIsMeant
<1>1. IInv => RunsOnlyWhatIsMeant
  <2> SUFFICES ASSUME IInv, action.name \in CommandWords
               PROVE  Meant(msg, action.name)
    BY DEF RunsOnlyWhatIsMeant
  <2>1. action = Process(Cmd(msg), Param(msg))
    BY NothingLemma, HandleLemma DEF IInv, CommandWords
  <2>2. IsCommandWord(Cmd(msg), action.name)
    BY <2>1, CmdInSeq, ProcessName DEF IInv
  <2> QED BY <2>2, OneWordLemma DEF IInv
<1> QED BY <1>1, Invariance, PTL

(* A message that begins with a command runs it, with what follows the word *)
(* as its parameter, or is told how to use it.                              *)
THEOREM WhatIsTypedRuns == Spec => []RunsWhatIsTyped
<1>1. IInv => RunsWhatIsTyped
  <2> SUFFICES ASSUME IInv, NEW w \in CommandWords, action # Nothing,
                      Len(msg) > 1, msg[1] = Slash, Meant(msg, w)
               PROVE  \/ action.name = w
                         /\ action.param =
                              CASE w = "start" -> ToUpper(SubSeq(msg, 3, Len(msg)))
                                [] w = "set"   -> SubSeq(msg, 3, Len(msg))
                                [] OTHER       -> << >>
                      \/ action.name = "usage" /\ w \in {"start", "set"} /\ Len(msg) = 2
    BY Zenon DEF RunsWhatIsTyped
  <2>1. action = Process(Cmd(msg), Param(msg))
    BY HandleLemma DEF IInv
  <2>2. /\ IsCommandWord(Cmd(msg), w)
        /\ Param(msg) = SubSeq(msg, 3, Len(msg))
        /\ Param(msg) = << >> <=> Len(msg) = 2
    BY TypedCommandLemma DEF IInv
  <2> DEFINE param == Param(msg)
  <2>3. action = CASE w \in {"start", "set"} /\ param = << >> -> Act("usage", << >>)
                   [] w = "start" -> Act(w, ToUpper(param))
                   [] w = "set"   -> Act(w, param)
                   [] OTHER       -> Act(w, << >>)
    BY <2>1, <2>2, CmdInSeq, ProcessLemma DEF IInv
  <2>4. \A name, p : Act(name, p).name = name /\ Act(name, p).param = p
    BY DEF Act
  <2> HIDE DEF param
  <2>5. CASE w \in {"start", "set"} /\ param = << >>
    BY <2>2, <2>3, <2>4, <2>5 DEF param
  <2>6. CASE ~(w \in {"start", "set"} /\ param = << >>)
    <3>1. CASE w = "start"
      BY <2>2, <2>3, <2>4, <2>6, <3>1 DEF param
    <3>2. CASE w = "set"
      BY <2>2, <2>3, <2>4, <2>6, <3>2 DEF param
    <3>3. CASE w \notin {"start", "set"}
      BY <2>3, <2>4, <3>3
    <3> QED BY <3>1, <3>2, <3>3
  <2> QED BY <2>5, <2>6
<1> QED BY <1>1, Invariance, PTL
=============================================================================
