------------------------------ MODULE Savedata ------------------------------
(***************************************************************************)
(* The life of the process and of its savedata file: main() from the        *)
(* options to the loop (main.cpp, Conf.cpp), Bot::create_tox and bootstrap  *)
(* (Bot.cpp), and update_savedata_file (Assisant.cpp) step by step, with    *)
(* the process killed between any two steps.                                *)
(*                                                                         *)
(* Of what toxcore keeps in the savedata only the identity of the bot and   *)
(* the friends it accepted are told apart. A file is absent, whole (it      *)
(* holds one snapshot) or torn (it holds a part of one, or nothing of it).  *)
(* The operating system does not go down. Config files that are complete    *)
(* name one savedata file and a temporary file of its own beside it.        *)
(***************************************************************************)
EXTENDS Conf

CONSTANTS
  Ids,       \* identities tox_new can make up; bounds the new ones
  Friends,   \* who may ask to be accepted
  NULL,
  Faults     \* of fopen, fread, fwrite/fclose and rename, which may fail

(* What toxcore's savedata says, as far as it is told apart. *)
Snapshots == [id : Ids, friends : SUBSET Friends]

ASSUME SavedataAssumption ==
  /\ NULL \notin Snapshots
  /\ Faults \subseteq {"fopen", "fread", "fwrite", "rename"}

VARIABLES
  pc,      \* the call main() or a callback is in
  conf,    \* the global conf, a Conf
  file,    \* save_data_file
  tmp,     \* save_data_tmp_file
  tox,     \* the state toxcore holds in memory
  buf,     \* savedata, the buffer of update_savedata_file
  used,    \* history: the identities made up so far
  misread, \* history: did create_tox fail to read a savedata file that is there?
  failed   \* history: which of fwrite and rename has failed in the last save

vars == <<pc, conf, file, tmp, tox, buf, used, misread, failed>>
disk == <<file, tmp>>
history == <<used, misread, failed>>

Absent == [kind |-> "absent", data |-> NULL]
Torn(snapshot)  == [kind |-> "torn", data |-> snapshot]
Whole(snapshot) == [kind |-> "whole", data |-> snapshot]

Init ==
  /\ pc = "down" /\ conf = NoConf
  /\ file = Absent /\ tmp = Absent
  /\ tox = NULL /\ buf = NULL
  /\ used = {} /\ misread = FALSE /\ failed = {}

-----------------------------------------------------------------------------
Die == pc' = "down" /\ conf' = NoConf /\ tox' = NULL /\ buf' = NULL

Kill == pc # "down" /\ Die /\ UNCHANGED <<disk, history>>

Run == /\ pc = "down" /\ pc' = "parse_option"
       /\ UNCHANGED <<conf, disk, tox, buf, history>>

(* main() ignores what parse_option and parse_conf return: it ends early    *)
(* only when they throw.                                                    *)
ParseOption ==
  /\ pc = "parse_option"
  /\ \E line \in CommandLines :
       \/ OptionThrows(line) /\ Die
       \/ /\ ~OptionThrows(line)
          /\ conf' = WithOptions(conf, line)
          /\ pc' = "parse_conf"
          /\ UNCHANGED <<tox, buf>>
  /\ UNCHANGED <<disk, history>>

ParseConf ==
  /\ pc = "parse_conf"
  /\ \/ ConfThrows(conf.conf_file_name) /\ Die
     \/ /\ ~ConfThrows(conf.conf_file_name)
        /\ conf' = WithSettings(conf, conf.conf_file_name)
        /\ pc' = "create_tox"
        /\ UNCHANGED <<tox, buf>>
  /\ UNCHANGED <<disk, history>>

-----------------------------------------------------------------------------
(* tox_new, which makes up an identity. *)
NewTox == \E i \in Ids \ used :
  tox' = [id |-> i, friends |-> {}] /\ used' = used \cup {i}

(* Mutant: the savedata read is not handed to tox_new. *)
CreateToxAnew ==
  /\ pc = "create_tox"
  /\ NewTox
  /\ misread' = FALSE
  /\ pc' = "bootstrap"
  /\ UNCHANGED <<conf, disk, buf, failed>>

(* Is there a savedata file that fopen could open? *)
Exists == Get(conf, "save_data_file") # Empty /\ file # Absent

(* The else branch, which does not ask why fopen failed: the file is not    *)
(* there, or it is and cannot be opened.                                    *)
NoSavedata ==
  /\ \/ ~Exists /\ misread' = FALSE
     \/ Exists /\ "fopen" \in Faults /\ misread' = TRUE
  /\ NewTox
  /\ pc' = "bootstrap" /\ UNCHANGED <<conf, buf>>

(* Mutant: the keys are restored, and not the friends. *)
LoadKeysOnly ==
  /\ Exists /\ file.kind = "whole"
  /\ tox' = [file.data EXCEPT !.friends = {}] /\ misread' = FALSE
  /\ pc' = "bootstrap" /\ UNCHANGED <<conf, buf, used>>

LoadWhole ==
  /\ Exists /\ file.kind = "whole"
  /\ tox' = file.data /\ misread' = FALSE
  /\ pc' = "bootstrap" /\ UNCHANGED <<conf, buf, used>>

(* The file is torn, or fread does not get all of it. What tox_new makes of *)
(* that: what it could read of it, a tox of its own, or none, which the     *)
(* calls that follow dereference.                                           *)
LoadPart ==
  /\ Exists /\ (file.kind = "torn" \/ "fread" \in Faults)
  /\ misread' = TRUE
  /\ \/ /\ \/ NewTox
           \/ \E fs \in SUBSET file.data.friends :
                tox' = [id |-> file.data.id, friends |-> fs] /\ UNCHANGED used
        /\ pc' = "bootstrap" /\ UNCHANGED <<conf, buf>>
     \/ Die /\ UNCHANGED used

(* create_tox. Neither why fopen failed, nor what fread read, nor the error *)
(* of tox_new is looked at.                                                 *)
CreateTox ==
  /\ pc = "create_tox"
  /\ NoSavedata \/ LoadWhole \/ LoadPart
  /\ UNCHANGED <<disk, failed>>

(* bootstrap and the rest of main() before its update_savedata_file. A      *)
(* nodes file that is missing is passed over, and so is a node that cannot  *)
(* be reached; a file that is not the JSON expected is undefined behaviour, *)
(* which the process may not survive.                                       *)
Bootstrap ==
  /\ pc = "bootstrap"
  /\ \/ pc' = "fopen" /\ buf' = tox /\ failed' = {} /\ UNCHANGED <<conf, tox>>
     \/ Get(conf, "nodes_file_name") # Empty /\ Die /\ UNCHANGED failed
  /\ UNCHANGED <<disk, used, misread>>

-----------------------------------------------------------------------------
CanOpen == Get(conf, "save_data_tmp_file") # Empty

(* Mutant: the savedata file itself is opened for writing. *)
FopenInPlace ==
  /\ pc = "fopen" /\ CanOpen
  /\ file' = Torn(buf) /\ pc' = "fwrite"
  /\ UNCHANGED <<tmp, conf, tox, buf, history>>

(* update_savedata_file: fopen truncates the temporary file. Its result is  *)
(* not checked: fwrite dereferences a null FILE*.                           *)
Fopen ==
  /\ pc = "fopen"
  /\ \/ CanOpen /\ tmp' = Torn(buf) /\ pc' = "fwrite" /\ UNCHANGED <<conf, tox, buf>>
     \/ (~CanOpen \/ "fopen" \in Faults) /\ Die /\ UNCHANGED tmp
  /\ UNCHANGED <<file, history>>

(* fwrite and fclose, whose results are not checked either. *)
Fwrite ==
  /\ pc = "fwrite"
  /\ \/ tmp' = Whole(buf) /\ UNCHANGED failed
     \/ /\ "fwrite" \in Faults
        /\ tmp' = Torn(buf) /\ failed' = failed \cup {"fwrite"}
  /\ pc' = "rename"
  /\ UNCHANGED <<conf, file, tox, buf, used, misread>>

(* Mutant: the buffer is not freed. *)
RenameNoFree ==
  /\ pc = "rename"
  /\ file' = tmp /\ tmp' = Absent
  /\ pc' = "loop"
  /\ UNCHANGED <<conf, tox, buf, history>>

(* rename, whose result is not checked, and free. *)
Rename ==
  /\ pc = "rename"
  /\ \/ file' = tmp /\ tmp' = Absent /\ UNCHANGED failed
     \/ /\ "rename" \in Faults
        /\ failed' = failed \cup {"rename"} /\ UNCHANGED <<file, tmp>>
  /\ buf' = NULL
  /\ pc' = "loop"
  /\ UNCHANGED <<conf, tox, used, misread>>

(* Mutant: the friend is added and the savedata file is not updated. *)
AcceptUnsaved(f) ==
  /\ pc = "loop"
  /\ tox' \in {tox, [tox EXCEPT !.friends = @ \cup {f}]}
  /\ UNCHANGED <<pc, conf, disk, buf, history>>

(* friend_request_cb: tox_friend_add_norequest, which may fail, and         *)
(* update_savedata_file in either case.                                     *)
Accept(f) ==
  /\ pc = "loop"
  /\ tox' \in {tox, [tox EXCEPT !.friends = @ \cup {f}]}
  /\ buf' = tox' /\ failed' = {}
  /\ pc' = "fopen"
  /\ UNCHANGED <<conf, disk, used, misread>>

(* A step of the process, other than one that waits for the network. *)
Step == ParseOption \/ ParseConf \/ CreateTox \/ Bootstrap \/ Fopen \/ Fwrite \/ Rename

Next == Kill \/ Run \/ Step \/ \E f \in Friends : Accept(f)

Spec == Init /\ [][Next]_vars

(* The process runs unless it is killed. *)
FairSpec == Spec /\ WF_vars(Step)

-----------------------------------------------------------------------------
TypeOK ==
  /\ pc \in {"down", "parse_option", "parse_conf", "create_tox", "bootstrap",
             "fopen", "fwrite", "rename", "loop"}
  /\ conf \in Confs
  /\ {file, tmp} \subseteq {Absent} \cup {Torn(s) : s \in Snapshots}
                                      \cup {Whole(s) : s \in Snapshots}
  /\ {tox, buf} \subseteq Snapshots \cup {NULL}
  /\ used \subseteq Ids /\ misread \in BOOLEAN /\ failed \subseteq {"fwrite", "rename"}
  /\ buf # NULL <=> pc \in {"fopen", "fwrite", "rename"}
  /\ tox # NULL <=> pc \in {"bootstrap", "fopen", "fwrite", "rename", "loop"}

(* Wherever the process is killed, and whichever calls fail, the savedata   *)
(* file is only ever replaced by a whole one: update_savedata_file goes     *)
(* through a temporary file. What it does not notice is that the write of   *)
(* this save was short.                                                     *)
SavedFileWhole ==
  [][file' # file => file'.kind = "whole" \/ "fwrite" \in failed]_vars

(* The identity is the same and no friend is missing. *)
Carries(new, old) == new.id = old.id /\ old.friends \subseteq new.friends

(* A bot that serves has the identity and every friend of the savedata file *)
(* that is there, over any number of kills, restarts and starts with a      *)
(* wrong configuration, unless create_tox could not read that file: nobody  *)
(* who added the bot has to add it again.                                   *)
ServesAsBefore ==
  pc = "loop" /\ file # Absent /\ ~misread => Carries(tox, file.data)

(* The savedata file is only ever replaced by one with the same identity    *)
(* and no friend less, but for one thing: that of a process that could not  *)
(* read it is written over it, as main() saves at once what create_tox      *)
(* made.                                                                    *)
SavedataCarriedOver ==
  [][file' # file /\ file # Absent /\ ~misread => Carries(file'.data, file.data)]_vars

(* The loop is reached only with every setting as in the file that the      *)
(* command line names. Neither result in main() is looked at; what stops a  *)
(* bot whose settings are all empty is only that it cannot open its         *)
(* temporary file.                                                          *)
ServesConfigured ==
  pc = "loop" =>
    /\ conf.conf_file_name \in Files
    /\ \A s \in Settings : Get(conf, s) = conf.conf_file_name

(* A friend accepted gets into the savedata file, or the process dies, or   *)
(* the write or the rename of a save fails.                                 *)
AcceptedIsSaved ==
  \A f \in Friends :
    (pc = "loop" \/ pc = "fopen") /\ f \in tox.friends
      ~> \/ file.kind = "whole" /\ f \in file.data.friends
         \/ pc = "down"
         \/ failed # {}
=============================================================================
