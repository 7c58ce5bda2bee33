--------------------------- MODULE SavedataProofs ---------------------------
(***************************************************************************)
(* The safety properties of Savedata, proved for any identities, friends    *)
(* and Faults.                                                              *)
(*                                                                         *)
(* What has to be known besides the properties: the settings are all there  *)
(* before anything is written, the buffer being written is the tox in       *)
(* memory, the file about to be renamed holds that buffer or a part of it,  *)
(* and a tox made with the settings carries on the savedata file that is    *)
(* there, if that could be read.                                            *)
(***************************************************************************)
EXTENDS Savedata, TLAPS

SavedFiles ==
  {Absent} \cup {Torn(s) : s \in Snapshots} \cup {Whole(s) : s \in Snapshots}

(* Every setting is as in the file named; or none is. *)
AllRead == /\ conf.conf_file_name \in Files
           /\ conf.value = [s \in Settings |-> conf.conf_file_name]
NoneRead == conf.value = [s \in Settings |-> Empty]

(* The settings are read before the tox is made, and a file can be written  *)
(* only with all of them.                                                   *)
ConfAtPc ==
  /\ pc \in {"down", "parse_option", "parse_conf"} => NoneRead
  /\ pc \in {"create_tox", "bootstrap", "fopen"} => AllRead \/ NoneRead
  /\ pc \in {"fwrite", "rename", "loop"} => AllRead

(* update_savedata_file writes the tox in memory. *)
BufferIsTox == buf # NULL => buf = tox

(* The file renamed into place holds the buffer, or a part of it.           *)
TmpIsBuffer ==
  pc = "rename" => \/ tmp = Whole(buf)
                   \/ tmp = Torn(buf) /\ "fwrite" \in failed

(* A tox made with all settings read carries on the savedata it was made of. *)
ToxCarriesFile ==
  tox # NULL /\ AllRead /\ file # Absent /\ ~misread => Carries(tox, file.data)

IInv ==
  TypeOK /\ ConfAtPc /\ BufferIsTox /\ TmpIsBuffer /\ ToxCarriesFile

USE SavedataAssumption, ConfAssumption

-----------------------------------------------------------------------------
(* No conf has both a setting that was read and one that was not. *)
LEMMA ConfLemma ==
  /\ NoConf \in Confs
  /\ AllRead => ~NoneRead /\ \A s \in Settings : Get(conf, s) # Empty
  /\ NoneRead => \A s \in Settings : Get(conf, s) = Empty
  /\ {"save_data_file", "save_data_tmp_file", "nodes_file_name"} \subseteq Settings
<1>1. {"save_data_file", "save_data_tmp_file", "nodes_file_name"} \subseteq Settings
  BY Zenon DEF Settings
<1>2. NoConf \in Confs
  BY DEF NoConf, Confs
<1>3. AllRead => /\ \A s \in Settings : Get(conf, s) # Empty
                 /\ conf.value["save_data_file"] # Empty
  BY <1>1 DEF AllRead, Get
<1>4. NoneRead => /\ \A s \in Settings : Get(conf, s) = Empty
                  /\ conf.value["save_data_file"] = Empty
  BY <1>1 DEF NoneRead, Get
<1> QED BY <1>1, <1>2, <1>3, <1>4

(* parse_conf stores every setting of the file named, or none. *)
LEMMA WithSettingsLemma ==
  ASSUME conf \in Confs, NoneRead, ~ConfThrows(conf.conf_file_name),
         conf' = WithSettings(conf, conf.conf_file_name)
  PROVE  conf' \in Confs /\ (AllRead' \/ NoneRead')
<1> DEFINE name == conf.conf_file_name
           content == Read(name)
<1>1. CASE content.refused
  BY <1>1 DEF WithSettings, NoneRead
<1>2. CASE ~content.refused
  <2>1. content.given = Settings
    BY <1>2 DEF ConfThrows
  <2>2. name \in Files
    BY <2>1, ConfLemma DEF Read
  <2>3. conf' = [conf EXCEPT !.value = [s \in Settings |-> name]]
    BY <1>2, <2>1 DEF WithSettings
  <2> QED BY <2>2, <2>3 DEF AllRead, Confs
<1> QED BY <1>1, <1>2

LEMMA InitLemma == Init => IInv
<1>1. Init => misread \in BOOLEAN /\ failed \subseteq {"fwrite", "rename"}
  BY Zenon DEF Init
<1>2. Init => TypeOK
  BY <1>1, ConfLemma DEF Init, TypeOK
<1>3. Init => ConfAtPc /\ BufferIsTox /\ TmpIsBuffer
  BY DEF Init, ConfAtPc, NoneRead, NoConf, BufferIsTox, TmpIsBuffer
<1>4. Init => ToxCarriesFile
  BY DEF Init, ToxCarriesFile
<1> QED BY <1>2, <1>3, <1>4 DEF IInv

(* A death forgets conf, tox and buf, and every part is about them or about *)
(* what it leaves alone.                                                    *)
LEMMA DieLemma ==
  ASSUME IInv, Die, UNCHANGED <<file, tmp, used, failed>>, misread' \in BOOLEAN
  PROVE  IInv'
BY ConfLemma
   DEF IInv, TypeOK, ConfAtPc, NoneRead, NoConf, BufferIsTox, TmpIsBuffer,
       ToxCarriesFile, Die

LEMMA KillLemma ==
  ASSUME IInv, Kill
  PROVE  IInv'
BY DieLemma DEF Kill, disk, history, IInv, TypeOK

LEMMA RunLemma ==
  ASSUME IInv, Run
  PROVE  IInv'
BY DEF IInv, TypeOK, ConfAtPc, NoneRead, AllRead, BufferIsTox, TmpIsBuffer,
       ToxCarriesFile, Run, disk, history

LEMMA ParseOptionLemma ==
  ASSUME IInv, ParseOption
  PROVE  IInv'
<1>1. PICK line \in CommandLines :
        \/ OptionThrows(line) /\ Die
        \/ /\ ~OptionThrows(line)
           /\ conf' = WithOptions(conf, line)
           /\ pc' = "parse_conf"
           /\ UNCHANGED <<tox, buf>>
  BY DEF ParseOption
<1>2. pc = "parse_option" /\ UNCHANGED <<file, tmp, used, misread, failed>>
  BY DEF ParseOption, disk, history
<1>3. CASE Die
  BY <1>2, <1>3, DieLemma DEF IInv, TypeOK
<1>4. CASE conf' = WithOptions(conf, line) /\ pc' = "parse_conf" /\ UNCHANGED <<tox, buf>>
  <2>1. conf \in Confs /\ NoneRead /\ tox = NULL /\ buf = NULL
    BY <1>2 DEF IInv, TypeOK, ConfAtPc
  <2>2. conf' \in Confs /\ NoneRead'
    BY <1>4, <2>1 DEF WithOptions, CommandLines, Confs, NoneRead
  <2> QED BY <1>2, <1>4, <2>1, <2>2
          DEF IInv, TypeOK, ConfAtPc, BufferIsTox, TmpIsBuffer, ToxCarriesFile
<1> QED BY <1>1, <1>3, <1>4

LEMMA ParseConfLemma ==
  ASSUME IInv, ParseConf
  PROVE  IInv'
<1>1. /\ pc = "parse_conf" /\ UNCHANGED <<file, tmp, used, misread, failed>>
      /\ conf \in Confs /\ NoneRead /\ tox = NULL /\ buf = NULL
  BY DEF ParseConf, disk, history, IInv, TypeOK, ConfAtPc
<1>2. CASE Die
  BY <1>1, <1>2, DieLemma DEF IInv, TypeOK
<1>3. CASE /\ ~ConfThrows(conf.conf_file_name)
           /\ conf' = WithSettings(conf, conf.conf_file_name)
           /\ pc' = "create_tox"
           /\ UNCHANGED <<tox, buf>>
  <2>1. conf' \in Confs /\ (AllRead' \/ NoneRead')
    BY <1>1, <1>3, WithSettingsLemma
  <2> QED BY <1>1, <1>3, <2>1
          DEF IInv, TypeOK, ConfAtPc, BufferIsTox, TmpIsBuffer, ToxCarriesFile
<1> QED BY <1>2, <1>3 DEF ParseConf

(* The snapshot in a file that is whole. *)
LEMMA WholeLemma == \A snapshot : Whole(snapshot).data = snapshot
BY DEF Whole

(* A tox made up by tox_new is a snapshot. *)
LEMMA NewToxLemma ==
  ASSUME used \subseteq Ids, NewTox
  PROVE  tox' \in Snapshots /\ used' \subseteq Ids
BY DEF NewTox, Snapshots

(* The tox comes from the savedata file that is there, if it can be read    *)
(* whole; or nothing is said of it.                                         *)
LEMMA CreateToxLemma ==
  ASSUME IInv, CreateTox
  PROVE  IInv'
<1>1. /\ pc = "create_tox" /\ buf = NULL /\ tox = NULL
      /\ conf \in Confs /\ (AllRead \/ NoneRead)
      /\ used \subseteq Ids /\ file \in SavedFiles
      /\ UNCHANGED <<file, tmp, failed>>
  BY DEF CreateTox, ConfAtPc, disk, IInv, TypeOK, SavedFiles
<1>2. ASSUME pc' = "bootstrap", UNCHANGED <<conf, buf>>, misread' \in BOOLEAN,
             tox' \in Snapshots, used' \subseteq Ids, ToxCarriesFile'
      PROVE  IInv'
  <2>1. TypeOK'
    BY <1>1, <1>2 DEF IInv, TypeOK
  <2>2. ConfAtPc' /\ BufferIsTox' /\ TmpIsBuffer'
    BY <1>1, <1>2 DEF IInv, ConfAtPc, AllRead, NoneRead, BufferIsTox,
         TmpIsBuffer
  <2> QED BY <1>2, <2>1, <2>2 DEF IInv
<1>3. Exists => file.data \in Snapshots
  BY <1>1 DEF Exists, SavedFiles, Absent, Torn, Whole
<1>4. CASE LoadWhole
  <2>1. ToxCarriesFile'
    BY <1>1, <1>4 DEF ToxCarriesFile, LoadWhole, Carries
  <2> QED BY <1>1, <1>2, <1>3, <1>4, <2>1 DEF LoadWhole
<1>5. CASE NoSavedata
  <2>1. tox' \in Snapshots /\ used' \subseteq Ids
    BY <1>1, <1>5, NewToxLemma DEF NoSavedata
  <2>2. AllRead /\ ~Exists => file = Absent
    BY ConfLemma DEF Exists
  <2>3. ToxCarriesFile'
    BY <1>1, <1>5, <2>2 DEF ToxCarriesFile, NoSavedata, AllRead
  <2> QED BY <1>2, <1>5, <2>1, <2>3 DEF NoSavedata
<1>6. CASE LoadPart
  <2>1. misread' = TRUE /\ file.data \in Snapshots
    BY <1>3, <1>6 DEF LoadPart
  <2>2. CASE Die /\ UNCHANGED used
    BY <1>1, <2>1, <2>2, DieLemma
  <2>3. CASE /\ \/ NewTox
                \/ \E fs \in SUBSET file.data.friends :
                     tox' = [id |-> file.data.id, friends |-> fs] /\ UNCHANGED used
             /\ pc' = "bootstrap" /\ UNCHANGED <<conf, buf>>
    <3>1. tox' \in Snapshots /\ used' \subseteq Ids
      <4>1. CASE NewTox
        BY <1>1, <4>1, NewToxLemma
      <4>2. ASSUME NEW fs \in SUBSET file.data.friends,
                   tox' = [id |-> file.data.id, friends |-> fs], UNCHANGED used
            PROVE  tox' \in Snapshots /\ used' \subseteq Ids
        <5>1. file.data.id \in Ids /\ fs \subseteq Friends
          BY <2>1 DEF Snapshots
        <5>2. [id |-> file.data.id, friends |-> fs] \in Snapshots
          BY <5>1 DEF Snapshots
        <5> QED BY <1>1, <4>2, <5>2
      <4> QED BY <2>3, <4>1, <4>2
    <3>2. ToxCarriesFile'
      BY <2>1 DEF ToxCarriesFile
    <3> QED BY <1>2, <2>1, <2>3, <3>1, <3>2
  <2> QED BY <1>6, <2>2, <2>3 DEF LoadPart
<1> QED BY <1>4, <1>5, <1>6 DEF CreateTox

(* The buffer is filled from the tox. *)
LEMMA BootstrapLemma ==
  ASSUME IInv, Bootstrap
  PROVE  IInv'
<1>1. CASE Die /\ UNCHANGED failed
  BY <1>1, DieLemma DEF Bootstrap, disk, IInv, TypeOK
<1>2. CASE pc' = "fopen" /\ buf' = tox /\ failed' = {} /\ UNCHANGED <<conf, tox>>
  BY <1>2
     DEF IInv, TypeOK, ConfAtPc, AllRead, NoneRead, BufferIsTox, TmpIsBuffer,
         ToxCarriesFile, Bootstrap, disk
<1> QED BY <1>1, <1>2 DEF Bootstrap

(* Only with every setting read is there a file to open. *)
LEMMA FopenLemma ==
  ASSUME IInv, Fopen
  PROVE  IInv'
<1>1. CASE Die /\ UNCHANGED tmp
  BY <1>1, DieLemma DEF Fopen, history, IInv, TypeOK
<1>2. CASE CanOpen /\ tmp' = Torn(buf) /\ pc' = "fwrite" /\ UNCHANGED <<conf, tox, buf>>
  <2>1. AllRead
    BY <1>2, ConfLemma DEF IInv, ConfAtPc, CanOpen, Fopen
  <2> QED BY <1>2, <2>1
     DEF IInv, TypeOK, ConfAtPc, AllRead, BufferIsTox, TmpIsBuffer,
     ToxCarriesFile, Fopen, Absent, Torn, Whole, history
<1> QED BY <1>1, <1>2 DEF Fopen

(* What is renamed next is the buffer, unless the write is short. *)
LEMMA FwriteLemma ==
  ASSUME IInv, Fwrite
  PROVE  IInv'
BY DEF IInv, TypeOK, ConfAtPc, AllRead, BufferIsTox, TmpIsBuffer,
       ToxCarriesFile, Fwrite, Absent, Torn, Whole

(* The file becomes the buffer, which is the tox. *)
LEMMA RenameLemma ==
  ASSUME IInv, Rename
  PROVE  IInv'
<1>1. /\ pc = "rename" /\ pc' = "loop" /\ buf' = NULL
      /\ UNCHANGED <<conf, tox, used, misread>>
  BY DEF Rename
<1>2. TypeOK' /\ ConfAtPc' /\ BufferIsTox' /\ TmpIsBuffer'
  BY <1>1 DEF IInv, TypeOK, ConfAtPc, AllRead, BufferIsTox, TmpIsBuffer, Rename
<1>3. CASE file' = tmp
  <2>1. tmp.data = tox
    BY <1>1 DEF IInv, TypeOK, TmpIsBuffer, BufferIsTox, Torn, Whole
  <2> QED BY <1>1, <1>2, <1>3, <2>1 DEF IInv, ToxCarriesFile, Carries
<1>4. CASE file' = file
  BY <1>1, <1>2, <1>4 DEF IInv, ToxCarriesFile, AllRead
<1> QED BY <1>3, <1>4 DEF Rename

(* The list of friends only grows. *)
LEMMA AcceptLemma ==
  ASSUME IInv, NEW f \in Friends, Accept(f)
  PROVE  IInv'
<1>1. /\ pc = "loop" /\ pc' = "fopen" /\ buf' = tox' /\ failed' = {}
      /\ UNCHANGED <<conf, file, tmp, used, misread>>
      /\ tox \in Snapshots
  BY DEF Accept, disk, IInv, TypeOK
<1>2. /\ tox' \in Snapshots
      /\ tox'.id = tox.id /\ tox.friends \subseteq tox'.friends
  <2>1. CASE tox' = tox
    BY <1>1, <2>1
  <2>2. CASE tox' = [tox EXCEPT !.friends = @ \cup {f}]
    BY <1>1, <2>2 DEF Snapshots
  <2> QED BY <2>1, <2>2 DEF Accept
<1>3. TypeOK'
  BY <1>1, <1>2 DEF IInv, TypeOK
<1>4. ConfAtPc' /\ BufferIsTox' /\ TmpIsBuffer'
  BY <1>1 DEF IInv, ConfAtPc, AllRead, BufferIsTox, TmpIsBuffer
<1>5. ToxCarriesFile'
  BY <1>1, <1>2 DEF IInv, TypeOK, ToxCarriesFile, Carries, AllRead
<1> QED BY <1>3, <1>4, <1>5 DEF IInv

-----------------------------------------------------------------------------
(* The invariant holds in every state, for any Faults. *)
THEOREM Invariance == Spec => []IInv
<1>1. IInv /\ [Next]_vars => IInv'
  <2> SUFFICES ASSUME IInv, [Next]_vars PROVE IInv'
    OBVIOUS
  <2>1. CASE UNCHANGED vars
    BY <2>1 DEF vars, IInv, TypeOK, ConfAtPc, AllRead, NoneRead, BufferIsTox,
         TmpIsBuffer,
                ToxCarriesFile
  <2>2. CASE Kill
    BY <2>2, KillLemma
  <2>3. CASE Run
    BY <2>3, RunLemma
  <2>4. CASE Step
    BY <2>4, ParseOptionLemma, ParseConfLemma, CreateToxLemma, BootstrapLemma,
       FopenLemma, FwriteLemma, RenameLemma DEF Step
  <2>5. CASE \E f \in Friends : Accept(f)
    BY <2>5, AcceptLemma
  <2> QED BY <2>1, <2>2, <2>3, <2>4, <2>5 DEF Next
<1> QED BY <1>1, InitLemma, PTL DEF Spec

(* The variables have their types; the buffer exists exactly while the file *)
(* is being written, and the tox from create_tox on.                        *)
THEOREM TypeCorrect == Spec => []TypeOK
<1>1. IInv => TypeOK
  BY DEF IInv
<1> QED BY <1>1, Invariance, PTL

(* No step but a rename changes the savedata file, which becomes the buffer, *)
(* or a part of it when the write was short.                                *)
LEMMA FileStep ==
  ASSUME IInv, [Next]_vars, file' # file
  PROVE  /\ pc = "rename" /\ file' = tmp
         /\ file'.data = tox /\ tox # NULL /\ AllRead
         /\ file'.kind = "whole" \/ "fwrite" \in failed
<1>1. Rename /\ file' = tmp
  BY DEF Next, Kill, Run, Step, ParseOption, ParseConf, CreateTox, Bootstrap,
         Fopen,
         Fwrite, Rename, Accept, disk, vars
<1>2. pc = "rename"
  BY <1>1 DEF Rename
<1> QED BY <1>1, <1>2
        DEF IInv, TypeOK, ConfAtPc, TmpIsBuffer, BufferIsTox, Torn, Whole

(* Wherever the process is killed and whatever else fails, the savedata     *)
(* file is only replaced by a whole one, unless the write was short.        *)
THEOREM FileWhole == Spec => SavedFileWhole
<1>1. IInv /\ [Next]_vars =>
        [file' # file => file'.kind = "whole" \/ "fwrite" \in failed]_vars
  BY FileStep
<1> QED BY <1>1, Invariance, PTL DEF Spec, SavedFileWhole

(* The savedata file is only replaced by one that carries it on, but by a   *)
(* process that could not read it.                                          *)
THEOREM CarriedOver == Spec => SavedataCarriedOver
<1>1. IInv /\ [Next]_vars =>
        [file' # file /\ file # Absent /\ ~misread => Carries(file'.data, file.data)]_vars
  BY FileStep DEF IInv, ToxCarriesFile
<1> QED BY <1>1, Invariance, PTL DEF Spec, SavedataCarriedOver

(* The loop is reached with every setting read, whatever main() ignores.    *)
THEOREM Configured == Spec => []ServesConfigured
<1>1. IInv => ServesConfigured
  BY DEF IInv, ConfAtPc, AllRead, ServesConfigured, Get
<1> QED BY <1>1, Invariance, PTL

(* The bot that serves has the identity and the friends of the savedata     *)
(* file that is there, unless create_tox could not read it.                 *)
THEOREM IdentityKept == Spec => []ServesAsBefore
<1>1. IInv => ServesAsBefore
  BY DEF IInv, TypeOK, ConfAtPc, ToxCarriesFile, ServesAsBefore
<1> QED BY <1>1, Invariance, PTL
=============================================================================
