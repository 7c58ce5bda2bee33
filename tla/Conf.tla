-------------------------------- MODULE Conf --------------------------------
(***************************************************************************)
(* The configuration (Conf.cpp): the command line, the config file and the  *)
(* settings read from it with boost::program_options, which is outside the  *)
(* repository.                                                              *)
(*                                                                         *)
(* A config file is what the parser makes of it: the settings it gives and  *)
(* whether store() refuses it, for an unknown name, a setting given twice   *)
(* or a number that is none. A file that cannot be opened reads as one that *)
(* gives nothing. What a setting is worth is told apart only by the file    *)
(* that it comes from.                                                      *)
(***************************************************************************)
CONSTANTS
  Files,     \* names of files that --file may name
  Content    \* file -> what the parser makes of it

(* The settings parse_conf asks for; every one is required(). *)
Settings ==
  {"nodes_file_name", "host", "max_conn", "user", "passwd", "db", "bot_name",
   "status_message", "save_data_file", "save_data_tmp_file", "save_img_path",
   "avatar_filename", "log_file_name", "log_time_format", "log_file_size",
   "log_level", "desc_start", "desc_start_non_tok", "desc_stop", "desc_help",
   "desc_set", "desc_set_non_tok", "desc_readme", "desc_get", "desc_info",
   "desc_unknown_cmd", "desc_get_none"}

Empty == ""   \* the empty std::string, which is also the 0 of the numbers

ASSUME ConfAssumption ==
  /\ Empty \notin Files
  /\ Content \in [Files -> [given : SUBSET Settings, refused : BOOLEAN]]

Confs == [conf_file_name : Files \cup {Empty},
          value          : [Settings -> Files \cup {Empty}]]

(* Conf::Conf() *)
NoConf == [conf_file_name |-> Empty, value |-> [s \in Settings |-> Empty]]

-----------------------------------------------------------------------------
(* A command line names a file or none, and is refused when it has an       *)
(* option that is not defined or lacks its argument. --help does nothing.   *)
CommandLines == [file : Files \cup {Empty}, refused : BOOLEAN]

(* parse_option: what is refused is caught; notify() throws past the caller *)
(* when the required option is missing.                                     *)
OptionThrows(line) == ~line.refused /\ line.file = Empty

WithOptions(conf, line) ==
  IF line.refused THEN conf ELSE [conf EXCEPT !.conf_file_name = line.file]

Read(name) ==
  IF name \in Files THEN Content[name] ELSE [given |-> {}, refused |-> FALSE]

(* Mutant: the settings are not required(). *)
NothingRequired(name) == FALSE

(* parse_conf: notify() throws when a setting is missing, before it stores  *)
(* any. *)
ConfThrows(name) == ~Read(name).refused /\ Read(name).given # Settings

(* Otherwise it stores what is given; a file refused stores nothing. *)
WithSettings(conf, name) ==
  IF Read(name).refused
    THEN conf
    ELSE [conf EXCEPT !.value =
            [s \in Settings |-> IF s \in Read(name).given THEN name ELSE @[s]]]

(* The getters. *)
Get(conf, setting) == conf.value[setting]
=============================================================================
