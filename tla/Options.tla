------------------------------ MODULE Options ------------------------------
(***************************************************************************)
(* Server/Config.cpp and Client/Config.cpp: what the two programs accept   *)
(* on their command lines.  A line gives each option its value; a text is  *)
(* represented by what its validator asks of it.                           *)
(***************************************************************************)
EXTENDS Integers

logLevelMap == [trace |-> 0, debug |-> 1, info |-> 2, warning |-> 3,
                error |-> 4, throw |-> 5]

(* make_address() takes every IP address, of a group or not.               *)
Addresses == {"group", "host"}

(* The digits of a side that std::stoi() cannot put into an int.           *)
TooLong == -1

(* parses: boost::program_options knows every option and can convert its   *)
(* value; matches: the grid size has the form WxH; fill in percent.        *)
ServerDefaults ==
  [parses |-> TRUE, help |-> FALSE, port |-> 9000, level |-> "info",
   file |-> "none", fps |-> 1, matches |-> TRUE, width |-> 40,
   height |-> 20, fill |-> 30, threads |-> 2, address |-> "group"]

ClientDefaults ==
  [parses |-> TRUE, help |-> FALSE, port |-> 9090, cell |-> 20,
   fps |-> 30, address |-> "group", level |-> "info", file |-> "none"]

-----------------------------------------------------------------------------
(* A pace of 0 is not refused.                                             *)
FpsFromZero == 0..30

ServerFps == 1..30

(* Every notifier of the server's options; its port has none.              *)
ServerValid(line) ==
  /\ line.level \in DOMAIN logLevelMap
  /\ line.fps \in ServerFps
  /\ line.matches /\ {line.width, line.height} \subseteq 10..200
  /\ line.fill \in 0..100 /\ line.threads \in 1..64
  /\ line.address \in Addresses

ClientValid(line) ==
  /\ line.port \in 0..65535
  /\ line.cell \in 5..50 /\ line.fps \in 1..60
  /\ line.address \in Addresses
  /\ line.level \in DOMAIN logLevelMap

(* std::out_of_range is no po::error: it leaves parseCommandLine().        *)
StoiThrows(line) == line.matches /\ TooLong \in {line.width, line.height}

(* parseCommandLine() returns true, or false, or throws.                   *)
ServerOutcome(line) ==
  IF ~line.parses THEN "refused"
  ELSE IF StoiThrows(line) THEN "throws"
  ELSE IF ServerValid(line) /\ ~line.help THEN "accepted" ELSE "refused"

ClientOutcome(line) ==
  IF line.parses /\ ClientValid(line) /\ ~line.help THEN "accepted"
  ELSE "refused"

(* The constructor of LoggerFile throws when it cannot open the file.      *)
LogOpens(line) == line.file # "unwritable"

-----------------------------------------------------------------------------
(* Bound: a line gives one option a value other than in "line".            *)
Lines(line, values) ==
  {line} \cup
  UNION {{[line EXCEPT ![option] = value] : value \in values[option]} :
           option \in DOMAIN values}

CommonValues == [parses |-> {FALSE}, help |-> {TRUE},
                 level |-> DOMAIN logLevelMap \cup {"fatal"},
                 file |-> {"writable", "unwritable"},
                 address |-> {"host", "name"}]

(* Both sides of every limit, and a port that does not fit into 16 bits.   *)
ServerLines(line) ==
  Lines(line, CommonValues) \cup
  Lines(line, [port |-> {-1, 0, 65536}, fps |-> {0, 30, 31},
               matches |-> {FALSE}, width |-> {TooLong, 9, 10, 200, 201},
               height |-> {TooLong, 9, 10, 200, 201, 1000},
               fill |-> {-1, 0, 100, 101}, threads |-> {0, 1, 64, 65}])

ClientLines ==
  Lines(ClientDefaults, CommonValues) \cup
  Lines(ClientDefaults, [port |-> {-1, 0, 65535, 65536},
                         cell |-> {4, 5, 50, 51}, fps |-> {0, 1, 60, 61}])
=============================================================================
