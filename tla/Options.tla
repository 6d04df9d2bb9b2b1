-------------------------------- MODULE Options --------------------------------
(***************************************************************************)
(* process_options (src/config/opts.c) and process_json_config             *)
(* (src/config/json.c): the command line and the configuration files it    *)
(* names set numports and worker_threads.                                  *)
(*                                                                         *)
(* An option on the command line is [opt, form, arg, n, file]: its letter, *)
(* "short" or "long", whether an argument goes with it, and the argument   *)
(* as a number or as the text of the file it names (the empty sequence:    *)
(* no such file).                                                          *)
(***************************************************************************)
EXTENDS JsonParser

CONSTANTS
  Argv,            \* the command lines
  DefaultPorts,    \* numports and worker_threads before the options
  DefaultThreads

OptionType == [opt : STRING, form : {"short", "long"}, arg : BOOLEAN, n : Int,
               file : Seq(TokenType)]

ASSUME OptionsAssumption ==
  /\ \A s \in DOMAIN Chars : Chars[s] \in Seq(1 .. 255)
  /\ \A s \in {"modules", "ports", "threads"} : s \in DOMAIN Chars /\ Chars[s] \in Seq(1 .. 127)
  /\ CJSON_NESTING_LIMIT \in Nat /\ DefaultPorts \in Int /\ DefaultThreads \in Int
  /\ \A line \in Argv : /\ line \in Seq(OptionType)
                        /\ \A i \in DOMAIN line :
                             line[i].file = << >> \/ IsText(line[i].file)

VARIABLES
  argv, argi,      \* the command line; optind
  optstring,       \* the letters build_optstring has put in
  opc,             \* where process_options is; "exit" when the process has ended
  nopt,            \* process_json_config: the next option of the table
  numports, worker_threads

settings == <<numports, worker_threads>>
optVars == <<argv, argi, optstring, opc, nopt, settings, jsonVars>>

\* The options of global_options that SET_JSON marks, in its order.
FromFile == <<"modules", "ports", "threads">>

\* Options with an argument.
TakesArgument == {"c", "m", "n", "t"}
Known == TakesArgument \cup {"h"}

\* build_optstring(global_options, 3) stops at the second option, and strchr may
\* find either letter in memory that was not written yet.
Optstrings == SUBSET {"c", "m"}

Init == /\ argv \in Argv /\ argi = 1 /\ opc = "next" /\ nopt = 1
        /\ optstring \in Optstrings
        /\ numports = DefaultPorts /\ worker_threads = DefaultThreads
        /\ JsonInit

\* getopt_long recognises the next option.
Option == argv[argi]
Recognised(o) == /\ o.opt \in Known
                 /\ o.form = "short" => o.opt \in optstring
                 /\ o.opt \in TakesArgument => o.arg
Reads(c) == /\ opc = "next" /\ argi <= Len(argv) /\ Recognised(Option) /\ Option.opt = c
Passed == argi' = argi + 1 /\ UNCHANGED <<argv, optstring, nopt>>

-------------------------------------------------------------------------------
(* parse_global_opt, for the command line *)

\* "Unknown option": -n and -t among them.
UnknownOption == /\ opc = "next" /\ argi <= Len(argv) /\ ~ Recognised(Option)
                 /\ Passed /\ UNCHANGED <<opc, settings, jsonVars>>

SetPorts == /\ Reads("n") /\ numports' = Option.n
            /\ Passed /\ UNCHANGED <<opc, worker_threads, jsonVars>>

SetThreads == /\ Reads("t") /\ worker_threads' = Option.n
              /\ Passed /\ UNCHANGED <<opc, numports, jsonVars>>

\* The modules are told apart and not loaded.
SetModules == /\ Reads("m") /\ Passed /\ UNCHANGED <<opc, settings, jsonVars>>

Help == /\ Reads("h") /\ opc' = "exit"
        /\ Passed /\ UNCHANGED <<settings, jsonVars>>

ConfigFile == /\ Reads("c") /\ Option.file # << >>
              /\ opc' = "file" /\ Parse(Option.file)
              /\ UNCHANGED <<argv, argi, optstring, nopt, settings>>

\* The file cannot be opened or there is no memory for it: printlog(ERROR) ends
\* the process.
NoConfigFile == /\ Reads("c") /\ opc' = "exit"
                /\ UNCHANGED <<argv, argi, optstring, nopt, settings, jsonVars>>

NoMoreOptions == /\ opc = "next" /\ argi > Len(argv) /\ opc' = "done"
                 /\ UNCHANGED <<argv, argi, optstring, nopt, settings, jsonVars>>

-------------------------------------------------------------------------------
(* process_json_config, once the file is read *)

ParseFile == /\ opc = "file" /\ JsonNext
             /\ UNCHANGED <<argv, argi, optstring, opc, nopt, settings>>

BadFile == /\ opc = "file" /\ jpc = "done" /\ root = NULL /\ opc' = "exit"
           /\ UNCHANGED <<argv, argi, optstring, nopt, settings, jsonVars>>

\* atoi over the four bytes of an int, the lowest first: blanks, a sign, digits.
\* Numbers whose four bytes are all digits, where it reads on, are left out.
Byte(v, i) == (v \div <<1, 256, 65536, 16777216>>[i + 1]) % 256
Digits == 48 .. 57
Blanks == 9 .. 13 \cup {32}
atoi(v) ==
  LET s == CHOOSE i \in 0 .. 4 : /\ i = 4 \/ Byte(v, i) \notin Blanks
                                 /\ \A j \in 0 .. i - 1 : Byte(v, j) \in Blanks
      d == IF s < 4 /\ Byte(v, s) \in {43, 45} THEN s + 1 ELSE s
      e == CHOOSE i \in d .. 4 : /\ i = 4 \/ Byte(v, i) \notin Digits
                                 /\ \A j \in d .. i - 1 : Byte(v, j) \in Digits
      size[i \in 0 .. 4] == IF i <= d THEN 0 ELSE 10 * size[i - 1] + Byte(v, i - 1) - 48
  IN IF d > s /\ Byte(v, s) = 45 THEN - size[e] ELSE size[e]

\* Mutation of Setting: numbers are taken as they are.
SettingAsWritten(i, was) ==
  IF i # NULL /\ items[i].type = "num" THEN items[i].number ELSE was

\* translate_json_to_cstr for an option marked JSON_INT: parse_opt gets the address
\* of the int.  An option that is missing or no number leaves what was.
Setting(i, was) == IF i # NULL /\ items[i].type = "num" THEN atoi(items[i].number) ELSE was

Apply == /\ opc = "file" /\ jpc = "done" /\ root # NULL /\ nopt <= Len(FromFile)
         /\ LET i == GetObjectItem(root, FromFile[nopt])
            IN /\ numports' = IF FromFile[nopt] = "ports" THEN Setting(i, numports)
                              ELSE numports
               /\ worker_threads' = IF FromFile[nopt] = "threads"
                                    THEN Setting(i, worker_threads) ELSE worker_threads
         /\ nopt' = nopt + 1
         /\ UNCHANGED <<argv, argi, optstring, opc, jsonVars>>

Applied == /\ opc = "file" /\ jpc = "done" /\ nopt > Len(FromFile)
           /\ opc' = "next" /\ argi' = argi + 1 /\ nopt' = 1
           /\ UNCHANGED <<argv, optstring, settings, jsonVars>>

Next == \/ UnknownOption \/ SetPorts \/ SetThreads \/ SetModules \/ Help
        \/ ConfigFile \/ NoConfigFile \/ NoMoreOptions
        \/ ParseFile \/ BadFile \/ Apply \/ Applied

Spec == Init /\ [][Next]_optVars

-------------------------------------------------------------------------------
TypeOK ==
  /\ argi \in 1 .. Len(argv) + 1 /\ optstring \in Optstrings
  /\ opc \in {"next", "file", "done", "exit"} /\ nopt \in 1 .. Len(FromFile) + 1
  /\ numports \in Int /\ worker_threads \in Int
  /\ jpc \in {"idle", "start", "value", "first", "member", "name", "colon", "after",
              "fail", "done"}
  /\ text # << >> => pos \in DOMAIN text
  /\ Len(stack) <= CJSON_NESTING_LIMIT

\* The values the text of a file gives a setting: that of the first member of the
\* outermost object that goes by its name, in whatever case and however it is
\* spelled, if it is a number.  What follows the object is not read.
InFile(t, name) ==
  LET named == {k \in DOMAIN t : /\ t[1].k = "{" /\ t[k].k = "str" /\ t[k + 1].k = ":"
                                 /\ Nesting(Cut(t, 1, k)) = 1
                                 /\ \A j \in 1 .. k : Nesting(Cut(t, 1, j)) >= 1
                                 /\ Matches(Chars[t[k].s] \o Spelt(Repaired(t[k].u)),
                                            Chars[name])}
  IN {t[k + 2].n : k \in {k \in named : /\ t[k + 2].k = "num"
                                        /\ \A x \in named : k <= x}}

\* What an option gives numports.  A number of a file comes through atoi, which reads
\* the bytes of an int: what the file says is another thing (ConfiguredAsWritten).
Given(o) == IF ~ Recognised(o) THEN {}
            ELSE CASE o.opt = "n" -> {o.n}
                   [] o.opt = "c" -> {atoi(v) : v \in InFile(o.file, "ports")}
                   [] OTHER -> {}

\* When the switch starts up, the number of ports is that of the last option, or
\* configuration file, that gives one: earlier ones, files without the setting or
\* with a setting that is no number, and options getopt does not take leave no trace.
SettingsApplied ==
  opc = "done" =>
    LET giving == {i \in DOMAIN argv : Given(argv[i]) # {}}
    IN numports \in IF giving = {} THEN {DefaultPorts}
                    ELSE Given(argv[CHOOSE i \in giving : \A x \in giving : x <= i])

\* A configuration file sets the number of ports it says: the value of the member
\* "ports" goes to parse_opt as a string, like the argument of --ports.
ConfiguredAsWritten ==
  opc = "done" =>
    \A i \in DOMAIN argv :
      /\ i = Len(argv) /\ Recognised(argv[i]) /\ argv[i].opt = "c"
      /\ InFile(argv[i].file, "ports") # {}
      => numports \in InFile(argv[i].file, "ports")
===============================================================================
