-------------------------------- MODULE Boot --------------------------------
(***************************************************************************)
(* From the command line to the application: main() of main.c, the thread  *)
(* that calls it and the tokenizer on Mini-OS, and the two os_parse_args(), *)
(* that of os/minios/ and that of os/posix/, which Unikraft builds too.     *)
(*                                                                         *)
(* A word of the command line is an option or an argument, and the text of *)
(* a Mini-OS command line a sequence of characters of two kinds, those of  *)
(* words and blanks.                                                       *)
(***************************************************************************)
EXTENDS Integers, Sequences, FiniteSets

CONSTANTS
  CommandLines,   \* the command lines considered
  MAX_ARGV_NUM,   \* the size of __argv, argv[0] included
  MayFail         \* create_thread() may fail

Options   == {"help", "app", "time", "fork", "clone", "children", "sleep", "memory"}
Forms     == {"short", "long"}
Arguments == {"server", "fuzz", "3", "0", "-5"}

\* Those that take the next word as their argument.
TakesArg  == {"app", "children", "sleep", "memory"}

\* What strcmp() tells apart: one form of an option, or an argument.
Word(o, f, a) == [opt |-> o, form |-> f, arg |-> a]
Words == {Word(o, f, "none") : o \in Options, f \in Forms}
           \cup {Word("none", "none", a) : a \in Arguments}

\* What the operator meant: an option with its argument, or a stray argument.
Items == [opt : Options \cup {"stray"}, form : Forms,
          arg : Arguments \cup {"none"}]

\* The words that spell an item out.
WordsOf(item) ==
  IF item.arg = "none" THEN << Word(item.opt, item.form, "none") >>
  ELSE IF item.opt = "stray" THEN << Word("none", "none", item.arg) >>
  ELSE << Word(item.opt, item.form, "none"), Word("none", "none", item.arg) >>

\* The words of a command line are those of its items, one item after the
\* other: at[k] is where item k begins, or where the line ends.
Positions(c) == [1 .. Len(c.items) + 1 -> 1 .. Len(c.words) + 1]

SpellsOut(c, at) ==
  /\ at[1] = 1 /\ at[Len(c.items) + 1] = Len(c.words) + 1
  /\ \A k \in DOMAIN c.items :
       /\ at[k + 1] = at[k] + Len(WordsOf(c.items[k]))
       /\ \A j \in DOMAIN WordsOf(c.items[k]) :
            c.words[at[k] + j - 1] = WordsOf(c.items[k])[j]

\* Where the words of a text begin.
Starts(text) ==
  {k \in DOMAIN text : text[k] = "char" /\ (k = 1 \/ text[k - 1] = "blank")}

ASSUME BootAssumption ==
  /\ MAX_ARGV_NUM \in Nat /\ MAX_ARGV_NUM >= 2
  /\ MayFail \in BOOLEAN
  /\ \A c \in CommandLines :
       /\ c.platform \in {"minios", "posix", "unikraft"}
       /\ c.text \in Seq({"char", "blank"})
       /\ c.words \in Seq(Words)
       /\ c.items \in Seq(Items)
       /\ \E at \in Positions(c) : SpellsOut(c, at)
       /\ c.platform = "minios" => Len(c.words) = Cardinality(Starts(c.text))

VARIABLES
  cmd,          \* the command line, its words and what was meant
  pc,           \* where the program is
  str,          \* what the tokenizer has made of the text
  pos,          \* the local variables i and token_start of cmdline_tokenize(),
  token_start,  \*   0 for NULL
  argv,         \* argv[1] ... argv[argc - 1], each where its word is
  i,            \* the loop variable of os_parse_args(), optind
  rc,           \* the local variable rc of the os_parse_args() of os/posix/
  settings      \* app and the options' global variables

tokenizer == << str, pos, token_start, argv >>
parser    == << i, rc, settings >>

bvars == << cmd, pc, tokenizer, parser >>

Outcomes == {"running", "usage", "refused", "helped", "crashed", "dead"}
PCs      == {"boot", "tokenize", "parse", "init", "switch"} \cup Outcomes

\* main.c: the initial values.  APP_NONE is the first enumerator.
Defaults == [app |-> "NONE", time |-> FALSE, fork |-> FALSE, clone |-> FALSE,
             children |-> 1, sleep |-> 1000, memory |-> "NULL"]

Init ==
  /\ cmd \in CommandLines
  /\ pc = IF cmd.platform = "minios" THEN "boot" ELSE "parse"
  /\ str = cmd.text /\ pos = 1 /\ token_start = 0
  /\ argv = IF cmd.platform = "minios" THEN << >>
            ELSE [k \in DOMAIN cmd.words |-> k]
  /\ i = 1 /\ rc = 0 /\ settings = Defaults

Goto(l) == pc' = l

-----------------------------------------------------------------------------
(* The thread of Mini-OS and the tokenizer.                                *)

CreateThread ==
  /\ pc = "boot"
  /\ \/ Goto("tokenize")
     \/ MayFail /\ Goto("dead")
  /\ UNCHANGED << cmd, tokenizer, parser >>

\* The loop's condition: argv[0] has a place already.
Tokenizing == pc = "tokenize" /\ pos =< Len(str) /\ Len(argv) < MAX_ARGV_NUM - 1

\* Mutant: a second blank adds a word too.
AddTokenAlways == Append(argv, token_start)

\* argv[argc++] = token_start, if there is one.
AddToken == IF token_start = 0 THEN argv ELSE Append(argv, token_start)

\* Mutant: the blank stays, and the word has no end.
TokenEndsUnmarked ==
  /\ Tokenizing /\ str[pos] = "blank"
  /\ argv' = AddToken
  /\ token_start' = 0 /\ pos' = pos + 1
  /\ UNCHANGED << cmd, pc, str, parser >>

TokenEnds ==
  /\ Tokenizing /\ str[pos] = "blank"
  /\ str' = [str EXCEPT ![pos] = "NUL"]
  /\ argv' = AddToken
  /\ token_start' = 0 /\ pos' = pos + 1
  /\ UNCHANGED << cmd, pc, parser >>

TokenChar ==
  /\ Tokenizing /\ str[pos] = "char"
  /\ token_start' = IF token_start = 0 THEN pos ELSE token_start
  /\ pos' = pos + 1
  /\ UNCHANGED << cmd, pc, str, argv, parser >>

\* The word the text ends with, and the call of main().
Tokenized ==
  /\ pc = "tokenize" /\ ~ Tokenizing
  /\ argv' = AddToken
  /\ Goto("parse")
  /\ UNCHANGED << cmd, str, pos, token_start, parser >>

-----------------------------------------------------------------------------
(* What both os_parse_args() use.                                          *)

\* The word argv[k] points to.
WordAt(k) ==
  cmd.words[IF cmd.platform = "minios"
              THEN Cardinality({s \in Starts(cmd.text) : s =< argv[k]})
              ELSE argv[k]]

Parsing(p) == pc = "parse" /\ (cmd.platform = "minios") = p /\ i =< Len(argv)

\* A Linux build and the Mini-OS images have no fuzz, which needs Xen's store.
Built == IF cmd.platform = "unikraft" THEN {"server", "fuzz"} ELSE {"server"}

string_to_app(a) == IF a \in Built THEN a ELSE "NONE"

Numeral == [a \in {"3", "0", "-5"} |-> IF a = "3" THEN 3 ELSE IF a = "0" THEN 0 ELSE -5]

\* sscanf() leaves the variable alone if there is no number, atoi() returns 0.
sscanf(a, old) == IF a \in DOMAIN Numeral THEN Numeral[a] ELSE old
atoi(a) == sscanf(a, 0)

\* The iteration that sets a variable and goes on with argv[i + n].
Set(field, value, n) ==
  /\ settings' = [settings EXCEPT ![field] = value]
  /\ i' = i + n
  /\ UNCHANGED << cmd, pc, tokenizer, rc >>

Stop(outcome) == Goto(outcome) /\ UNCHANGED << cmd, tokenizer, parser >>

-----------------------------------------------------------------------------
(* os_parse_args() of os/minios/cmdline.c.                                 *)

IsOption(o) == Parsing(TRUE) /\ WordAt(i).opt = o

\* argv[i + 1]: NULL behind the last word, anything behind the array.
Following ==
  IF i < Len(argv) THEN {WordAt(i + 1).arg}
  ELSE IF Len(argv) < MAX_ARGV_NUM - 1 THEN {"NULL"} ELSE Arguments \cup {"NULL"}

Help == IsOption("help") /\ Stop("helped")

App ==
  /\ IsOption("app")
  /\ \E a \in Following :
       IF a = "NULL" THEN Stop("crashed")
       ELSE IF string_to_app(a) = "NONE" THEN Stop("refused")
       ELSE Set("app", a, 2)

Flag(o) == IsOption(o) /\ Set(o, TRUE, 1)

\* Mutant: any number of children will do.
ChildrenUnchecked ==
  /\ IsOption("children")
  /\ \E a \in Following :
       IF a = "NULL" THEN Stop("crashed")
       ELSE Set("children", sscanf(a, settings.children), 2)

\* children_num keeps its value when there is no number to scan.
Children ==
  /\ IsOption("children")
  /\ \E a \in Following :
       IF a = "NULL" THEN Stop("crashed")
       ELSE IF sscanf(a, settings.children) < 1 THEN Stop("refused")
       ELSE Set("children", sscanf(a, settings.children), 2)

Sleep ==
  /\ IsOption("sleep")
  /\ \E a \in Following :
       IF a = "NULL" THEN Stop("crashed")
       ELSE Set("sleep", sscanf(a, settings.sleep), 2)

Memory == IsOption("memory") /\ \E a \in Following : Set("memory", a, 2)

\* An argument nobody takes is reported and passed over.
Invalid ==
  /\ IsOption("none")
  /\ i' = i + 1
  /\ UNCHANGED << cmd, pc, tokenizer, rc, settings >>

-----------------------------------------------------------------------------
(* os_parse_args() of os/posix/cmdline.c: getopt_long().                   *)

\* "ha:t:f:m:"
short_opts == {"help", "app", "time", "fork", "memory"}
short_args == short_opts \ {"help"}

long_opts == Options \ {"clone"}

Known(w)    == w.opt \in IF w.form = "short" THEN short_opts ELSE long_opts
NeedsArg(w) == w.opt \in IF w.form = "short" THEN short_args ELSE TakesArg

\* getopt_long() returns o, with its argument or without one.
Getopt(o) ==
  /\ Parsing(FALSE)
  /\ WordAt(i).opt = o /\ Known(WordAt(i))
  /\ NeedsArg(WordAt(i)) => i < Len(argv)

\* How many words it used.
Used == IF NeedsArg(WordAt(i)) THEN 2 ELSE 1

optarg == WordAt(i + 1).arg

GetoptHelp == Getopt("help") /\ Stop("helped")

GetoptApp ==
  /\ Getopt("app")
  /\ IF string_to_app(optarg) = "NONE" THEN Stop("refused")
     ELSE Set("app", optarg, Used)

GetoptFlag(o) == Getopt(o) /\ Set(o, TRUE, Used)

GetoptChildren ==
  /\ Getopt("children")
  /\ IF atoi(optarg) < 1 THEN Stop("refused")
     ELSE Set("children", atoi(optarg), Used)

GetoptSleep ==
  /\ Getopt("sleep")
  /\ IF atoi(optarg) < 0 THEN Stop("refused")
     ELSE Set("sleep", atoi(optarg), Used)

GetoptMemory == Getopt("memory") /\ Set("memory", optarg, Used)

\* Mutant: the unknown option is tried again.
GetoptRejectsAgain ==
  /\ Parsing(FALSE)
  /\ \A o \in Options : ~ Getopt(o)
  /\ rc' = -1
  /\ UNCHANGED << cmd, pc, tokenizer, i, settings >>

\* An unknown option, a missing argument, or a word that is no option: the
\* program goes on to the end of the line before it gives up.
GetoptRejects ==
  /\ Parsing(FALSE)
  /\ \A o \in Options : ~ Getopt(o)
  /\ rc' = -1 /\ i' = i + 1
  /\ UNCHANGED << cmd, pc, tokenizer, settings >>

-----------------------------------------------------------------------------
(* main().                                                                 *)

\* Mutant: i < argc - 1.
ParsedEarly ==
  /\ pc = "parse" /\ i >= Len(argv)
  /\ Goto(IF rc = 0 THEN "init" ELSE "refused")
  /\ UNCHANGED << cmd, tokenizer, parser >>

Parsed ==
  /\ pc = "parse" /\ i > Len(argv)
  /\ Goto(IF rc = 0 THEN "init" ELSE "refused")
  /\ UNCHANGED << cmd, tokenizer, parser >>

\* os_app_init() starts the network of a Mini-OS guest; it never fails.
AppInit ==
  /\ pc = "init"
  /\ Goto("switch")
  /\ UNCHANGED << cmd, tokenizer, parser >>

StartApp ==
  /\ pc = "switch"
  /\ Goto(IF settings.app = "NONE" THEN "usage" ELSE "running")
  /\ UNCHANGED << cmd, tokenizer, parser >>

BootStep ==
  \/ CreateThread \/ TokenEnds \/ TokenChar \/ Tokenized
  \/ Help \/ App \/ Children \/ Sleep \/ Memory \/ Invalid
  \/ \E o \in {"time", "fork", "clone"} : Flag(o) \/ GetoptFlag(o)
  \/ GetoptHelp \/ GetoptApp \/ GetoptChildren \/ GetoptSleep \/ GetoptMemory
  \/ GetoptRejects
  \/ Parsed \/ AppInit \/ StartApp

BootSpec == Init /\ [][BootStep]_bvars

-----------------------------------------------------------------------------
TypeOK ==
  /\ pc \in PCs
  /\ str \in Seq({"char", "blank", "NUL"})
  /\ pos \in Nat \ {0} /\ token_start \in Nat
  /\ argv \in Seq(Nat \ {0})
  /\ i \in Nat \ {0} /\ rc \in {0, -1}
  /\ settings \in [app : Arguments \cup {"NONE"},
                   time : BOOLEAN, fork : BOOLEAN, clone : BOOLEAN,
                   children : Int, sleep : Int,
                   memory : Arguments \cup {"NULL", "none"}]

\* What the tokenizer leaves: every word of the text, in order, up to as many
\* as __argv holds beside argv[0], each ended by a NUL or by the text's end.
TokensAreWords ==
  pc \notin {"boot", "tokenize", "dead"} /\ cmd.platform = "minios" =>
    /\ Len(argv) < MAX_ARGV_NUM
    /\ \A j, k \in DOMAIN argv : j < k => argv[j] < argv[k]
    /\ \A k \in DOMAIN argv : argv[k] \in Starts(cmd.text)
    /\ \A s \in Starts(cmd.text) :
         \/ \E k \in DOMAIN argv : argv[k] = s
         \/ Len(argv) = MAX_ARGV_NUM - 1 /\ \A k \in DOMAIN argv : argv[k] < s
    /\ \A k \in DOMAIN argv : \A e \in DOMAIN str :
         /\ argv[k] < e
         /\ \A j \in argv[k] .. e - 1 : cmd.text[j] = "char"
         => str[e] = IF cmd.text[e] = "char" THEN "char" ELSE "NUL"

\* An application starts only with what its prologue relies on: a positive
\* number of children, and clones on Mini-OS alone.
PrologueAssumptionsHold ==
  pc = "running" =>
    /\ settings.children >= 1
    /\ settings.clone => cmd.platform = "minios"

-----------------------------------------------------------------------------
(* What a command line means.                                              *)

\* Items that mean something, and all of which the build has.
Proper(item) ==
  /\ item.opt \in Options \ {"help"}
  /\ item.opt \in TakesArg <=> item.arg # "none"
  /\ item.opt = "app" => item.arg \in Built
  /\ item.opt = "children" => item.arg = "3"
  /\ item.opt = "sleep" => item.arg \in {"3", "0"}

\* The last item with the option decides.
Meant(o, default) ==
  LET I == {k \in DOMAIN cmd.items : cmd.items[k].opt = o}
  IN  IF I = {} THEN default
      ELSE LET last == CHOOSE k \in I : \A j \in I : j =< k
           IN  IF o \in TakesArg THEN cmd.items[last].arg ELSE TRUE

\* What the line says of the options it has; the others keep main.c's initial
\* values.  The usage text states the same defaults, but for sleep, where it has
\* 1 and main.c 1000.
Meaning ==
  [app |-> Meant("app", Defaults.app), memory |-> Meant("memory", Defaults.memory),
   time |-> Meant("time", Defaults.time), fork |-> Meant("fork", Defaults.fork),
   clone |-> Meant("clone", Defaults.clone),
   children |-> sscanf(Meant("children", "none"), Defaults.children),
   sleep |-> sscanf(Meant("sleep", "none"), Defaults.sleep)]

\* Where the program goes with a line that means something.
StartsAsMeant ==
  pc \in Outcomes \ {"dead"} =>
    /\ pc = IF Meant("app", "NONE") = "NONE" THEN "usage" ELSE "running"
    /\ settings = Meaning

LineIsProper == \A k \in DOMAIN cmd.items : Proper(cmd.items[k])

\* The parser of Linux and Unikraft has no clone, -c and -s, and its -t and -f
\* ask for an argument.
PosixTakes(item) ==
  IF item.form = "long" THEN item.opt # "clone" ELSE item.opt \in {"app", "memory"}

\* A line that the platform's parser takes: there is room for it in argv, or it
\* has none of the forms that parser lacks.
ParserTakes ==
  IF cmd.platform = "minios" THEN Len(cmd.words) < MAX_ARGV_NUM
  ELSE \A k \in DOMAIN cmd.items : PosixTakes(cmd.items[k])

\* A proper line that its parser takes starts the application it names with the
\* settings it gives, wherever its options are and whatever words their
\* arguments look like, and leaves all other settings at main.c's initial values,
\* which is not what the usage text says of sleep.
ProperLinesStart == LineIsProper /\ ParserTakes => StartsAsMeant

\* ProperLinesStart on Linux for every option of the usage text in both of the
\* forms that the text gives it, also those that the parser does not take.
UsageHolds ==
  /\ LineIsProper
  /\ \A k \in DOMAIN cmd.items : cmd.items[k].opt # "clone"
  => StartsAsMeant

=============================================================================
