---------------------------- MODULE SimpleShell ----------------------------
(***************************************************************************)
(* chapter03/shell.c and chapter05/shell_option.c: shells that run one     *)
(* command a line and wait for it.  The first takes the first word of the  *)
(* line; the second splits the line into the command and its options.      *)
(*                                                                         *)
(* Both go on with what their buffers hold when the user enters nothing:   *)
(* `line` at the end of input, `command` after an empty line.  And strtok  *)
(* leaves only the first word of `command` behind.                         *)
(***************************************************************************)
EXTENDS Integers, Sequences, SequencesExt

CONSTANTS
    Lines,     \* the lines with words the user may type, as their words
    Installed  \* the commands that can be run

EmptyLine == <<>>      \* only the newline
BlankLine == <<"">>    \* only blanks
Unknown   == <<"?">>   \* what an uninitialised buffer holds: some word

VARIABLES
    shell,    \* the program: "shell", "shell_option", or "off"
    at,       \* its next step
    line,     \* its buffers
    command,
    arg,      \* what the child passes to execl or execv
    kid,      \* the state of the child
    argv,     \* what the child runs as
    entered,  \* history: the last line with a word the user has entered
    fresh     \* history: it is the line the shell read last

shellVars == <<shell, at, line, command, arg, kid, argv, entered, fresh>>

ShellInit ==
    /\ shell = "off" /\ at = "prompt"
    /\ line = Unknown /\ command = Unknown /\ arg = <<>>
    /\ kid = "none" /\ argv = <<>>
    /\ entered = Unknown /\ fresh = FALSE

StartShell(s) ==
    /\ shell = "off" /\ shell' = s
    /\ UNCHANGED <<at, line, command, arg, kid, argv, entered, fresh>>

\* fgets: a line, or at the end of input nothing.
Fgets(l) ==
    /\ line' = l
    /\ IF l \in Lines THEN entered' = l /\ fresh' = TRUE
                      ELSE UNCHANGED entered /\ fresh' = FALSE

\* sscanf("%s") of the line l: its first word, if it has one.
FirstWord(l, old) == IF l \in {EmptyLine, BlankLine} THEN old ELSE <<Head(l)>>

\* sscanf("%[^\n]") of the line l, if it has a character.
WholeLine(l, old) == IF l = EmptyLine THEN old ELSE l

\* Mutant of GetArg: options of a longer line before stay in arg.
GetArgLonger(c) == IF c = BlankLine THEN <<>> ELSE c \o SubSeq(arg, Len(c) + 1, Len(arg))

\* get_arg(command, arg): the words strtok finds.
GetArg(c) == IF c = BlankLine THEN <<>> ELSE c

\* What strtok leaves of the command.
Cut(c) == <<Head(c)>>

ReadCommand(l) ==
    /\ shell # "off" /\ at = "prompt"
    /\ Fgets(l)
    /\ IF shell = "shell"
       THEN command' = FirstWord(l, command) /\ arg' = command'
       ELSE LET c == WholeLine(l, command) IN command' = Cut(c) /\ arg' = GetArg(c)
    /\ at' = "fork"
    /\ UNCHANGED <<shell, kid, argv>>

\* fork; its failure is not looked at.
ForkKid ==
    /\ shell # "off" /\ at = "fork"
    /\ at' = "wait"
    /\ kid' \in {"forked", "none"}
    /\ UNCHANGED <<shell, line, command, arg, argv, entered, fresh>>

\* wait(&st), which fails when there is no child.
WaitKid ==
    /\ at = "wait" /\ kid \in {"none", "zombie"}
    /\ at' = "prompt"
    /\ kid' = "none" /\ argv' = <<>>
    /\ UNCHANGED <<shell, line, command, arg, entered, fresh>>

\* execl or execv; the child exits when it fails, as it does without a command.
ExecKid ==
    /\ kid = "forked"
    /\ IF arg # <<>> /\ arg[1] \in Installed THEN kid' = "running" /\ argv' = arg
                                             ELSE kid' = "zombie" /\ UNCHANGED argv
    /\ UNCHANGED <<shell, at, line, command, arg, entered, fresh>>

\* The command ends; nothing obliges it to.
KidEnds ==
    /\ kid = "running" /\ kid' = "zombie"
    /\ UNCHANGED <<shell, at, line, command, arg, argv, entered, fresh>>

ShellUser ==
    \/ \E s \in {"shell", "shell_option"} : StartShell(s)
    \/ \E l \in Lines \cup {EmptyLine, BlankLine, line} : ReadCommand(l)

ShellStep == ForkKid \/ WaitKid
KidStep   == ExecKid

ShellNext == ShellUser \/ ShellStep \/ KidStep \/ KidEnds

ShellFairness == WF_shellVars(ShellStep) /\ WF_shellVars(KidStep)
-----------------------------------------------------------------------------
ShellTypeOK ==
    /\ shell \in {"off", "shell", "shell_option"}
    /\ at \in {"prompt", "fork", "wait"}
    /\ {line, command, arg, argv, entered} \subseteq Seq(STRING)
    /\ kid \in {"none", "forked", "running", "zombie"}
    /\ fresh \in BOOLEAN

\* A command that runs is the one of the last line with a word, with no options
\* but those of that line: with all of them in shell_option when that line has
\* just been typed, and with none in shell.  Nothing else ever runs, whatever
\* empty lines, failures and ends of input came between.
RunsTheLine ==
    kid = "running" =>
        /\ IsPrefix(argv, entered)
        /\ fresh => argv = IF shell = "shell" THEN <<Head(entered)>> ELSE entered
        /\ ~fresh /\ shell = "shell" => argv = <<Head(entered)>>

\* The prompt comes back, and with it the child is gone, unless the command runs
\* on; and it comes back when the command has ended.
ShellEnds ==
    /\ at = "fork" ~> (at = "prompt" /\ kid = "none") \/ kid = "running"
    /\ kid = "zombie" ~> at = "prompt" /\ kid = "none"
=============================================================================
