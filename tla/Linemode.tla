------------------------------ MODULE Linemode ------------------------------
(***************************************************************************)
(* The line mode user interface (core/ui_linemode.c): it gets the          *)
(* configuration through environment variables (core/config.c), runs the   *)
(* menu dialogue on a terminal and prints the selected entry for the       *)
(* System Loader.  An input line is a sequence of characters, a text of an *)
(* entry is "" (empty), " " (blanks only), "old" (from the configuration), *)
(* "new" (typed) or "NULL".                                                *)
(***************************************************************************)
EXTENDS EntryExchange

KernelTexts == {"root", "kernel", "initrd", "cmdline", "parmfile"}
Texts == KernelTexts \cup {"insfile", "bootmap"}
Fields == Texts \cup {"label", "lock", "pause", "action"}

CONSTANTS
  Menus,     \* configurations: sequences of entries
  Defaults,  \* values of boot_default
  Lines,     \* lines a user may type at the menu
  Answers,   \* what a user may type at the prompts for the texts
  MaxTyped   \* bound: lines typed at the menu

\* The scanner drops the blanks before a text of the configuration.
ASSUME MenuAssumption ==
  /\ \A m \in Menus : /\ Len(m) \in Nat \ {0} /\ m = [i \in 1..Len(m) |-> m[i]]
                      /\ \A i \in 1..Len(m) : /\ m[i] = [f \in Fields |-> m[i][f]]
                                             /\ m[i].lock \in BOOLEAN /\ m[i].pause \in BOOLEAN
                                             /\ \A f \in KernelTexts : m[i][f] # " "
                      /\ \A d \in Defaults : d < Len(m)
  /\ Defaults \subseteq Nat /\ MaxTyped \in Nat
  /\ \A a \in Answers, f \in Texts : a[f] \in {"", " ", "new"}
ASSUME LineAssumption ==
  \A line \in Lines : line \in Seq(STRING) /\ \A i \in 1..Len(line) : line[i] # ""

VARIABLES
  menu,          \* the entries in the System Loader
  boot_default,
  bentry_list,   \* the entries as the client read them
  pc,
  eof,           \* the terminal has been closed
  echo,          \* "on", "changed": attributes set but not noted, "off": noted in term_status
  input,         \* the line buffer
  command, selected, bentry,
  typed, count,  \* history: the last line typed, and how many were
  authorised,    \* history: the password was given for the current line
  manual,        \* history: bentry is as in the menu ("no"), "entered" or "modified" by hand
  printed        \* the entry written to standard output, or NoEntry

lineVars == <<menu, boot_default, bentry_list, pc, eof, echo, input, command, selected,
              bentry, typed, count, authorised, manual, printed>>

-----------------------------------------------------------------------------
(* The environment *)

\* memset() in get_man_boot(), and cfg_bentry_init() but for the texts it makes ""
Cleared(text) == [f \in Fields |-> IF f = "lock" \/ f = "pause" THEN FALSE
                                   ELSE IF f = "action" THEN "kernel" ELSE text]

\* Mutant: the lock is not passed to the clients.
CfgSetEnvUnlocked(list) ==
  [v \in (Fields \ {"lock"}) \X (1..Len(list)) |-> list[v[2]][v[1]]]

\* Variables B<i>_<field>
CfgSetEnv(list) == [v \in Fields \X (1..Len(list)) |-> list[v[2]][v[1]]]

\* A variable that is not set leaves the value of cfg_bentry_new().
CfgGetEnv(env, n) ==
  [i \in 1..n |-> [f \in Fields |-> IF <<f, i>> \in DOMAIN env THEN env[<<f, i>>]
                                        ELSE Cleared("")[f]]]

-----------------------------------------------------------------------------
(* compute_selection() *)

Digits == [d \in {"0", "1", "2", "3"} |->
             CASE d = "0" -> 0 [] d = "1" -> 1 [] d = "2" -> 2 [] OTHER -> 3]

Strspn(s, chars) ==
  CHOOSE n \in 0..Len(s) : /\ \A i \in 1..n : s[i] \in chars
                           /\ n = Len(s) \/ s[n + 1] \notin chars

From(s, n) == SubSeq(s, n, Len(s))
SkipBlanks(s) == From(s, Strspn(s, {" "}) + 1)

FirstOf(s) == IF s = <<>> THEN "" ELSE s[1]

Unsigned(s) == IF FirstOf(s) \in {"+", "-"} THEN Tail(s) ELSE s
IsNumber(s) == FirstOf(Unsigned(s)) \in DOMAIN Digits

\* sscanf("%d"), 0 if there is no number
Number(s) ==
  LET u == Unsigned(s)
      value[n \in 0..Strspn(u, DOMAIN Digits)] ==
        IF n = 0 THEN 0 ELSE 10 * value[n - 1] + Digits[u[n]]
      v == value[Strspn(u, DOMAIN Digits)]
  IN IF FirstOf(s) = "-" THEN -v ELSE v

\* Mutant: a command after the number is not looked for.
ComputeSelectionNoSuffix(line) ==
  LET s == SkipBlanks(line)
  IN IF IsNumber(s) THEN [cmd |-> "", selection |-> Number(s)]
     ELSE [cmd |-> FirstOf(s), selection |-> Number(SkipBlanks(Tail(s)))]

\* Either a number followed by a command, or a command followed by a number; the sign of
\* a number is taken for a command
ComputeSelection(line) ==
  LET s == SkipBlanks(line)
  IN IF IsNumber(s)
     THEN [cmd |-> FirstOf(SkipBlanks(From(s, Strspn(s, DOMAIN Digits) + 1))),
           selection |-> Number(s)]
     ELSE [cmd |-> FirstOf(s), selection |-> Number(SkipBlanks(Tail(s)))]

-----------------------------------------------------------------------------
(* The dialogue *)

NoEntry == Cleared("NULL")

LinemodeInit ==
  /\ menu \in Menus /\ boot_default \in Defaults
  /\ bentry_list = CfgGetEnv(CfgSetEnv(menu), Len(menu))
  /\ pc = "menu" /\ eof = FALSE /\ echo = "on"
  /\ input = <<>> /\ command = "" /\ selected = 0 /\ bentry = NoEntry
  /\ typed = <<>> /\ count = 0 /\ authorised = FALSE /\ manual = "no" /\ printed = NoEntry

\* fgets() reads a line and SIGUSR1 is sent (UserInteracts in UiControl); its end is replaced by the end of the string
ReadSelection(line) ==
  /\ pc = "menu" /\ ~eof /\ count < MaxTyped
  /\ input' = line /\ typed' = line /\ count' = count + 1
  /\ bentry' = bentry_list[Len(bentry_list)]  \* printing the menu ends with this one
  /\ pc' = "selection" /\ authorised' = FALSE /\ manual' = "no"
  /\ UNCHANGED <<menu, boot_default, bentry_list, eof, echo, command, selected, printed>>

\* fgets() fails and leaves the buffer; its last character is cut off nevertheless
ReadNothing ==
  /\ pc = "menu" /\ eof
  /\ input' = IF input = <<>> THEN <<>> ELSE SubSeq(input, 1, Len(input) - 1)
  /\ bentry' = bentry_list[Len(bentry_list)]
  /\ pc' = "selection" /\ authorised' = FALSE /\ manual' = "no"
  /\ UNCHANGED <<menu, boot_default, bentry_list, eof, echo, command, selected, typed,
                 count, printed>>

HangUp ==
  /\ ~eof /\ eof' = TRUE
  /\ UNCHANGED <<menu, boot_default, bentry_list, pc, echo, input, command, selected,
                 bentry, typed, count, authorised, manual, printed>>

Chosen(line) ==
  LET n == ComputeSelection(line).selection IN IF n # 0 THEN n - 1 ELSE boot_default

InMenu(line) == Chosen(line) \in 0..(Len(bentry_list) - 1)

InvalidInput == pc' = "menu" /\ UNCHANGED bentry

IsBlank(line) == Strspn(line, {" "}) = Len(line)

Selection ==
  /\ pc = "selection"
  /\ IF IsBlank(input)
     THEN pc' = "menu" /\ UNCHANGED <<command, selected, bentry>>
     ELSE /\ command' = ComputeSelection(input).cmd
          /\ selected' = Chosen(input)
          /\ IF InMenu(input)
             THEN /\ bentry' = bentry_list[selected' + 1]
                  /\ pc' = IF bentry'.lock THEN "password" ELSE "command"
             ELSE InvalidInput
  /\ UNCHANGED <<menu, boot_default, bentry_list, eof, echo, input, typed, count, authorised,
                 manual, printed>>

\* set_terminal(1): the attributes are changed, then term_status notes it
SetTerminal ==
  /\ pc \in {"password", "display", "confirm"} /\ echo # "off"
  /\ echo' = IF echo = "on" THEN "changed" ELSE "off"
  /\ UNCHANGED <<menu, boot_default, bentry_list, pc, eof, input, command, selected,
                 bentry, typed, count, authorised, manual, printed>>

\* password(): reads up to the end of the line, for ever if the terminal is closed
Password(right) ==
  /\ pc = "password" /\ echo = "off" /\ ~eof
  /\ authorised' = right
  /\ pc' = IF right THEN "command" ELSE "menu"
  /\ echo' = "on"
  /\ UNCHANGED <<menu, boot_default, bentry_list, eof, input, command, selected, bentry,
                 typed, count, manual, printed>>

\* d: print_selection(), then any key
Display ==
  /\ pc = "command" /\ command = "d"
  /\ pc' = "display"
  /\ UNCHANGED <<menu, boot_default, bentry_list, eof, echo, input, command, selected,
                 bentry, typed, count, authorised, manual, printed>>

KeyPressed ==
  /\ pc = "display" /\ echo = "off"
  /\ pc' = "menu" /\ echo' = "on"
  /\ UNCHANGED <<menu, boot_default, bentry_list, eof, input, command, selected, bentry,
                 typed, count, authorised, manual, printed>>

\* get_man_boot(): what is asked for depends on the action
Asked(action) == IF action = "kernel" THEN KernelTexts ELSE {action}

GetManBoot(action, text) ==
  [f \in Fields |-> IF f = "action" THEN action
                    ELSE IF f \in Asked(action) THEN text[f] ELSE NoEntry[f]]

\* i: enter an entry by hand
Interactive(action) ==
  /\ pc = "command" /\ command = "i"
  /\ \E text \in Answers : bentry' = GetManBoot(action, text)
  /\ manual' = "entered" /\ pc' = "confirm"
  /\ UNCHANGED <<menu, boot_default, bentry_list, eof, echo, input, command, selected,
                 typed, count, authorised, printed>>

\* Mutant: blanks do not remove a text.
AssignInputBlank(new, old) == IF new = "" THEN old ELSE new

\* assign_input(): an empty line keeps the text, blanks remove it
AssignInput(new, old) == IF new = "" THEN old ELSE IF new = " " THEN "NULL" ELSE new

\* m: with a type given get_man_boot() asks for the texts of a kernel entry
Modify ==
  /\ pc = "command" /\ command = "m" /\ bentry.action = "kernel"
  /\ \E text \in Answers :
       bentry' = [f \in Fields |-> IF f \in KernelTexts THEN AssignInput(text[f], bentry[f])
                                   ELSE GetManBoot("kernel", text)[f]]
  /\ manual' = "modified" /\ pc' = "confirm"
  /\ UNCHANGED <<menu, boot_default, bentry_list, eof, echo, input, command, selected,
                 typed, count, authorised, printed>>

\* also for an insfile or boot map entry, whose text is then NULL: strlen() fails
ModifyCrashes ==
  /\ pc = "command" /\ command = "m" /\ bentry.action \in {"insfile", "bootmap"}
  /\ pc' = "crashed"
  /\ UNCHANGED <<menu, boot_default, bentry_list, eof, echo, input, command, selected,
                 bentry, typed, count, authorised, manual, printed>>

\* Unknown commands, and m for an entry without texts
Rejected ==
  /\ pc = "command"
  /\ \/ command \notin {"", "d", "i", "m"}
     \/ command = "m" /\ bentry.action \in Terminal
  /\ pc' = "menu"
  /\ UNCHANGED <<menu, boot_default, bentry_list, eof, echo, input, command, selected,
                 bentry, typed, count, authorised, manual, printed>>

\* B boots the entry, any other key or an error cancels
Confirm(boot) ==
  /\ pc = "confirm" /\ echo = "off" /\ (boot => ~eof)
  /\ bentry' = IF boot THEN [bentry EXCEPT !.label = "manual_label"] ELSE bentry
  /\ pc' = IF boot THEN "chosen" ELSE "menu"
  /\ command' = "key" /\ echo' = "on"
  /\ UNCHANGED <<menu, boot_default, bentry_list, eof, input, selected, typed, count,
                 authorised, manual, printed>>

Accept ==
  /\ pc = "command" /\ command = ""
  /\ pc' = "chosen"
  /\ UNCHANGED <<menu, boot_default, bentry_list, eof, echo, input, command, selected,
                 bentry, typed, count, authorised, manual, printed>>

\* The pause text waits for one more line or the end of the input
Pause ==
  /\ pc = "chosen" /\ bentry.pause
  /\ pc' = "print"
  /\ UNCHANGED <<menu, boot_default, bentry_list, eof, echo, input, command, selected,
                 bentry, typed, count, authorised, manual, printed>>

PrintEntry ==
  /\ pc \in {"chosen", "print"} /\ (pc = "chosen" => ~bentry.pause)
  /\ printed' = bentry
  /\ pc' = "ended"
  /\ UNCHANGED <<menu, boot_default, bentry_list, eof, echo, input, command, selected,
                 bentry, typed, count, authorised, manual>>

\* Mutant: the handlers do not reset the terminal.
ResetTerminalNot == echo

\* set_terminal(0) acts only if term_status notes a change
ResetTerminal == IF echo = "off" THEN "on" ELSE echo

\* SIGTERM, SIGINT or SIGQUIT: exit without an entry
SigHandler ==
  /\ pc \notin {"ended", "crashed"}
  /\ echo' = ResetTerminal
  /\ pc' = "ended"
  /\ UNCHANGED <<menu, boot_default, bentry_list, eof, input, command, selected, bentry,
                 typed, count, authorised, manual, printed>>

LinemodeNext ==
  \/ \E line \in Lines : ReadSelection(line)
  \/ ReadNothing \/ HangUp \/ Selection \/ SetTerminal
  \/ \E right \in BOOLEAN : Password(right)
  \/ Display \/ KeyPressed
  \/ \E action \in {"kernel", "insfile", "bootmap"} : Interactive(action)
  \/ Modify \/ ModifyCrashes \/ Rejected
  \/ \E boot \in BOOLEAN : Confirm(boot)
  \/ Accept \/ Pause \/ PrintEntry \/ SigHandler

LinemodeSpec == LinemodeInit /\ [][LinemodeNext]_lineVars
-----------------------------------------------------------------------------
(* Properties *)

\* A locked entry of the configuration is displayed, modified or booted only after its
\* password was given for this very line: the lock travels through the environment and
\* is asked for on every way through the dialogue (cfg_set_env, cfg_get_env, main).
LockNeedsPassword ==
  pc \in {"display", "confirm", "chosen", "print"} \/ printed # NoEntry =>
    (menu[selected + 1].lock => authorised)

\* What a line says at a glance, if it has one group of digits or none and one letter or none
Figures(line) == Only(line, DOMAIN Digits)
Signs(line) == Only(line, {line[i] : i \in 1..Len(line)} \ ({" "} \cup DOMAIN Digits))
Letter(line) == FirstOf(Signs(line))
Plain(line) ==
  /\ Len(Signs(line)) <= 1
  /\ \A i, j, k \in 1..Len(line) :
       i < j /\ j < k /\ line[i] \in DOMAIN Digits /\ line[k] \in DOMAIN Digits =>
         line[j] \in DOMAIN Digits

\* While the terminal is open, an entry booted from the menu is the one whose number
\* stands in the last line typed, or the default if there is none, and it is exactly as
\* in the configuration of the System Loader; a line with a letter boots a manual entry
\* or nothing (compute_selection, main, cfg_set_env, cfg_get_env).
BootsWhatWasTyped ==
  printed # NoEntry /\ ~eof /\ Plain(typed) =>
    LET n == Number(Figures(typed))
    IN /\ manual = "no" <=> Letter(typed) \notin {"i", "m"}
       /\ manual = "no" => /\ Letter(typed) = ""
                     /\ printed = menu[IF n = 0 THEN boot_default + 1 ELSE n]

\* The options of an entry: a text that is empty or NULL is not printed
AsEntry(b) == [label |-> b.label, opts |-> {f \in Texts : b[f] \notin {"", "NULL"}},
               action |-> b.action]

\* Every printed entry that names exactly one boot method reaches the loader with that
\* method and all its texts, whether it comes from the menu or was typed, and an entry
\* modified by hand has no text made of blanks only (cfg_bentry_print,
\* parse_sysload_boot_entry, assign_input).
PrintedEntrySurvives ==
  printed # NoEntry =>
    /\ OneMethod(AsEntry(printed)) => Survives(AsEntry(printed))
    /\ manual = "modified" => \A f \in Texts : printed[f] # " "

\* When the client has ended on any way, by itself or by a signal, the terminal echoes
\* again, unless the signal came after the attributes were changed and before that was
\* noted; and the echo is never off at a prompt (set_terminal, the signal handlers).
TerminalRestored ==
  pc \notin {"password", "display", "confirm"} =>
    \/ echo = "on"
    \/ pc = "ended" /\ echo = "changed" /\ printed = NoEntry
=============================================================================
