---------------------------- MODULE ConfigParser ----------------------------
(***************************************************************************)
(* parse_sysload(): the actions of core/sysload.conf.y that build the      *)
(* configuration while the file is read, statement by statement, and the   *)
(* resolution of the default entry at its end (core/parser_sysload.c).     *)
(* Setup and exec statements run their command at once.  Every action asks *)
(* parser_active_system(); a secondary System Loader (sysload -u, started  *)
(* inside an ssh session) also asks parser_uimode().                       *)
(*                                                                         *)
(* A file is any sequence of statements the grammar accepts, ended at any  *)
(* point by a syntax error.  Texts are members of small sets.              *)
(***************************************************************************)
EXTENDS SystemSections, EntryExchange

CONSTANTS
  UiModes,     \* values of the -u argument; "" in the primary System Loader
  Names,       \* texts used as a label or in a default statement
  NumberOf,    \* the number each text made of digits stands for
  Timeouts,    \* numbers in timeout statements
  Passwords,   \* texts of password statements
  Commands,    \* exec, setup dasd, setup qeth and setup zfcp statements
  ModParams,   \* parameters of setup module
  NetParams,   \* parameters of setup network
  Modules,     \* user interface modules
  Options,     \* options used in boot entries
  MaxUis,      \* bound: userinterface statements that count
  MaxEntries   \* bound: boot entries that count

ASSUME TextAssumption ==
  /\ "0" \in Names /\ "" \in Names
  /\ "0" \in DOMAIN NumberOf /\ NumberOf["0"] = 0
  /\ \A d \in DOMAIN NumberOf : NumberOf[d] \in Nat
  /\ Timeouts \subseteq Nat
ASSUME CountAssumption == MaxUis \in Nat /\ MaxEntries \in Nat

VARIABLES
  only_ui,      \* args->only_ui
  phase,        \* "parsing", "parsed", or "failed": main() continues with cfg_init()
  ctx,          \* the innermost open block that is not a system section
  base,         \* number of system sections open around that block
  fresh,        \* the grammar wants an element here
  boot_default, \* parser_global_context->boot_default
  bentry, modconf, netconf,  \* settings collected for the open block
  timeout, password, ui_list, bentry_list,  \* struct cfg_toplevel
  default,      \* its boot_default
  commands      \* history: commands executed

parserVars == <<only_ui, system_depth, system_first_inactive, conds, phase, ctx, base,
                fresh, boot_default, bentry, modconf, netconf, timeout, password,
                ui_list, bentry_list, default, commands>>

ParserInit ==
  /\ SectionsInit /\ only_ui \in UiModes
  /\ phase = "parsing" /\ ctx = "top" /\ base = 0 /\ fresh = TRUE
  /\ boot_default = "0"
  /\ bentry = EmptyEntry /\ modconf = {} /\ netconf = {}
  /\ timeout = 0 /\ password = "" /\ ui_list = <<>> /\ bentry_list = <<>>
  /\ default = 0 /\ commands = {}

\* parser_uimode() == NULL
Primary == only_ui = ""

In(block) == phase = "parsing" /\ ctx = block

\* Mutant: parser_uimode() is not asked.
RunInUimode(command) == commands' = IF Active THEN commands \cup {command} ELSE commands

Run(command) == commands' = IF Primary /\ Active THEN commands \cup {command} ELSE commands

-----------------------------------------------------------------------------
(* Global definitions *)

DefaultStmt(name) ==
  /\ In("top")
  /\ boot_default' = IF Active THEN name ELSE boot_default
  /\ fresh' = FALSE
  /\ UNCHANGED <<only_ui, system_depth, system_first_inactive, conds, phase, ctx, base,
                 bentry, modconf, netconf, timeout, password, ui_list, bentry_list,
                 default, commands>>

\* The timeout is also set, to 0, where the statement is "ignored".
TimeoutStmt(n) ==
  /\ In("top")
  /\ timeout' = IF Primary /\ Active THEN n ELSE 0
  /\ fresh' = FALSE
  /\ UNCHANGED <<only_ui, system_depth, system_first_inactive, conds, phase, ctx, base,
                 boot_default, bentry, modconf, netconf, password, ui_list, bentry_list,
                 default, commands>>

PasswordStmt(p) ==
  /\ In("top")
  /\ password' = IF Active THEN p ELSE password
  /\ fresh' = FALSE
  /\ UNCHANGED <<only_ui, system_depth, system_first_inactive, conds, phase, ctx, base,
                 boot_default, bentry, modconf, netconf, timeout, ui_list, bentry_list,
                 default, commands>>

\* cfg_system() runs the command that the statement stands for
CfgSystem(c) == Run(<<"system", {c}>>)

\* exec, setup dasd, setup qeth, setup zfcp
ExecStmt(c) ==
  /\ In("top")
  /\ CfgSystem(c)
  /\ fresh' = FALSE
  /\ UNCHANGED <<only_ui, system_depth, system_first_inactive, conds, phase, ctx, base,
                 boot_default, bentry, modconf, netconf, timeout, password, ui_list,
                 bentry_list, default>>

\* cfg_add_userinterface()
AddUserinterface(added) ==
  /\ In("top") /\ Len(ui_list) < MaxUis
  /\ ui_list' = IF Active THEN ui_list \o added ELSE ui_list
  /\ fresh' = FALSE
  /\ UNCHANGED <<only_ui, system_depth, system_first_inactive, conds, phase, ctx, base,
                 boot_default, bentry, modconf, netconf, timeout, password, bentry_list,
                 default, commands>>

UserinterfaceStmt(m) ==
  AddUserinterface(IF Primary THEN <<[module |-> m, cmdline |-> "args"]>> ELSE <<>>)

\* userinterface ssh m: the primary starts ssh, the secondary it starts runs m
UserinterfaceSsh(m) ==
  AddUserinterface(IF Primary THEN <<[module |-> "ssh", cmdline |-> "args"]>>
                   ELSE IF only_ui = m THEN <<[module |-> m, cmdline |-> "/dev/tty"]>>
                   ELSE <<>>)

-----------------------------------------------------------------------------
(* Blocks: setup module, setup network, boot_entry *)

Open(block) ==
  /\ In("top")
  /\ ctx' = block /\ base' = Len(conds) /\ fresh' = TRUE

Close(block) ==
  /\ In(block) /\ ~fresh /\ Len(conds) = base
  /\ ctx' = "top" /\ base' = 0 /\ UNCHANGED fresh

OpenModule ==
  /\ Open("module")
  /\ UNCHANGED <<only_ui, system_depth, system_first_inactive, conds, phase,
                 boot_default, bentry, modconf, netconf, timeout, password, ui_list,
                 bentry_list, default, commands>>

ModParam(p) ==
  /\ In("module")
  /\ modconf' = IF Active THEN modconf \cup {p} ELSE modconf
  /\ fresh' = FALSE
  /\ UNCHANGED <<only_ui, system_depth, system_first_inactive, conds, phase, ctx, base,
                 boot_default, bentry, netconf, timeout, password, ui_list, bentry_list,
                 default, commands>>

\* mb_conf_load() unless ignored; mb_conf_reset() always
CloseModule ==
  /\ Close("module")
  /\ Run(<<"module", modconf>>)
  /\ modconf' = {}
  /\ UNCHANGED <<only_ui, system_depth, system_first_inactive, conds, phase,
                 boot_default, bentry, netconf, timeout, password, ui_list,
                 bentry_list, default>>

OpenNetwork ==
  /\ Open("network")
  /\ UNCHANGED <<only_ui, system_depth, system_first_inactive, conds, phase,
                 boot_default, bentry, modconf, netconf, timeout, password, ui_list,
                 bentry_list, default, commands>>

NetParam(p) ==
  /\ In("network")
  /\ netconf' = IF Active THEN netconf \cup {p} ELSE netconf
  /\ fresh' = FALSE
  /\ UNCHANGED <<only_ui, system_depth, system_first_inactive, conds, phase, ctx, base,
                 boot_default, bentry, modconf, timeout, password, ui_list, bentry_list,
                 default, commands>>

\* Mutant: the reset belongs to the branch that enables the network.
CloseNetworkKeepsIgnored ==
  /\ Close("network")
  /\ Run(<<"network", netconf>>)
  /\ netconf' = IF Primary /\ Active THEN {} ELSE netconf
  /\ UNCHANGED <<only_ui, system_depth, system_first_inactive, conds, phase,
                 boot_default, bentry, modconf, timeout, password, ui_list,
                 bentry_list, default>>

\* nb_conf_enable() unless ignored; nb_conf_reset() always
CloseNetwork ==
  /\ Close("network")
  /\ Run(<<"network", netconf>>)
  /\ netconf' = {}
  /\ UNCHANGED <<only_ui, system_depth, system_first_inactive, conds, phase,
                 boot_default, bentry, modconf, timeout, password, ui_list,
                 bentry_list, default>>

\* boot_entry { title ... [label name]: the label is stored in inactive text too
OpenEntry(name) ==
  /\ Open("entry") /\ Len(bentry_list) < MaxEntries
  /\ bentry' = [bentry EXCEPT !.label = IF name = "" THEN @ ELSE name]
  /\ UNCHANGED <<only_ui, system_depth, system_first_inactive, conds, phase,
                 boot_default, modconf, netconf, timeout, password, ui_list,
                 bentry_list, default, commands>>

\* Mutant: parser_active_system() is not asked.
EntryOptionUnguarded(o) ==
  /\ In("entry")
  /\ bentry' = ParseOption(bentry, o)
  /\ fresh' = FALSE
  /\ UNCHANGED <<only_ui, system_depth, system_first_inactive, conds, phase, ctx, base,
                 boot_default, modconf, netconf, timeout, password, ui_list, bentry_list,
                 default, commands>>

EntryOption(o) ==
  /\ In("entry")
  /\ bentry' = IF Active THEN ParseOption(bentry, o) ELSE bentry
  /\ fresh' = FALSE
  /\ UNCHANGED <<only_ui, system_depth, system_first_inactive, conds, phase, ctx, base,
                 boot_default, modconf, netconf, timeout, password, ui_list, bentry_list,
                 default, commands>>

\* cfg_add_bentry() unless ignored; cfg_bentry_init() always
CloseEntry ==
  /\ Close("entry")
  /\ bentry_list' = IF Active THEN Append(bentry_list, bentry) ELSE bentry_list
  /\ bentry' = EmptyEntry
  /\ UNCHANGED <<only_ui, system_depth, system_first_inactive, conds, phase,
                 boot_default, modconf, netconf, timeout, password, ui_list,
                 default, commands>>

-----------------------------------------------------------------------------
(* System sections, at top level or inside a block *)

OpenSection(negated, listed) ==
  /\ phase = "parsing"
  /\ EnterSystem(negated, listed)
  /\ fresh' = TRUE
  /\ UNCHANGED <<only_ui, phase, ctx, base, boot_default, bentry, modconf, netconf, timeout,
                 password, ui_list, bentry_list, default, commands>>

\* Only at top level may the brackets be empty.
CloseSection ==
  /\ phase = "parsing" /\ Len(conds) > base
  /\ ctx = "top" \/ ~fresh
  /\ ExitSystem
  /\ fresh' = FALSE
  /\ UNCHANGED <<only_ui, phase, ctx, base, boot_default, bentry, modconf, netconf, timeout,
                 password, ui_list, bentry_list, default, commands>>

-----------------------------------------------------------------------------
(* The end of the file *)

\* main(): "Continuing with blank configuration"
CfgInit ==
  /\ phase' = "failed"
  /\ timeout' = 0 /\ password' = "" /\ ui_list' = <<>> /\ bentry_list' = <<>>
  /\ default' = 0

SyntaxError ==
  /\ phase = "parsing"
  /\ CfgInit
  /\ UNCHANGED <<only_ui, system_depth, system_first_inactive, conds, ctx, base, fresh,
                 boot_default, bentry, modconf, netconf, commands>>

\* Mutant: the number of entries is accepted as an index.
ReferencedPastEnd ==
  IF boot_default \in DOMAIN NumberOf
  THEN {NumberOf[boot_default]} \cap 0..Len(bentry_list)
  ELSE {i \in 0..(Len(bentry_list) - 1) : bentry_list[i + 1].label = boot_default}

\* Positions, counted from 0, that the text of the default statement refers to
Referenced ==
  IF boot_default \in DOMAIN NumberOf
  THEN {NumberOf[boot_default]} \cap 0..(Len(bentry_list) - 1)
  ELSE {i \in 0..(Len(bentry_list) - 1) : bentry_list[i + 1].label = boot_default}

EndOfFile ==
  /\ In("top") /\ conds = <<>> /\ ~fresh
  /\ \/ /\ Referenced = {}
        /\ CfgInit
     \/ /\ \E i \in Referenced : (\A j \in Referenced : i <= j) /\ default' = i
        /\ phase' = "parsed"
        /\ UNCHANGED <<timeout, password, ui_list, bentry_list>>
  /\ UNCHANGED <<only_ui, system_depth, system_first_inactive, conds, ctx, base, fresh,
                 boot_default, bentry, modconf, netconf, commands>>

ParserNext ==
  \/ \E name \in Names : DefaultStmt(name) \/ OpenEntry(name)
  \/ \E n \in Timeouts : TimeoutStmt(n)
  \/ \E p \in Passwords : PasswordStmt(p)
  \/ \E c \in Commands : ExecStmt(c)
  \/ \E m \in Modules : UserinterfaceStmt(m) \/ UserinterfaceSsh(m)
  \/ OpenModule \/ CloseModule \/ \E p \in ModParams : ModParam(p)
  \/ OpenNetwork \/ CloseNetwork \/ \E p \in NetParams : NetParam(p)
  \/ CloseEntry \/ \E o \in Options : EntryOption(o)
  \/ \E negated, listed \in SUBSET Identifiers : OpenSection(negated, listed)
  \/ CloseSection
  \/ SyntaxError \/ EndOfFile

ParserSpec == ParserInit /\ [][ParserNext]_parserVars

-----------------------------------------------------------------------------
(* Properties *)

Entries == [label : Names, opts : SUBSET (Options \ Terminal),
            action : {"kernel"} \cup (Options \cap ActionOptions)]
UserInterfaces == [module : Modules \cup {"ssh"}, cmdline : {"args", "/dev/tty"}]

\* Text inside a section whose condition, or that of any enclosing section, is false
\* adds nothing to the configuration, runs nothing and adds nothing to the settings
\* collected for an open block (all actions of sysload.conf.y but timeout).
IgnoredTextLeavesNoTrace ==
  [][~AllTrue /\ phase' = "parsing" =>
       /\ UNCHANGED <<boot_default, password, ui_list, bentry_list, commands>>
       /\ ctx' = ctx => UNCHANGED <<bentry, modconf, netconf>>]_parserVars

\* A block collects its own settings only: whatever a preceding block set, also one
\* that was ignored, is gone when the next block starts (the resets that end the rules
\* setup_module, network and bootentry).
NoResidue ==
  /\ ctx # "module" => modconf = {}
  /\ ctx # "network" => netconf = {}
  /\ ctx # "entry" => bentry = EmptyEntry

\* A secondary System Loader reads the same file without touching the system: it runs no
\* command, has no timeout and starts its own user interface on /dev/tty only.
SecondaryIsPassive ==
  ~Primary =>
    /\ commands = {} /\ timeout = 0
    /\ \A i \in 1..Len(ui_list) : ui_list[i] = [module |-> only_ui, cmdline |-> "/dev/tty"]

\* When reading has ended, a timeout has a default entry to boot, the one the default
\* statement refers to: by position if its text is a number, by the first matching label
\* otherwise; after an error there is neither (parse_sysload, main).
TimeoutHasDefault ==
  /\ phase = "failed" => timeout = 0 /\ ui_list = <<>> /\ bentry_list = <<>>
  /\ phase = "parsed" =>
       /\ default < Len(bentry_list)
       /\ IF boot_default \in DOMAIN NumberOf
          THEN default = NumberOf[boot_default]
          ELSE /\ bentry_list[default + 1].label = boot_default
               /\ \A i \in 1..default : bentry_list[i].label # boot_default
=============================================================================
