---------------------------- MODULE EntryExchange ----------------------------
(***************************************************************************)
(* How a boot entry gets from a user interface to the System Loader: the   *)
(* client prints the selected entry with cfg_bentry_print() (core/config.c)*)
(* and the System Loader reads that text with parse_sysload_boot_entry()   *)
(* (core/parser_sysload.c), the grammar of the configuration file again.   *)
(***************************************************************************)
EXTENDS Integers, Sequences

\* Options that set the action of an entry; those in Terminal set nothing else.
Terminal == {"reboot", "halt", "shell", "exit"}
ActionOptions == {"kernel", "insfile", "bootmap"} \cup Terminal

\* cfg_bentry_init(): all texts empty and the action KERNEL_BOOT, which is 0
EmptyEntry == [label |-> "", opts |-> {}, action |-> "kernel"]

\* The last option that sets an action decides.
ParseOption(entry, o) ==
  [entry EXCEPT !.opts = IF o \in Terminal THEN @ ELSE @ \cup {o},
                !.action = IF o \in ActionOptions THEN o ELSE @]

-----------------------------------------------------------------------------
(* Printing and reading back *)

\* The elements of s that are in set, in their order
Only(s, set) ==
  LET kept[n \in 0..Len(s)] ==
        IF n = 0 THEN <<>>
        ELSE IF s[n] \in set THEN Append(kept[n - 1], s[n]) ELSE kept[n - 1]
  IN kept[Len(s)]

\* The order in which cfg_bentry_print() writes the texts of an entry
PrintOrder == <<"root", "kernel", "initrd", "cmdline", "parmfile", "insfile", "bootmap">>

\* The options cfg_bentry_print() writes after title and label: lock and pause are left
\* out, and an entry with one of the terminal actions is reduced to it.
Printed(entry) ==
  IF entry.action \in Terminal THEN <<entry.action>>
  ELSE Only(PrintOrder, entry.opts)

\* optionlist must not be empty
Parses(options) == options # <<>>

\* The entry parse_sysload_boot_entry() builds from that text, option by option
Reparsed(entry) ==
  LET p == Printed(entry)
      read[n \in 0..Len(p)] ==
        IF n = 0 THEN [EmptyEntry EXCEPT !.label = entry.label] ELSE ParseOption(read[n - 1], p[n])
  IN read[Len(p)]

Methods(entry) == entry.opts \cap {"kernel", "insfile", "bootmap"}

OneMethod(entry) == entry.action \notin Terminal /\ Methods(entry) = {entry.action}

\* The System Loader gets the entry with its action and all the texts the loader uses.
Survives(entry) ==
  /\ Parses(Printed(entry))
  /\ Reparsed(entry).action = entry.action
  /\ Reparsed(entry).opts = entry.opts \ {"lock", "pause"}
=============================================================================
