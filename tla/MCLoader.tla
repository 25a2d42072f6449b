------------------------------ MODULE MCLoader ------------------------------
(* Loader with every action and every combination of optional components. *)
EXTENDS Loader

EntriesOf(actions) == [action : actions, initrd : BOOLEAN, parmfile : BOOLEAN]

Plain(actions) == [action : actions, initrd : {FALSE}, parmfile : {FALSE}]

AllEntries == EntriesOf({"kernel", "bootmap"})
              \cup Plain({"insfile", "reboot", "halt", "shell", "exit"})
=============================================================================
