# The System Loader in TLA+

This project models the System Loader (`sysload`), a boot loader that runs as a
Linux program: it reads a configuration file, sets up devices and network, lets
user interfaces present the boot entries, fetches the components of the selected
entry and starts the new kernel with kexec. The modules are translated from the
sources in `src/core/` and `src/comploader/`; line references are in the `map` of
`PROJECT.json`.

## 1. The system

| part | source | state | operations | interacts with |
|---|---|---|---|---|
| main program | `core/sysload.c` | configuration, pid file | parse, then loop: `userinterface()`, `loader()` | all parts |
| configuration scanner | `core/sysload.conf.l`, `core/parser.c` | include stack, start condition | tokens, include files | `comp_load()` for includes |
| configuration grammar | `core/sysload.conf.y`, `core/parser_sysload.c`, `core/config.c` | `struct cfg_toplevel`, `struct parser_context`, settings of the open block | one action per statement, resolution of the default | runs setup commands at once |
| system sections | `core/parser_sysload.c` | `system_depth`, `system_first_inactive` | enter, exit, `parser_active_system()` | asked by every grammar action |
| user interface control | `core/ui_control.c` | `u[]`, `endtime`, `config->timeout`, `rcvd_sig`, alarm | fork, select loop, timeout, SIGUSR1, reap, kill | pipes and signals with its clients |
| user interfaces | `core/ui_linemode.c`, `core/ui_ssh.c` | selected entry | dialogue, SIGUSR1, print the entry, exit | parent through a pipe |
| boot entry exchange | `cfg_bentry_print()`, `parse_sysload_boot_entry()` | none | print, parse | client to parent |
| loader | `core/loader.c`, `core/insfile.c` | files with fixed names in `/tmp`, the image kexec loaded | kernel, insfile, boot map, reboot, halt, shell, exit | component loaders, kexec |
| boot map reader | `core/bootmap_common.c` | tables in memory, `entry`, `code_ptr`, buffer | open, program table, component table, copy | the disk, loader |
| boot map devices | `core/bootmap_dasd.c`, `core/bootmap_fcp.c` | device online or not | set online, find the device node, set offline | sysfs |
| component load | `core/comp_load.c` | two pipes, a child | fork, select loop, wait | component loader scripts |
| component loaders | `comploader/*` | mounts, devices online | fetch one URI | sysfs, mount |
| network, modules | `core/netbase.c`, `core/dhcp_request.c`, `core/modbase.c` | interface settings | enable with DHCP retries, modprobe | grammar, kernel command line |
| setup scripts, init, administration | `setup/*`, `scripts/*`, `admin/*` | sysfs, ramdisk | straight line shell | main program |

What is hard here: the parent, its clients, the alarm and SIGUSR1 interleave
freely and the parent is single threaded with one `select()`; `waitpid()` reaps
any client while another one is being served; the loop of `main()` repeats after a
failed boot with state left over from the attempt before (pending alarm, stopped
timeout, files in `/tmp`); a second System Loader started inside an ssh session
reads the same configuration and writes the same files; two integers stand for a
stack of nested conditions; the scanner keeps its start condition and its include
stack from one text to the next; one process reads two bounded pipes that another
one fills; devices and mounts are set up and undone around every use, with a way out
at each step; a boot map is a chain of tables of varying length that comes from a
disk. `PROJECT.json` lists these as hazards, each at its line.

What makes each part correct:

* user interface control: only complete entries are booted; a stopped timeout
  stays stopped; no client survives; the wait and the cleanup end;
* system sections: text is active exactly if all enclosing conditions hold;
* grammar: ignored text has no effect, blocks do not leak into one another, a
  secondary System Loader executes nothing, the default is the one the file names;
* exchange: the entry that reaches the loader is the one the user selected;
* loader: what boots is what was selected last; failed attempts clean up;
* boot map reader: what is copied is the component, kexec gets the objects the
  boot loader on the disk names, errors and bad pointers do not reach kexec.
* component load: status and output of a module arrive, and nobody waits for ever;
* scanner and start-up: an accepted configuration means what its expanded text
  says, and one bad text does not spoil the next;
* network: a lease belongs to the statement that asked for it, waiting is bounded;
* line mode: the entry booted is the one typed, a lock needs its password;
* devices: what a use sets up is undone, leftovers do not stop a later use, but for the
  cases that the properties name.

## 2. Modules

| module | models | extends |
|---|---|---|
| `UiControl` | `userinterface()`, its clients, the alarm | |
| `UiSelection` | what `main()` relies on: the abstract selection | |
| `UiControlProofs` | proofs, with the refinement UiControl => UiSelection | UiControl |
| `SystemSections` | section conditions and the two counters | |
| `EntryExchange` | how options make an entry, printing and parsing it | |
| `ConfigParser` | `parse_sysload()` statement by statement | SystemSections, EntryExchange |
| `ConfigParserProofs` | proofs, of the sections too | ConfigParser |
| `Scanner` | start conditions, include stack, temporary files | SystemSections |
| `Network` | `nb_conf_enable()` and `dhcpcd()` | |
| `Startup` | kernel arguments, configuration and boot entries through one scanner | Scanner, Network |
| `StartupProofs` | proofs, of sections and the scanner in a configuration too | Startup, DataInduction |
| `Linemode` | the dialogue of the line mode user interface | EntryExchange |
| `LinemodeProofs` | proofs, of printing and parsing an entry too | Linemode, DataInduction |
| `CompLoad` | `comp_load()`, its child and the pipes between them | |
| `ClScp` | the component loader for scp | |
| `Loader` | boot actions of one or more System Loaders on shared files | |
| `LoaderProofs` | proofs, of `comp_load()` too | Loader, CompLoad |
| `Devices` | devices and mounts, set up and undone by boot map code and scripts | |
| `DevicesProofs` | proofs | Devices |
| `Bootmap` | the walk through a boot map | |
| `BootmapReference` | the format of a boot map as a definition, and the reader against it | Bootmap |
| `BootmapProofs` | proofs | BootmapReference, DataInduction |
| `DataInduction` | lemmas: induction and recursion over the naturals | |
| `MC...` | constants for TLC | |

### UiControl

`pc` is the place of the parent in `userinterface()`; every place where it can be
preempted with an effect on the outcome is a step: the start loop (with a failing
`pipe()` or `fork()`), the installation of the handlers after the forks, the
wait set and `alarm()`, entering `select()`, one `read()`, reaping with the check
of the input, and the five steps of the cleanup. A client (`cstate`) is forked,
executes, or fails to and then runs the cleanup code of its parent against its
elder siblings, writes chunks, sends SIGUSR1, exits, dies of a signal and becomes
a zombie. Closing the pipe ("exiting") and becoming waitable ("zombie") are
separate, since the parent can see the end of file before it can reap. The text
of an entry is the number of reads it takes; less than all of it does not parse.
`rcvd_sig` and `timer` survive a call, as in the code. `received` is a history
variable. `fork()` failing leaves pid -1, and `kill(-1, ...)` then signals
everybody (`SignalClients`).

### SystemSections, EntryExchange, ConfigParser

A configuration file is any sequence of statements the grammar accepts. `conds`
is the stack of conditions, which the code does not keep: the counters are
checked against it. A `not(...)` list is one level deep, as an identifier list
before the plain one. `ctx`, `base` and `fresh` say which block is open, at which
section depth it was opened, and whether the grammar wants an element there (an
option list must not be empty). `commands` is the history of executed commands.
The text of a default statement is a number if it is in `DOMAIN NumberOf`.
The two counters, and `timeout` being set to 0 by an ignored timeout statement,
are as in the code. `EntryExchange` defines what one option does to an entry
(`ParseOption`, used by the grammar), what `cfg_bentry_print()` writes, and what
comes back when that is parsed.

### Scanner, Network, Startup

`ConfigParser` starts from statements; `Scanner` starts from lines of lexemes, as
far as the start conditions, comments, includes and missing newlines can tell them
apart, and `expects` stands for the state of the grammar. An included file is
fetched into `/tmp/sysloadparser-<depth>.cfg` (`temp`), the including one waits on
`stack`. Mode, stack and files outlive a text (`Parse` resets only what
`parse_sysload()` and its relatives reset). The scanner asks `parser_active_system()`
for includes itself, with the counters of `SystemSections`, while the grammar is one
token behind. `Startup` feeds it the kernel arguments in the order
`parse_kernel_cmdline()` takes them from each piece that `fgets()` reads, then the
configuration, then entries. A network statement stops the parser until
`nb_conf_enable()` is through: `netpc` walks through the request, the info file,
`resolv.conf` and the check; a value is the number of the request that brought it,
so that a stale lease shows. A lease without a name server leads to `dead`: the
code follows a null pointer there.

### Linemode

The menu comes through environment variables (`CfgSetEnv`, `CfgGetEnv`). A line is a
sequence of characters, because `compute_selection()` is about their order; the
texts of an entry are "", blanks, old, new or null. `ReadNothing` is the end of the
input, where the line before stays in the buffer less its last character.
`SetTerminal` has two steps, since `term_status` is noted after `tcsetattr()`, and
`SigHandler` can come at any moment. `ModifyCrashes` is the null pointer that
modifying an insfile or boot map entry leads to.

### CompLoad, ClScp

The parent alternates between `select()` and a `read()` per stream that is set in
`read_set`, the child writes to either pipe and blocks when it is full. A pipe holds
`Cap` units and a read takes at most `Chunk`. `Alarm` is the alarm of
`userinterface()`: outside `select()` it only passes, inside it makes `select()`
return with `read_set` as it was (`Interrupt`). After a failing `fork()` both
streams end at once and `wait4(-1)` takes the status of whoever has ended, or none.
`ClScp` is the only component loader with a program of its own: the URI, the two
arguments as `comp_load()` passes them, and the copy loop.

### Loader

A file's content is who fetched it, for which attempt and action, and whether the
copy was finished. Fetching is two steps, so that a second System Loader, or a
failure, can come between them. `identify_file()` is a free choice of what the
component is. `boot_bootmap_disk()` has its own way through the same places: it does
not go to the cleanup, and its error paths remove the initrd but not always the
kernel.

### Devices

One DASD or SCSI disk and its users: the boot map code (`"dasd"`, `"zfcp"`), and the
scripts `cl_dasd`, `cl_zfcp` and `cl_block`. All go through the same places (`pc`)
with the differences of the code: only scripts look whether the device is online,
only `cl_dasd` remembers to set offline what it set online, only the boot map code
makes a node, `cl_zfcp` has one exit without cleanup, `cl_block` looks for another
mount and links to it. sysfs may fail every write, make one come true late
(`SetOnlineFails`) or refuse to take away what is in use. `fault`, `found`, `alone`,
`used` and `refused` are history: what the environment did, what a job found, and who
else was there.

Adding a WWPN or a LUN fails in two ways. Either there is a directory and its attribute
`failed` is not 0 (`AddPortFails`, `AddUnitFails`): `cl_zfcp` then takes both away, the
boot map code returns and leaves them, and since an existing directory is neither added
nor looked into, the next attempt meets the missing disk later. Or there is no directory
(`AddPortRefused`, `AddUnitRefused`): the boot map code returns here too, while the test
in `cl_zfcp` has nothing to compare, is an error, and the script goes on. The failed state
is taken to last until the directory is removed. Copying is two steps, from the test for
the file to the end of `cp`. While a `cl_block` copies through its link, `umount` of what
it is linked to may fail; nobody looks at that.

### Bootmap, BootmapReference

The content of a code block is its number; block pointers are records with the
block, the number of additional blocks and whether the size field is right. The
tables are given as what they contain. `check_blockptr()` looks at the first block
only, so a pointer may run over the end of the disk; `read()` then returns 0 for
ever (`CopyHangs`). The component table in memory is followed by `Garbage`, because
its loop runs over more entries than were read. The result of
`identify_boot_objects()` is dropped, so its failures continue with null pointers.
Any read may fail. `DiskOpen` includes reading the boot record, whose signatures
are checked on SCSI and FBA disks only. `BootmapReference` defines a component
without a walk, for any disk: `Chain` are its segment tables, each linked from the last
used pointer of the one before, `SegmentsOf` what these list, and `Code` the blocks of
all of it. `Chain` goes on for `MaxLoad` + 1 tables, since every table but the last has
a block at least and no more than `MaxLoad` blocks are copied.

## 3. Runs

All cfgs have `CHECK_DEADLOCK FALSE`: the system stops where the new kernel runs,
the process exits or the file ends, and the bounds stop the repeated calls.

| run | bounds | shows |
|---|---|---|
| UiMain | 2 clients, 2 reads per entry, 2 calls, 1 SIGUSR1 each | TypeOK, SelectionIsComplete, NoSurvivors, DefaultNeedsTimeout and the refinement ImplementsSelection |
| UiLive | 2 clients, 1 read, 1 call, no default entry | TimeoutEndsWait, CleanupEnds, DeliveryEndsWait |
| Parser | every kind of statement, limit 2, nesting 3, 1 entry, 3 names, primary and secondary | ActiveMeansAllTrue, TimeoutHasDefault, NoResidue, SecondaryIsPassive, IgnoredTextLeavesNoTrace |
| Startup | include depth 2, 4 configurations, 6 command lines, 3 entries, 1 retry | StartupTypeOK, OpenFilesAreIntact, ConfigIsExpanded, OnlyCutTextsSpoil, LeaseIsOfThisStatement, WaitIsBounded, Settles |
| CompLoad | pipes of 3, reads of 2, output of 4, 6 URIs | ResultIsTheModules, ReadsWhatIsReady, LoadEnds |
| Linemode | menus of 1 and 2 entries, 2 lines of up to 3 characters | LockNeedsPassword, BootsWhatWasTyped, PrintedEntrySurvives, TerminalRestored |
| Devices | 2 System Loaders with 2 uses each, both kinds of disk | RetryWorks, LoadersLeaveNoFailed, LoadersRestoreDasd, MountPointGone, UseIsUndone |
| Loader | 3 attempts, 4 lines, all actions | BootsWhatWasSelected, InsfileBootsItsComponents, NothingLeftBehind |
| Bootmap | 6 blocks, 2 pointers per block, about 3100 disks | EntryInTable, DroppedErrorIsCaught, CopiedIsTheComponent, KexecGetsNamedObjects, CopyEnds |
| UiLostSelection | 2 clients, no timeout | violated: NoSelectionDropped |
| UiLostStop | 1 client, 1 signal | violated: StopIsHonoured |
| ScpFails | parts of up to 2 characters, files of up to 3 units | violated: FetchesTheFile |

Why the bounds are enough. Two clients give every race between the one being
served and another one; two chunks make an entry that arrives in pieces; a second
call meets the alarm, the signal and the timeout of the first. Nesting 3 with a
limit of 2 passes the limit and comes back. One entry gives a missing and a first
label and a number past the end; a second position and duplicate labels are covered
by the theorem `DefaultResolved`. The configurations of `Startup` include each other
and themselves, in active and inactive sections, with and without a last newline,
and deeper than the limit; the command lines have arguments that are whole, cut inside
`mod(...)` and cut behind a comma, and the texts of the entries are whole or cut. One retry shows a first, a repeated and a
last request. Pipes of 3 with an output of 4 fill up while the other one is
being read, and reads of 2 leave a remainder in a full one. Three characters hold a number, a blank and a command in any order, and
a sign; two lines make the second one meet what the first one left. Two uses by two
processes meet every leftover of a first use and every interleaving with another
user. Three attempts allow leftovers, a cleanup and a boot; four lines are one more
than the files an insfile must provide. The disks of `Bootmap` hold every pair of
segment tables over six pointers, which includes empty tables, chains of tables of
one and two blocks, cycles (these end at `MaxLoad` blocks), pointers to tables taken
for code and pointers over the end of the disk, and every component table of up to
three entries.

The runs with a violation show places where the code does not do what the design
document says; the findings in `PROJECT.json` quote both.

* A client that is reaped while another is served is left out of the next wait
  set, and its entry is lost.
* A SIGUSR1 outside `select()` is stored only, and the next SIGALRM overwrites it.
* `cl_scp` expects its arguments in the other order than `comp_load()` passes them;
  and called with its own order it never writes what it has read.

## 4. Fairness

`UiControl`: weak fairness of the parent (`ParentStep`: it is one process and the
scheduler runs it), of the alarm (one that is set expires) and of each client's
own steps (`ClientStep`: executing, dying of SIGKILL, becoming a zombie). Nothing
is assumed about users, about clients writing, exiting or obeying SIGTERM, about
`select()` failing, or about `loader()` coming back. `TimeoutEndsWait` assumes, as
part of the formula, that no alarm was lost between `alarm()` and `select()`: the
code has that window. `DeliveryEndsWait` is for entries of one read (`Chunks = 1`)
and quiet other clients: with longer entries, or with busy ones, the code loses
entries (UiLostSelection).

`CompLoad`: weak fairness of the parent and of the child, two processes that the
scheduler runs; a module writes a finite amount and ends. The alarm need not
fire. `LoadEnds` names the one outcome that is not an end, `Stuck`: after the alarm
has interrupted `select()` the parent waits in `read()` on one pipe while the child
waits for room in the other.

`Startup`: weak fairness of the next step. The parser, and `nb_conf_enable()` that it
calls, are one process; `dhcpcd` is called with a timeout and ends.

`Bootmap`: weak fairness of the next step: it is one process. A copy caught in
`CopyHangs` stays there.

## 5. Proofs

All theorems hold for every value of the constants, under the named assumptions
of the modules (`NAssumption`, `DepthAssumption`, `TextAssumption`, `PipeAssumption`,
`NetConfAssumption`, `JobsAssumption`, ...). Four of these deserve a word.
`ScannerAssumption` says that MAX_INCL_DEPTH (20 in the code) is at most 999, the number
of the configuration's own copy: above that, an include could overwrite it.
`PowerAssumption` states two laws of the powers of two, which the provers do not know,
for the exponents that occur. `MenuAssumption` says that a menu has at least one entry
and its default is one of them, that `lock` and `pause` are flags, and that no boot text is
blank, since the scanner drops the blanks before a text. `LineAssumption` says that a
line is a sequence of characters.

* `UiControlProofs`. `IInv` is `TypeOK` with eight parts. `SelectionIsComplete`
  is not inductive: that a client marked clean has ended with success needs
  `StatusTracksProcess`; that all was written needs `ReadsBounded`; that the
  matching of pid 0 and -1 in `waitpid()` does no harm while waiting needs
  `StartOrder`. `DefaultNeedsTimeout` needs `AlarmMeansTimeout`: outside the window
  in which `alarm()` has been called anew, a pending alarm of an earlier round may
  exist, and only `timer = "off"` before `select()` excludes that it interrupts a
  call whose timeout is stopped. `AllKilled` gives `NoSurvivors`. `OutcomeByPhase`
  ties `retval` to `pc`, and is what the refinement needs: `SelectionRefinement`
  shows each step to be a step of `UiSelection` or a stutter.
* `ConfigParserProofs`. `SectionsInv` says that the counters agree with the
  stack: the first inactive depth is the position of the first false condition, or
  the limit. From it `CountersDecideActivity`; that a section ends with the activity
  around it is the same statement after one more step. `SystemList` and the limit are arbitrary. `ParserInv` contains
  it, the types of what the resolution of the default reads, `NoResidue`,
  `SecondaryIsPassive` and `TimeoutHasDefault`, each preserved by its own step lemma.
  `IgnoredTextIsIgnored` is the action property: with the agreement of the counters, a
  false enclosing condition switches every guard off.
* `LoaderProofs`, component load. `CompLoadInv` has the types and seven parts. `NothingIsLost` needs
  `Accounting` (what was written is in the pipe or collected), `EndsSeen` (a stream
  that was seen to end stays empty, since the child is gone) and `LeavesAtEnd`;
  `BlocksOnlyAfterInterrupt` needs `StaysReady`: between `select()` and `read()` only
  the parent takes units out of a pipe.
* `StartupProofs`. `LeaseFile`: the info file exists only between the end of `dhcpcd`
  and its reading, and then it is of a request of this statement. `WaitByPlace` ties
  what has been waited for to the number of retries: before request r it is at most the
  sum of the doubled timeouts up to r, and r is bounded; `WaitsEnd` is the sum for all.
  `CopyByLevel` says that the i-th open file has the copy number i - 1, which is why an
  include, writing the copy of its own level, overwrites none that is open, even when an
  earlier text was given up inside an include and left its stack. `TypeInv` adds that a
  text has its result as soon as it is not being parsed, and that the depth is the
  number of open sections.
  `ConfigurationsAreExpanded` has two hypotheses. `AsDocumented` is about the files and the
  command line: every line of a file is one statement or a comment, only the last may be
  cut, an include names a file, a file closes the sections it opens and no other, and no
  kernel argument contains the word `include` (the argument `kset=include` would leave the
  scanner in the mode of an include, and the first line of the configuration would be taken
  for a URI). The configurations and command lines of the run are of that kind, which TLC
  checks (`AsDocumentedHere`). `DepthIsWithinLimit` says that fewer than MAX_SYSTEM_DEPTH
  (999) sections are open: at that depth the code takes active text for inactive.
  Includes may nest without end, files may be out of reach, and earlier texts may have been
  cut anywhere. The argument: while the configuration is parsed, its expanded text is what has
  been seen, then what is left of the current file (`Left`), then what is left of each
  including one (`Waiting`), and `log` is what was to be kept of the part that has been seen
  (`Split`). A rule of the scanner moves effects from the second part to the first, an
  include puts a file in front of the rest, the end of a file gives the rest back; the
  lemmas `...Reads` are these, one for each rule. That an include in inactive text may be
  ignored needs that a file which closes its own sections leaves no trace there
  (`FileSkipped`, by counting the sections open after each line), to any depth
  (`IncludesSkipped`). The grammar may be given up at any token; then there is nothing to
  show, and a start condition left over from the kernel arguments makes it refuse the
  configuration for certain (`Misread`). `ArgInv` says that those arguments open no file.
* `DevicesProofs`. `MountByPlace` says for every place in a use what its mount point
  may be; it is local to a process but for the file systems that die when another one
  takes the device away (`KillingStep`), and for a `umount` that another one keeps from
  succeeding, which is why `MountInv` also follows who was alone (`OthersIdle`) and what
  a collision leaves (`Collided`). `DasdHeld` is the argument for
  `DasdIsRestored`: a DASD that was offline and is online is held by some `cl_dasd`
  that will set it offline, and one that was online has been claimed by nobody.
  `UseInv` is about jobs that run alone: what is set up at each place (`Found`,
  `Mounted`), why such a job can have failed (`Explained`) and what it has removed
  (`Removed`). The other processes matter in two ways only: they are idle
  (`OthersIdle`), and the mount points they have left stay (`LeftStays`). From it
  `RetriesWork` and the action property `UsesAreUndone`. `RetryWorks` names the two
  leftovers that do stop a later job: another mount, which `cl_block` looks for, and a
  WWPN or LUN in the failed state. `LoadersRemoveWhatFailed` says who can leave the
  latter: without boot attempts, as long as something is in the failed state, a `cl_zfcp`
  is on its way to remove it (`FailedHeld`). That one cannot leave by the exit without
  cleanup, since a file system is mounted only while the disk is attached, and then
  nothing is in the failed state; nor can its removal be refused, since nothing is mounted.
* `LoaderProofs`. `WayInv` follows every process to its cleanup: a process that comes
  back from a kernel or insfile boot has removed all the files, whoever fetched them, so
  that `FailedBootsCleanUp` holds for any number of them. `SelectionIsBooted` and
  `InsfileBootsItsOwn` are about one System Loader (`Procs = {p}`), since two share
  their files; `FetchedOrPending` says of each file whether it is of this attempt or
  still to be fetched, `InsfileFiles` that nothing but a boot map leaves files behind.
* `BootmapProofs`. `WalkInv` says that the table in memory is readable and that `entry`
  is in it before every step of the copy, and before the end of a segment is looked for
  even the entry after it; that a pointer of a readable table is one of a block of the
  disk is arithmetic about the blocks of a table (`BlockOfPointer`). `KernelByPlace`
  says where on the way the kernel's pointer can no longer be null.
  `ComponentIsCopied` compares a walk with a definition. `CopyByPlace` says what the
  buffer holds at every step: there are tables in front of the current one that lead
  to it from the component's pointer (`IsPath`), and the buffer is the code of these and
  of the first `entry` pointers of the current one (`CopiedUpTo`). `SegmentCopied`
  and `TableCopied` are its two steps, with `CodeGrows` and `SegmentsGrow` for what one more
  segment or table adds to the definition; at the null pointer the path is the whole
  chain (`PathIsChain`). That each table in front has added a block bounds the path by
  `MaxLoad`.
  `NamedObjectsAreBooted` needs three parts (`ObjectsInv`): `NamesByPlace`, that the
  component table in memory is the one of the disk with something behind it, that the
  loader being copied is the component before the first executable one, and that the
  boot objects are those it names; `RootByPlace`, that what is copied is one of these;
  and `LoadedByPlace`, what has been written by the time the next one is copied. If
  there is a stage 3 loader on the disk, the search ends before the end of the table
  (`BeforeStage3`), so that what lies behind it does not matter.
* `LinemodeProofs`. `LockInv`: a line that selects a locked entry is authorised at every
  place behind the password prompt, and the authorisation goes with the next line.
  `EchoByPlace` gives the state of the terminal at every place, with the two steps of
  `SetTerminal`.
  `PrintedSurvives` has two halves: an entry with one boot method comes back from
  printing and parsing as it was, whatever its texts (`OneMethodSurvives`; the options
  are read in the order they are printed, and only the one method sets the action), and
  at every place of the modification the texts gone through have no blanks
  (`NoBlankTexts`).
  `TypedIsBooted` needs that the client's entries are those of the System Loader and that
  the entry selected is the one `compute_selection()` makes of the line (`DialogueInv`).
  What that function does with a line is compared with what the line says at a glance:
  for one group of digits and one letter at most, the scan over blanks, digits and blanks
  ends at the letter or at the end (`CommandIsLetter`), and the digits it took are
  all there are (`GlanceAtNumber`, `SameNumber`).
* `DataInduction`. The induction theorems of the library take an operator as parameter,
  which the provers cannot instantiate. Here the statement is a set of naturals instead
  (`IntervalInduction`), and a recursion is given by a function for its step
  (`IntervalRecursion`); both come from the least element of a set of naturals
  (`LeastNatural`). What the recursive functions of the models compute (`Only`, `Number`,
  `Reparsed`, `Chain`, `AllEffects`, `Sifted`, `IncludedAt`) is proved with them for every
  input.

Model-checked only:

* the liveness properties `TimeoutEndsWait`, `CleanupEnds`, `DeliveryEndsWait`, `LoadEnds`,
  `Settles` and `CopyEnds`, which need fairness and ENABLED;
* `OnlyCutTextsSpoil`: which texts are whole is given by a constant, and what makes a text
  whole is a property of all its lines, of the grammar and of the files it includes.

## 6. What the models leave out

* Texts, messages, formatting and logging. Allocation, and overflow of sizes.
* The voting of `identify_file()`, `prefix_root()` and the text of the command
  line. The block arithmetic of the disk types: a pointer has a block number.
* The array that `get_component_table()` allocates: it is sized by block pointers and
  filled with larger entries. What is read behind the table is modelled (`Garbage`), what
  is overwritten behind it is not. `CopyEnds` is about well formed components, and not
  about pointers that run over the end of the disk, where the code may hang.
* Other disks than the one in use: when `cl_zfcp` finds no SCSI device, its cleanup
  deletes the last one of the list.
* Descriptors: the read ends of the pipes are never closed in the code.
* The length of times: an alarm that is set may fire at any moment.
* Not modelled at all: `cl_file`, `cl_ftp` and `cl_http` (one command each), what the
  setup scripts write to sysfs, the start of sshd, the init and kexec scripts, the
  administration tool, debug output and the halt helper. They are straight line
  scripts or I/O without a state that another part depends on.

Behaviour of the code that the models contain and no run of its own is about:

* user interface control: an early SIGUSR1, before the handlers are installed, ends
  the System Loader; without a timeout the parent waits for ever once all clients
  have ended; a pending boot alarm shortens the grace period; after a failed `fork()`
  the cleanup signals every process; a child whose `execl()` failed signals its elder
  siblings;
* grammar: `uuid(...)` never matches; an ignored timeout statement sets the timeout to
  0; an entry with several boot methods changes its action when it is printed, and
  one with only `pause` or `lock` is rejected;
* start-up: half a `mod(...)` argument makes the scanner refuse everything after it; a
  lease without a name server ends the program;
* line mode: at the end of the input the line before is taken once more without its
  last character; modifying an insfile or boot map entry ends the client; a closed
  terminal makes the password prompt repeat until a signal comes;
* component load: after a failed `fork()` the status of another child may be taken, so
  that a file counts as fetched that never was (`Loader` has `comp_load()` succeed only
  when the file was fetched);
  a name with "@" written as "%40", as the documents ask for, stays as it is in
  `cl_scp`, and a path with "@" but without a name is taken for a name;
* loader: an insfile that names no initrd or parmfile boots with those a failed boot
  map attempt left; two System Loaders use the same file names, so that
  `BootsWhatWasSelected` and `InsfileBootsItsComponents` hold for one only (the run has
  one);
* devices: a device stays online, with its node, when the disk cannot be opened;
  `cl_zfcp` leaves all as it is when there is no such file; `cl_block` leaves its
  directory when the mount fails; boot map code and `cl_zfcp` take a device away that
  another one uses; a boot attempt leaves a WWPN or LUN in the failed state, at which the
  boot attempts after it fail until `cl_zfcp`, or a removal, has taken it away; a `umount`
  that fails because another `cl_block` is copying leaves the file system mounted after
  the job, also after one that ended well.

## 7. Plan

Done: user interface control with its contract; system sections; grammar; entry
exchange; loader; boot map reader; component load; devices; scanner, network and
start-up; line mode; `cl_scp`; the proofs of section 5.

Left open:

1. Proofs: for `Startup`, at which tokens a text can end with another start condition than
   `INITIAL`, which would turn `Whole` into a definition and make `OnlyCutTextsSpoil`
   provable. `ConfigurationsAreExpanded` for configurations with several statements on a
   line, which needs a definition of their effects by lexeme instead of by line.
2. The composition of `UiControl` with `Loader` for the primary and one secondary
   System Loader.
