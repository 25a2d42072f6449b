------------------------------ MODULE Startup -------------------------------
(***************************************************************************)
(* The texts a System Loader parses, one after the other, with the same    *)
(* scanner: the kernel arguments (parse_kernel_cmdline()), then the        *)
(* configuration (parse_sysload()), then the boot entries its clients send *)
(* (parse_sysload_boot_entry(), core/parser_sysload.c).  Network           *)
(* statements set up the network while the parser waits.                   *)
(***************************************************************************)
EXTENDS Scanner, Network, FiniteSets

CONSTANTS
  Cmdlines,   \* kernel command lines: sequences of the pieces fgets() reads, a piece is
              \* a sequence of arguments
  Mains,      \* URIs of configurations
  Entries,    \* texts that clients send
  Whole,      \* texts that are as they were written, not cut off somewhere
  MaxEntries  \* bound: boot entries received

VARIABLES
  main,     \* the URI of the configuration
  cmdline,  \* the arguments left
  phase,    \* "arguments", "config", "entries", "ended"
  texts     \* history: the texts parsed

startVars == <<scanVars, netVars, main, cmdline, phase, texts>>

IsKset(arg) == arg[1].items # <<>> /\ arg[1].items[1] = "kset="
IsKnet(arg) == arg[1].items # <<>> /\ arg[1].items[1] = "knet="

\* In every piece all kset= arguments come first.
InOrder(pieces) ==
  LET order[n \in 0..Len(pieces)] ==
        IF n = 0 THEN <<>>
        ELSE order[n - 1] \o SelectSeq(pieces[n], IsKset) \o SelectSeq(pieces[n], IsKnet)
  IN order[Len(pieces)]

StartupInit ==
  /\ ScannerInit /\ NetworkInit
  /\ main \in Mains
  /\ \E pieces \in Cmdlines : cmdline = InOrder(pieces)
  /\ phase = "arguments" /\ texts = <<>>

Begin(text) == Parse(text) /\ texts' = Append(texts, text) /\ UNCHANGED <<netVars, main>>

ParseKernelArgument ==
  /\ phase = "arguments" /\ cmdline # <<>>
  /\ Begin(Head(cmdline))
  /\ cmdline' = Tail(cmdline)
  /\ UNCHANGED <<temp, phase>>

\* parser_open_incl_uri(), then parse_global()
ParseSysload ==
  /\ phase = "arguments" /\ cmdline = <<>> /\ Fetched(main)
  /\ Begin(Content[main])
  /\ temp' = [temp EXCEPT ![MainFile] = main]
  /\ phase' = "config"
  /\ UNCHANGED cmdline

\* A blank configuration has neither clients nor a timeout: the System Loader ends.
NoConfiguration ==
  /\ phase = "arguments" /\ cmdline = <<>> /\ busy = "none" /\ ~Fetched(main)
  /\ phase' = "ended"
  /\ UNCHANGED <<scanVars, netVars, main, cmdline, texts>>

Rejected ==
  /\ phase = "config" /\ busy = "none" /\ ~accepted[Len(accepted)]
  /\ phase' = "ended"
  /\ UNCHANGED <<scanVars, netVars, main, cmdline, texts>>

Ready ==
  /\ phase = "config" /\ busy = "none" /\ accepted[Len(accepted)]
  /\ phase' = "entries"
  /\ UNCHANGED <<scanVars, netVars, main, cmdline, texts>>

Received == Len(SelectSeq(texts, LAMBDA t : t \in Entries))

ParseSysloadBootEntry ==
  /\ phase = "entries" /\ Received < MaxEntries
  /\ \E text \in Entries : Begin(text)
  /\ UNCHANGED <<temp, cmdline, phase>>

Scan ==
  /\ ScanNext
  /\ UNCHANGED <<netVars, main, cmdline, phase, texts>>

EnableNetwork ==
  /\ busy = "net" /\ \E conf \in NetConfs : NbConfEnable(conf)
  /\ busy' = "waiting"
  /\ UNCHANGED <<mode, buffer, stack, temp, gone, expects, log, accepted, sectionVars,
                 main, cmdline, phase, texts>>

Wait ==
  /\ NetStep
  /\ UNCHANGED <<scanVars, main, cmdline, phase, texts>>

NetworkEnabled ==
  /\ busy = "waiting" /\ Ifconfig
  /\ busy' = "scan"
  /\ UNCHANGED <<mode, buffer, stack, temp, gone, expects, log, accepted, sectionVars,
                 main, cmdline, phase, texts>>

StartupNext ==
  \/ ParseKernelArgument \/ ParseSysload \/ NoConfiguration \/ Rejected \/ Ready
  \/ ParseSysloadBootEntry \/ Scan \/ EnableNetwork \/ Wait \/ NetworkEnabled

\* Fairness: one process that goes on whenever it can; dhcpcd ends after its timeout.
StartupSpec == StartupInit /\ [][StartupNext]_startVars /\ WF_startVars(StartupNext)
-----------------------------------------------------------------------------
(* Properties *)

\* The variables keep their types, the include stack its limit and the depth of sections
\* its meaning, and every text that was begun and is not being parsed has its result.
StartupTypeOK ==
  /\ conds \in Seq(BOOLEAN) /\ system_depth = Len(conds)
  /\ system_first_inactive \in 1..MaxSystemDepth
  /\ mode \in {"INITIAL", "STRMODE", "INCLUDEMODE", "MODMODE"}
  /\ top <= MaxInclDepth
  /\ busy \in {"none", "scan", "net", "waiting"} /\ (busy # "waiting" => netpc \in {"off"})
  /\ expects \in {"begin", "params", "knet", "done", "more", "mod", "named", "text", "list"}
  /\ netpc \in {"off", "dhcp", "info", "resolv", "check", "dead"}
  /\ Len(accepted) = Len(texts) - (IF busy = "none" THEN 0 ELSE 1)

\* While a file is read, and while the files it includes are, its copy is not written
\* again: the copies of all files on the include stack are still those of their URIs
\* (the names made from URI_TEMP_FILENAME in sysload.conf.l and parser_open_incl_uri).
OpenFilesAreIntact ==
  phase = "config" =>
    /\ temp[MainFile] = main
    /\ \A i \in 1..top : temp[stack[i].file] = stack[i].uri

(* What a configuration means: its files put one into the other, down to the limit *)

\* The effects of the lines of a text; a line that is cut loses its text, or its include
Effects(line, included) ==
  LET first == line.items[1]
      rest == Tail(line.items)
  IN IF first = "key" THEN << <<"STRING", IF line.nl THEN rest ELSE <<>> >> >>
     ELSE IF first = "include" THEN IF line.nl THEN included[rest[1]] ELSE <<>>
     ELSE IF first = "#" THEN <<>> ELSE << <<first, <<first>> >> >>

AllEffects(text, included) ==
  LET upTo[n \in 0..Len(text)] ==
        IF n = 0 THEN <<>> ELSE upTo[n - 1] \o Effects(text[n], included)
  IN upTo[Len(text)]

\* What the statement "include uri" stands for: with included for those in the file, and
\* where the files in unreachable cannot be fetched
Inclusion(included, unreachable) ==
  [uri \in DOMAIN Content |->
     << <<"fetch", <<uri>> >> >>
     \o (IF uri \in unreachable THEN <<>> ELSE AllEffects(Content[uri], included))]

\* The same where n more levels may be included
IncludedAt(unreachable) ==
  LET level[n \in 0..MaxInclDepth] ==
        IF n = 0 THEN [uri \in DOMAIN Content |-> <<>>]
        ELSE Inclusion(level[n - 1], unreachable)
  IN level

Expanded(uri, unreachable) ==
  AllEffects(Content[uri], IncludedAt(unreachable)[MaxInclDepth])

\* An effect is kept while no section is open whose condition does not hold.
Sift(was, effect) ==
  LET e == effect[1]
  IN IF e = "no{" \/ (e = "yes{" /\ was.off > 0) THEN [was EXCEPT !.off = @ + 1]
     ELSE IF e = "}" /\ was.off > 0 THEN [was EXCEPT !.off = @ - 1]
     ELSE IF was.off > 0 \/ e \in {"yes{", "}"} THEN was
     ELSE [was EXCEPT !.kept = Append(@, effect)]

Sifted(effects) ==
  LET upTo[n \in 0..Len(effects)] ==
        IF n = 0 THEN [off |-> 0, kept |-> <<>>] ELSE Sift(upTo[n - 1], effects[n])
  IN upTo[Len(effects)]

\* What is left when everything in a section whose condition does not hold is dropped
Holding(effects) == Sifted(effects).kept

\* An accepted configuration has had the effects, in this order, of the text that results
\* when all its includes are replaced by what they name, down to the limit of nesting,
\* and all inactive sections are dropped: nothing is read twice or left out at the end
\* of a file, nothing is fetched for inactive text, and a statement before an include
\* has had its effect before the file is fetched (sysload.conf.l, parser_active_system).
ConfigIsExpanded ==
  phase = "config" /\ busy = "none" /\ accepted[Len(accepted)] =>
    log = Holding(Expanded(main, gone))

(* How configurations and kernel arguments are written *)

Lexemes == STRING
Lines == [items : Seq(Lexemes), nl : BOOLEAN]

\* A line is one statement, or a comment; an include names a file.
OneStatement(line) ==
  /\ line \in Lines /\ line.items # <<>>
  /\ LET first == line.items[1]
     IN \/ first \in {"key", "#"}
        \/ /\ first = "include"
           /\ line.nl => Len(line.items) > 1 /\ line.items[2] \in DOMAIN Content
        \/ first \in {"word", "net", "yes{", "no{", "}"} /\ Len(line.items) = 1

\* Only the last line may be cut.
OneStatementPerLine(text) ==
  /\ text \in Seq(Lines)
  /\ \A i \in 1..Len(text) : OneStatement(text[i]) /\ (text[i].nl \/ i = Len(text))

Opens(line) == line.items[1] \in {"yes{", "no{"}
Closes(line) == line.items[1] = "}"

\* The sections that the first n lines of a text have opened and not closed
OpenAfter(text, n) ==
  Cardinality({i \in 1..n : Opens(text[i])}) - Cardinality({i \in 1..n : Closes(text[i])})

\* A file closes the sections it opens, and no other.
ClosesItsSections(text) ==
  /\ \A n \in 0..Len(text) : OpenAfter(text, n) >= 0
  /\ OpenAfter(text, Len(text)) = 0

\* Kernel arguments include no file.
Arguments == {text \in Seq(Lines) : \A i \in 1..Len(text) :
               \A j \in 1..Len(text[i].items) : text[i].items[j] # "include"}

AsDocumented ==
  /\ DOMAIN Content \subseteq Lexemes \ {""}
  /\ \A uri \in DOMAIN Content : OneStatementPerLine(Content[uri]) /\ ClosesItsSections(Content[uri])
  /\ \A pieces \in Cmdlines : InOrder(pieces) \in Seq(Arguments)

\* A text that is whole is refused only if one before it was cut off, and then all in
\* between were refused too; among boot entries only the very next one is lost.  The
\* start condition is what the texts share (yy_scan_string and yyrestart in
\* parser_sysload.c keep it).
OnlyCutTextsSpoil ==
  \A k \in 1..Len(accepted) :
    ~accepted[k] /\ texts[k] \in Whole =>
      \E j \in 1..(k - 1) : /\ texts[j] \notin Whole
                            /\ \A i \in (j + 1)..(k - 1) : ~accepted[i]
                            /\ texts[k] \in Entries => j = k - 1

\* Parsing ends whatever includes what, files that include themselves among them, and
\* however many requests for a lease fail: the System Loader gets to its user interface
\* or ends, unless a lease without a name server makes it crash.
Settles == <>(phase \in {"entries", "ended"} \/ netpc = "dead")
=============================================================================
