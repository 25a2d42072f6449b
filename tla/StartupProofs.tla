--------------------------- MODULE StartupProofs ----------------------------
(***************************************************************************)
(* The start-up, for every configuration, command line and answer of the   *)
(* network: leases and how long they are waited for, the copies of the     *)
(* files being read, the types, and, for configurations written as they    *)
(* are documented, that what is accepted has been expanded.                *)
(***************************************************************************)
EXTENDS Startup, SequenceTheorems, FiniteSetTheorems, DataInduction, TLAPS

\* The file with a lease exists only between the end of dhcpcd and its reading, and then
\* it is of a request of this statement.
LeaseFile ==
  /\ requests \in Nat /\ before \in Nat /\ before <= requests /\ info \in Nat
  /\ netconf \in [mode : {"dhcp", "static"}, address : Int, nameserver : Int]
  /\ netpc # "info" => info = Missing
  /\ info # Missing => before < info /\ info <= requests

LeaseInv == LeaseFile /\ LeaseIsOfThisStatement

-----------------------------------------------------------------------------
\* No lease has been requested at the beginning.
LEMMA LeaseStarts == StartupInit => LeaseInv
  BY DEF StartupInit, NetworkInit, LeaseInv, LeaseFile, LeaseIsOfThisStatement, Blank,
     Missing

\* Every step of nb_conf_enable() and of dhcpcd() keeps the lease with its statement.
LEMMA NetworkLease ==
  ASSUME LeaseInv, NetStep \/ Ifconfig \/ (\E conf \in NetConfs : NbConfEnable(conf))
  PROVE  LeaseInv'
<1> USE DEF LeaseInv, LeaseFile, LeaseIsOfThisStatement, Missing
<1>1. ASSUME NEW conf \in NetConfs, NbConfEnable(conf) PROVE LeaseInv'
  <2>1. conf \in [mode : {"dhcp", "static"}, address : {0, -1}, nameserver : {0, -1}]
    BY NetConfAssumption DEF Given
  <2> QED
    BY <1>1, <2>1 DEF NbConfEnable
<1>2. ASSUME NEW wrote \in BOOLEAN, DhcpcdEnds(wrote) PROVE LeaseInv'
  BY <1>2 DEF DhcpcdEnds
<1>3. CASE DhcpcdFails
  BY <1>3 DEF DhcpcdFails, NoLease
<1>4. CASE NoInfo
  BY <1>4 DEF NoInfo, NoLease
<1>5. CASE ReadInfo
  <2>1. info' = Missing /\ netpc' = "resolv" /\ UNCHANGED <<requests, before>>
    BY <1>5 DEF ReadInfo, AfterReading
  <2>2. /\ netconf' \in [mode : {"dhcp", "static"}, address : Int, nameserver : Int]
        /\ netconf'.address = info /\ netconf'.nameserver = info
    BY <1>5 DEF ReadInfo
  <2>3. info # Missing
    BY <1>5 DEF ReadInfo
  <2> QED
    BY <2>1, <2>2, <2>3
<1>6. CASE IncompleteLease
  BY <1>6 DEF IncompleteLease, AfterReading
<1>7. CASE Resolvconf
  BY <1>7 DEF Resolvconf
<1>8. CASE Ifconfig
  BY <1>8 DEF Ifconfig, Blank
<1> QED
  BY <1>1, <1>2, <1>3, <1>4, <1>5, <1>6, <1>7, <1>8 DEF NetStep

\* The scanner and the main program leave the network alone.
LEMMA OthersLeaveNetwork ==
  ASSUME \/ ParseKernelArgument \/ ParseSysload \/ NoConfiguration \/ Rejected \/ Ready
         \/ ParseSysloadBootEntry \/ Scan \/ UNCHANGED startVars
  PROVE  UNCHANGED netVars
<1>1. ParseKernelArgument \/ ParseSysload \/ ParseSysloadBootEntry => UNCHANGED netVars
  BY DEF ParseKernelArgument, ParseSysload, ParseSysloadBootEntry, Begin
<1>2. NoConfiguration \/ Rejected \/ Ready \/ Scan => UNCHANGED netVars
  BY DEF NoConfiguration, Rejected, Ready, Scan
<1>3. UNCHANGED startVars => UNCHANGED netVars
  BY DEF startVars
<1> QED
  BY <1>1, <1>2, <1>3

\* A lease stays with its statement whatever step is taken.
LEMMA LeaseStep == LeaseInv /\ [StartupNext]_startVars => LeaseInv'
<1> SUFFICES ASSUME LeaseInv, [StartupNext]_startVars PROVE LeaseInv'
  OBVIOUS
<1>1. CASE EnableNetwork \/ Wait \/ NetworkEnabled
  BY <1>1, NetworkLease DEF EnableNetwork, Wait, NetworkEnabled
<1>2. CASE UNCHANGED netVars
  BY <1>2 DEF netVars, LeaseInv, LeaseFile, LeaseIsOfThisStatement
<1> QED
  BY <1>1, <1>2, OthersLeaveNetwork DEF StartupNext

-----------------------------------------------------------------------------
\* No address and no name server of an earlier statement's lease is ever used.
THEOREM LeasesAreNotMixedUp == StartupSpec => []LeaseIsOfThisStatement
<1>1. LeaseInv => LeaseIsOfThisStatement
  BY DEF LeaseInv
<1> QED
  BY LeaseStarts, LeaseStep, <1>1, PTL DEF StartupSpec

-----------------------------------------------------------------------------
(* How long a statement waits for its lease *)

\* What the requests so far can have waited for, by the place and the number of retries
WaitByPlace ==
  /\ waited \in Nat
  /\ netpc \in {"dhcp", "info"} =>
       retries \in 0..MaxRetries /\ timeout = FirstTimeout * PowerOfTwo(retries)
  /\ netpc = "dhcp" => waited <= FirstTimeout * (PowerOfTwo(retries) - 1)
  /\ netpc = "info" => waited <= FirstTimeout * (PowerOfTwo(retries + 1) - 1)

WaitInv == WaitByPlace /\ WaitIsBounded

\* The laws of the powers of two at a number of retries
LEMMA Powers ==
  ASSUME NEW r \in 0..MaxRetries
  PROVE  /\ PowerOfTwo(r) \in Nat /\ PowerOfTwo(r + 1) \in Nat /\ PowerOfTwo(MaxRetries + 1) \in Nat
         /\ FirstTimeout * PowerOfTwo(r) \in Nat
         /\ FirstTimeout * (PowerOfTwo(r + 1) - 1)
              = FirstTimeout * (PowerOfTwo(r) - 1) + FirstTimeout * PowerOfTwo(r)
         /\ FirstTimeout * PowerOfTwo(r + 1) = FirstTimeout * PowerOfTwo(r) * 2
         /\ FirstTimeout * (PowerOfTwo(r + 1) - 1) <= FirstTimeout * (PowerOfTwo(MaxRetries + 1) - 1)
<1>1. PowerOfTwo(r) \in Nat /\ PowerOfTwo(r + 1) = 2 * PowerOfTwo(r)
  BY PowerAssumption, DhcpAssumption
<1>2. PowerOfTwo(MaxRetries) \in Nat /\ PowerOfTwo(MaxRetries + 1) = 2 * PowerOfTwo(MaxRetries)
  BY PowerAssumption, DhcpAssumption
<1>3. PowerOfTwo(r + 1) <= PowerOfTwo(MaxRetries + 1)
  BY PowerAssumption, DhcpAssumption
<1> QED
  BY <1>1, <1>2, <1>3, DhcpAssumption

\* Nothing has been waited for at the beginning.
LEMMA WaitStarts == StartupInit => WaitInv
<1>1. 0 <= FirstTimeout * (PowerOfTwo(MaxRetries + 1) - 1)
  <2>1. 0 \in 0..MaxRetries
    BY DhcpAssumption
  <2>2. PowerOfTwo(0) = 1 /\ PowerOfTwo(0 + 1) = 2
    BY PowerAssumption, DhcpAssumption
  <2> QED
    BY <2>1, <2>2, Powers, DhcpAssumption
<1> QED
  BY <1>1 DEF StartupInit, NetworkInit, WaitInv, WaitByPlace, WaitIsBounded

\* A request waits for no longer than its timeout, and the next one has twice that.
LEMMA NetworkWait ==
  ASSUME WaitInv, NetStep \/ Ifconfig \/ (\E conf \in NetConfs : NbConfEnable(conf))
  PROVE  WaitInv'
<1> USE DEF WaitInv, WaitByPlace
<1>1. ASSUME NEW conf \in NetConfs, NbConfEnable(conf) PROVE WaitInv'
  <2>1. waited' = 0 /\ retries' = 0 /\ timeout' = FirstTimeout /\ netpc' \in {"dhcp", "resolv"}
    BY <1>1 DEF NbConfEnable
  <2>2. 0 \in 0..MaxRetries
    BY DhcpAssumption
  <2>3. PowerOfTwo(0) = 1 /\ PowerOfTwo(0 + 1) = 2
    BY PowerAssumption, DhcpAssumption
  <2>4. 0 <= FirstTimeout * (PowerOfTwo(MaxRetries + 1) - 1)
    BY <2>2, <2>3, Powers, DhcpAssumption
  <2> QED
    BY <2>1, <2>2, <2>3, <2>4, DhcpAssumption DEF WaitIsBounded
<1>2. ASSUME NEW r \in 0..MaxRetries, retries = r, NEW w \in Nat,
             waited = w \/ w = waited + timeout, netpc = "dhcp"
      PROVE  /\ w <= FirstTimeout * (PowerOfTwo(r + 1) - 1)
             /\ w <= FirstTimeout * (PowerOfTwo(MaxRetries + 1) - 1)
  BY <1>2, Powers, DhcpAssumption
<1>3. ASSUME netpc \in {"dhcp", "info"}, NoLease, waited' \in Nat,
             waited' <= FirstTimeout * (PowerOfTwo(retries + 1) - 1),
             waited' <= FirstTimeout * (PowerOfTwo(MaxRetries + 1) - 1)
      PROVE  WaitInv'
  <2>1. retries \in 0..MaxRetries /\ timeout = FirstTimeout * PowerOfTwo(retries)
    BY <1>3
  <2>2. retries' = retries + 1 /\ timeout' = FirstTimeout * PowerOfTwo(retries')
    BY <1>3, <2>1, Powers, DhcpAssumption DEF NoLease
  <2>3. netpc' = "dhcp" => retries' \in 0..MaxRetries
    BY <1>3, <2>1, DhcpAssumption DEF NoLease, MayRetry
  <2>4. netpc' \in {"dhcp", "resolv"}
    BY <1>3 DEF NoLease
  <2> QED
    BY <1>3, <2>2, <2>3, <2>4 DEF WaitIsBounded
<1>4. netpc \in {"dhcp", "info"} => timeout \in Nat /\ retries \in 0..MaxRetries
  BY Powers
<1>5. ASSUME NEW wrote \in BOOLEAN, DhcpcdEnds(wrote) PROVE WaitInv'
  <2>1. netpc' = "info" /\ netpc = "dhcp" /\ UNCHANGED <<timeout, retries>>
    BY <1>5 DEF DhcpcdEnds
  <2>2. waited' \in Nat /\ (waited' = waited \/ waited' = waited + timeout)
    BY <1>4, <1>5, <2>1 DEF DhcpcdEnds
  <2> QED
    BY <1>2, <1>4, <2>1, <2>2 DEF WaitIsBounded
<1>6. CASE DhcpcdFails
  <2>1. netpc = "dhcp" /\ waited' \in Nat /\ waited' = waited + timeout
    BY <1>4, <1>6 DEF DhcpcdFails
  <2> QED
    BY <1>2, <1>3, <1>4, <1>6, <2>1 DEF DhcpcdFails
<1>7. CASE NoInfo
  BY <1>3, <1>7 DEF NoInfo, WaitIsBounded
<1>8. CASE ReadInfo \/ IncompleteLease \/ Resolvconf \/ Ifconfig
  <2>1. waited' = waited /\ netpc' \notin {"dhcp", "info"}
    BY <1>8 DEF ReadInfo, IncompleteLease, Resolvconf, Ifconfig
  <2> QED
    BY <2>1 DEF WaitIsBounded
<1> QED
  BY <1>1, <1>5, <1>6, <1>7, <1>8 DEF NetStep

\* The scanner and the main program do not wait.
LEMMA WaitStep == WaitInv /\ [StartupNext]_startVars => WaitInv'
<1> SUFFICES ASSUME WaitInv, [StartupNext]_startVars PROVE WaitInv'
  OBVIOUS
<1>1. CASE EnableNetwork \/ Wait \/ NetworkEnabled
  BY <1>1, NetworkWait DEF EnableNetwork, Wait, NetworkEnabled
<1>2. CASE UNCHANGED netVars
  BY <1>2 DEF netVars, WaitInv, WaitByPlace, WaitIsBounded
<1> QED
  BY <1>1, <1>2, OthersLeaveNetwork DEF StartupNext

\* However many requests fail, a network statement keeps the start-up no longer than the
\* doubled timeouts of MAX_RETRIES + 1 requests, for every number of retries and every
\* first timeout.
THEOREM WaitsEnd == StartupSpec => []WaitIsBounded
<1>1. WaitInv => WaitIsBounded
  BY DEF WaitInv
<1> QED
  BY WaitStarts, WaitStep, <1>1, PTL DEF StartupSpec

-----------------------------------------------------------------------------
(* The copies of the files that are being read *)

Copies == 0..(MaxInclDepth - 1) \cup {MainFile}

\* Every open file has the copy with the number of its level.
CopyByLevel ==
  /\ DOMAIN temp = Copies /\ top \in 0..MaxInclDepth
  /\ \A i \in 1..top : stack[i].file = i - 1 /\ temp[i - 1] = stack[i].uri
  /\ phase = "config" => temp[MainFile] = main

FilesInv == (\E S : stack \in Seq(S)) /\ CopyByLevel

\* No file is open at the beginning.
LEMMA FilesStart == StartupInit => FilesInv
<1> SUFFICES ASSUME StartupInit PROVE FilesInv
  OBVIOUS
<1>1. stack = <<>> /\ phase = "arguments" /\ temp = [n \in Copies |-> "none"]
  BY DEF StartupInit, ScannerInit, Copies
<1>2. stack \in Seq({})
  BY <1>1
<1> QED
  BY <1>1, <1>2, ScannerAssumption DEF FilesInv, CopyByLevel, top, MainFile

\* Only an include and the end of an included file change the open files.
LEMMA OtherRules ==
  ASSUME ScanNext, ~Include, ~EofInclude
  PROVE  UNCHANGED <<stack, temp>>
<1>1. ASSUME NEW cond \in BOOLEAN, OpenSection(cond) PROVE UNCHANGED <<stack, temp>>
  BY <1>1 DEF OpenSection
<1>2. CloseSection \/ Lexeme \/ RestOfLine \/ EchoRest => UNCHANGED <<stack, temp>>
  BY DEF CloseSection, Lexeme, RestOfLine, EchoRest
<1>3. Comment \/ ModLexeme \/ Newline \/ Eof => UNCHANGED <<stack, temp>>
  BY DEF Comment, ModLexeme, Newline, Eof
<1> QED
  BY <1>1, <1>2, <1>3 DEF ScanNext

\* An include writes the copy of its own level only.
LEMMA IncludeFiles ==
  ASSUME FilesInv, Include, UNCHANGED <<phase, main>>
  PROVE  FilesInv'
<1>1. PICK S : stack \in Seq(S)
  BY DEF FilesInv
<1>2. CASE UNCHANGED <<stack, temp>>
  BY <1>2 DEF FilesInv, CopyByLevel, top
<1>3. ASSUME NEW e, e.file = top, stack' = Append(stack, e), temp' = [temp EXCEPT ![top] = e.uri],
             ~Ignored
      PROVE  FilesInv'
  <2>1. stack' \in Seq(S \cup {e}) /\ Len(stack') = top + 1
    BY <1>1, <1>3 DEF top
  <2>2. /\ \A i \in 1..top : stack'[i] = stack[i]
        /\ stack'[top + 1] = e
    BY <1>1, <1>3 DEF top
  <2>3. top \in 0..(MaxInclDepth - 1) /\ top # MainFile /\ MaxInclDepth \in Nat
    <3>1. ~(top >= MaxInclDepth)
      BY <1>3 DEF Ignored
    <3>2. MaxInclDepth \in 1..999 /\ top \in 0..MaxInclDepth
      BY ScannerAssumption DEF FilesInv, CopyByLevel, MainFile
    <3> QED
      BY <3>1, <3>2 DEF MainFile
  <2>4. DOMAIN temp' = Copies /\ \A n \in Copies : temp'[n] = IF n = top THEN e.uri ELSE temp[n]
    BY <1>3 DEF FilesInv, CopyByLevel
  <2>5. \A i \in 1..(top + 1) : stack'[i].file = i - 1 /\ temp'[i - 1] = stack'[i].uri
    BY <1>3, <2>2, <2>3, <2>4 DEF FilesInv, CopyByLevel, Copies
  <2>6. temp'[MainFile] = temp[MainFile]
    BY <2>3, <2>4 DEF Copies
  <2>7. top' = top + 1
    BY <2>1 DEF top
  <2> QED
    BY <2>1, <2>3, <2>4, <2>5, <2>6, <2>7 DEF FilesInv, CopyByLevel
<1>4. ASSUME ~UNCHANGED <<stack, temp>>
      PROVE  ~Ignored /\ \E e : e.file = top /\ stack' = Append(stack, e)
                                /\ temp' = [temp EXCEPT ![top] = e.uri]
  <2>1. /\ ~Ignored
        /\ temp' = [temp EXCEPT ![top] = Uri]
        /\ stack' = Append(stack, [rest |-> Matched(Len(Items)), uri |-> Uri, file |-> top])
    BY <1>4 DEF Include, LocalName
  <2> DEFINE e == [rest |-> Matched(Len(Items)), uri |-> Uri, file |-> top]
  <2>2. e.file = top /\ e.uri = Uri
    OBVIOUS
  <2> QED
    BY <2>1, <2>2
<1> QED
  BY <1>2, <1>3, <1>4

\* What is left of a sequence when its last element is removed
LEMMA Popped ==
  ASSUME NEW S, NEW s \in Seq(S), Len(s) \in Nat \ {0}
  PROVE  /\ SubSeq(s, 1, Len(s) - 1) \in Seq(S)
         /\ Len(SubSeq(s, 1, Len(s) - 1)) = Len(s) - 1
         /\ \A i \in 1..(Len(s) - 1) : SubSeq(s, 1, Len(s) - 1)[i] = s[i]
<1> DEFINE n == Len(s) - 1
<1>1. n \in Nat /\ 1 \in Int /\ \A i \in 1..n : s[i] \in S
  OBVIOUS
<1> HIDE DEF n
<1>2. /\ SubSeq(s, 1, n) \in Seq(S)
      /\ Len(SubSeq(s, 1, n)) = IF 1 <= n THEN n - 1 + 1 ELSE 0
      /\ \A i \in 1..(n - 1 + 1) : SubSeq(s, 1, n)[i] = s[1 + i - 1]
  BY <1>1, SubSeqProperties
<1>3. Len(SubSeq(s, 1, n)) = n
  BY <1>1, <1>2
<1>4. ASSUME NEW i \in 1..n PROVE SubSeq(s, 1, n)[i] = s[i]
  <2>1. n - 1 + 1 = n /\ 1 + i - 1 = i
    BY <1>1
  <2> QED
    BY <1>2, <2>1
<1> QED
  BY <1>2, <1>3, <1>4 DEF n

\* The end of an included file closes the innermost one.
LEMMA EofFiles ==
  ASSUME FilesInv, EofInclude, UNCHANGED <<phase, main>>
  PROVE  FilesInv'
<1>1. PICK S : stack \in Seq(S)
  BY DEF FilesInv
<1>2. top \in Nat \ {0} /\ stack' = SubSeq(stack, 1, top - 1) /\ temp' = temp
  BY <1>1 DEF EofInclude, top
<1>3. stack' \in Seq(S) /\ Len(stack') = top - 1 /\ \A i \in 1..(top - 1) : stack'[i] = stack[i]
  BY <1>1, <1>2, Popped DEF top
<1>4. top' = top - 1
  BY <1>3 DEF top
<1>5. \E T : stack' \in Seq(T)
  BY <1>3
<1>6. top - 1 \in 0..MaxInclDepth
  BY <1>2, ScannerAssumption DEF FilesInv, CopyByLevel, MainFile
<1>7. \A i \in 1..(top - 1) : i \in 1..top
  BY <1>2
<1> QED
  BY <1>2, <1>3, <1>4, <1>5, <1>6, <1>7 DEF FilesInv, CopyByLevel

\* Every step keeps the copies of the open files.
LEMMA FilesStep == FilesInv /\ [StartupNext]_startVars => FilesInv'
<1> SUFFICES ASSUME FilesInv, [StartupNext]_startVars PROVE FilesInv'
  OBVIOUS
<1>1. ASSUME UNCHANGED <<stack, temp, main>>, phase' = "config" => phase = "config"
      PROVE  FilesInv'
  BY <1>1 DEF FilesInv, CopyByLevel, top
<1>2. CASE ParseSysload
  <2>1. stack' = stack /\ temp' = [temp EXCEPT ![MainFile] = main] /\ main' = main
    BY <1>2 DEF ParseSysload, Begin, Parse
  <2>2. DOMAIN temp' = Copies /\ \A n \in Copies : temp'[n] = IF n = MainFile THEN main ELSE temp[n]
    BY <2>1 DEF FilesInv, CopyByLevel
  <2>3. MainFile \in Copies /\ top' = top
    BY <2>1 DEF Copies, top
  <2>4. \A i \in 1..top : i - 1 \in Copies /\ i - 1 # MainFile
    BY ScannerAssumption DEF FilesInv, CopyByLevel, Copies, MainFile
  <2> QED
    BY <2>1, <2>2, <2>3, <2>4 DEF FilesInv, CopyByLevel
<1>3. CASE ParseKernelArgument \/ ParseSysloadBootEntry
  BY <1>1, <1>3 DEF ParseKernelArgument, ParseSysloadBootEntry, Begin, Parse
<1>4. CASE NoConfiguration \/ Rejected \/ Ready
  BY <1>1, <1>4 DEF NoConfiguration, Rejected, Ready, scanVars
<1>5. CASE EnableNetwork \/ Wait \/ NetworkEnabled
  BY <1>1, <1>5 DEF EnableNetwork, Wait, NetworkEnabled, scanVars
<1>6. CASE Scan
  <2>1. ScanNext /\ UNCHANGED <<phase, main>>
    BY <1>6 DEF Scan
  <2> QED
    BY <1>1, <2>1, OtherRules, IncludeFiles, EofFiles
<1>7. CASE UNCHANGED startVars
  BY <1>1, <1>7 DEF startVars, scanVars
<1> QED
  BY <1>2, <1>3, <1>4, <1>5, <1>6, <1>7 DEF StartupNext

\* However files include each other, and wherever an earlier text was given up, no copy of
\* a file that is still being read is overwritten; this needs that MAX_INCL_DEPTH is not
\* above the number of the copy of the configuration.
THEOREM CopiesStayIntact == StartupSpec => []OpenFilesAreIntact
<1>1. FilesInv => OpenFilesAreIntact
  BY DEF FilesInv, CopyByLevel, OpenFilesAreIntact
<1> QED
  BY FilesStart, FilesStep, <1>1, PTL DEF StartupSpec

-----------------------------------------------------------------------------
(* The types, and that every text has one result *)

Expected == {"begin", "params", "knet", "done", "more", "mod", "named", "text", "list"}

\* The counters of open sections
SectionTypes ==
  /\ conds \in Seq(BOOLEAN) /\ system_depth = Len(conds)
  /\ system_first_inactive \in 1..MaxSystemDepth

\* The scanner waits for the network, and nobody else does.
WaitTypes ==
  /\ busy \in {"none", "scan", "net", "waiting"}
  /\ netpc \in {"off", "dhcp", "info", "resolv", "check", "dead"}
  /\ busy # "waiting" => netpc = "off"

ResultTypes ==
  /\ accepted \in Seq(BOOLEAN) /\ (\E T : texts \in Seq(T))
  /\ Len(accepted) = Len(texts) - (IF busy = "none" THEN 0 ELSE 1)

ScanTypes == mode \in {"INITIAL", "STRMODE", "INCLUDEMODE", "MODMODE"} /\ expects \in Expected

TypeInv == SectionTypes /\ WaitTypes /\ ResultTypes /\ ScanTypes

\* The types hold at the beginning.
LEMMA TypesStart == StartupInit => TypeInv
<1> SUFFICES ASSUME StartupInit PROVE TypeInv
  OBVIOUS
<1> USE DEF StartupInit, ScannerInit, SectionsInit, NetworkInit
<1>1. SectionTypes
  BY DepthAssumption DEF SectionTypes
<1>2. WaitTypes /\ ScanTypes
  BY DEF WaitTypes, ScanTypes, Expected
<1>3. texts \in Seq({}) /\ accepted \in Seq(BOOLEAN) /\ Len(texts) = 0 /\ Len(accepted) = 0 /\ busy = "none"
  OBVIOUS
<1>4. ResultTypes
  BY <1>3 DEF ResultTypes
<1> QED
  BY <1>1, <1>2, <1>4 DEF TypeInv

\* A token leads to another state of the grammar.
LEMMA GotoTypes ==
  ASSUME NEW token, Allowed(token), Goto(token)
  PROVE  expects' \in Expected
<1>1. PICK m \in Moves : m[1] = expects /\ m[2] = token
  BY DEF Allowed
<1>2. (CHOOSE n \in Moves : n[1] = expects /\ n[2] = token) \in Moves
  BY <1>1
<1>3. \A n \in Moves : n[3] \in Expected
  <2>1. \A n \in DefinitionMoves : n[3] \in Expected
    <3>1. ASSUME NEW n \in DefinitionMoves
          PROVE  \E s \in {"begin", "list"}, t \in Statements :
                   n = <<s, t, IF t = "key" THEN "text" ELSE "list">>
      BY DEF DefinitionMoves
    <3>2. {"text", "list"} \subseteq Expected
      BY DEF Expected
    <3> QED
      BY <3>1, <3>2
  <2>2. ASSUME NEW a, NEW b, NEW c \in Expected PROVE <<a, b, c>>[3] \in Expected
    OBVIOUS
  <2>3. {"params", "knet", "done", "more", "mod", "named", "list"} \subseteq Expected
    BY DEF Expected
  <2>4. \A n \in Moves \ DefinitionMoves : \E a, b : \E c \in Expected : n = <<a, b, c>>
    BY <2>3, Zenon DEF Moves
  <2> QED
    BY <2>1, <2>2, <2>4
<1> QED
  BY <1>2, <1>3 DEF Goto

\* A text that is given up or accepted has its result.
LEMMA ResultAdded ==
  ASSUME ResultTypes, busy # "none", NEW result \in BOOLEAN, accepted' = Append(accepted, result),
         busy' = "none", texts' = texts
  PROVE  ResultTypes'
<1>1. PICK T : texts \in Seq(T)
  BY DEF ResultTypes
<1>2. accepted' \in Seq(BOOLEAN) /\ Len(accepted') = Len(accepted) + 1 /\ Len(texts) \in Nat
  BY <1>1 DEF ResultTypes
<1>3. Len(accepted') = Len(texts')
  BY <1>2 DEF ResultTypes
<1>4. \E U : texts' \in Seq(U)
  BY <1>1
<1> QED
  BY <1>2, <1>3, <1>4 DEF ResultTypes

\* The actions of the grammar keep the types.
LEMMA TokenTypes ==
  ASSUME TypeInv, busy = "scan", NEW token, NEW text, Token(token, text),
         mode' \in {"INITIAL", "STRMODE", "INCLUDEMODE", "MODMODE"}, UNCHANGED <<netVars, texts>>
  PROVE  TypeInv'
<1>1. SectionTypes'
  BY DEF Token, sectionVars, TypeInv, SectionTypes
<1>2. CASE Allowed(token)
  <2>1. expects' \in Expected
    BY <1>2, GotoTypes DEF Token
  <2>2. busy' \in {"scan", "net"} /\ accepted' = accepted
    BY <1>2 DEF Token
  <2>3. WaitTypes' /\ ResultTypes' /\ ScanTypes'
    BY <2>1, <2>2 DEF TypeInv, WaitTypes, ResultTypes, ScanTypes, netVars
  <2> QED
    BY <1>1, <2>3 DEF TypeInv
<1>3. CASE ~Allowed(token)
  <2>1. accepted' = Append(accepted, FALSE) /\ busy' = "none" /\ expects' = expects
    BY <1>3 DEF Token
  <2>2. ResultTypes'
    BY <2>1, ResultAdded DEF TypeInv
  <2>3. WaitTypes' /\ ScanTypes'
    BY <2>1 DEF TypeInv, WaitTypes, ScanTypes, netVars
  <2> QED
    BY <1>1, <2>2, <2>3 DEF TypeInv
<1> QED
  BY <1>2, <1>3

\* Rules without a token keep them, too.
LEMMA NoTokenTypes ==
  ASSUME TypeInv, UNCHANGED <<expects, busy, accepted, sectionVars, netVars, texts>>,
         mode' \in {"INITIAL", "STRMODE", "INCLUDEMODE", "MODMODE"}
  PROVE  TypeInv'
<1>1. SectionTypes'
  BY DEF TypeInv, SectionTypes, sectionVars
<1>2. WaitTypes' /\ ResultTypes' /\ ScanTypes'
  BY DEF TypeInv, WaitTypes, ResultTypes, ScanTypes, netVars
<1> QED
  BY <1>1, <1>2 DEF TypeInv

\* Opening and closing a section keeps the depth equal to the number of open sections.
LEMMA SectionStepTypes ==
  ASSUME TypeInv, UNCHANGED <<netVars, texts>>,
         (\E cond \in BOOLEAN : OpenSection(cond)) \/ CloseSection
  PROVE  TypeInv'
<1>1. expects' \in Expected /\ UNCHANGED <<mode, busy, accepted>>
  BY GotoTypes DEF OpenSection, CloseSection
<1>2. WaitTypes' /\ ResultTypes' /\ ScanTypes'
  BY <1>1 DEF TypeInv, WaitTypes, ResultTypes, ScanTypes, netVars
<1>3. ASSUME NEW cond \in BOOLEAN, OpenSection(cond) PROVE SectionTypes'
  <2>1. /\ conds' = Append(conds, cond) /\ system_depth' = system_depth + 1
        /\ system_first_inactive' \in {system_depth', system_first_inactive}
        /\ system_first_inactive' = system_depth' => system_depth' < system_first_inactive
             \/ system_first_inactive' = system_first_inactive
    BY <1>3 DEF OpenSection, ParserEnterSystem
  <2>2. conds' \in Seq(BOOLEAN) /\ Len(conds') = Len(conds) + 1 /\ Len(conds) \in Nat
    BY <2>1 DEF TypeInv, SectionTypes
  <2> QED
    BY <2>1, <2>2, DepthAssumption DEF TypeInv, SectionTypes
<1>4. ASSUME CloseSection PROVE SectionTypes'
  <2>1. /\ conds # <<>> /\ conds' = SubSeq(conds, 1, Len(conds) - 1) /\ system_depth' = system_depth - 1
        /\ system_first_inactive' \in {MaxSystemDepth, system_first_inactive}
    BY <1>4 DEF CloseSection, ExitSystem, ParserExitSystem
  <2>2. Len(conds) \in Nat \ {0} /\ conds \in Seq(BOOLEAN)
    BY <2>1, EmptySeq DEF TypeInv, SectionTypes
  <2>3. conds' \in Seq(BOOLEAN) /\ Len(conds') = Len(conds) - 1
    BY <2>1, <2>2, Popped
  <2> QED
    BY <2>1, <2>3, DepthAssumption DEF TypeInv, SectionTypes
<1> QED
  BY <1>2, <1>3, <1>4 DEF TypeInv

\* Every rule of the scanner keeps the types.
LEMMA ScanTypesStep ==
  ASSUME TypeInv, ScanNext, UNCHANGED <<netVars, texts>>
  PROVE  TypeInv'
<1>1. CASE (\E cond \in BOOLEAN : OpenSection(cond)) \/ CloseSection
  BY <1>1, SectionStepTypes
<1>2. CASE Lexeme
  <2>1. mode' \in {"INITIAL", "STRMODE", "INCLUDEMODE", "MODMODE"} /\ busy = "scan"
    BY <1>2 DEF Lexeme, Mode
  <2>2. NoToken \/ \E token, text : Token(token, text)
    BY <1>2, Zenon DEF Lexeme
  <2> QED
    BY <2>1, <2>2, NoTokenTypes, TokenTypes DEF NoToken
<1>3. CASE RestOfLine
  BY <1>3, TokenTypes DEF RestOfLine
<1>4. CASE EchoRest \/ Comment \/ Newline \/ EofInclude
  <2>1. NoToken /\ mode' = mode
    BY <1>4 DEF EchoRest, Comment, Newline, EofInclude
  <2> QED
    BY <2>1, NoTokenTypes DEF NoToken, TypeInv, ScanTypes
<1>5. CASE Include
  <2>1. mode' = "INITIAL" /\ UNCHANGED <<expects, busy, accepted, sectionVars>>
    BY <1>5 DEF Include
  <2> QED
    BY <2>1, NoTokenTypes
<1>6. CASE ModLexeme
  <2>1. mode' \in {"INITIAL", "MODMODE"} /\ busy = "scan"
    BY <1>6 DEF ModLexeme, ModeAfter
  <2>2. NoToken \/ \E token, text : Token(token, text)
    BY <1>6, Zenon DEF ModLexeme
  <2> QED
    BY <2>1, <2>2, NoTokenTypes, TokenTypes DEF NoToken
<1>7. CASE Eof
  <2>1. Complete \in BOOLEAN
    BY Zenon DEF Complete
  <2>2. /\ busy = "scan" /\ accepted' = Append(accepted, Complete) /\ busy' = "none"
        /\ UNCHANGED <<mode, expects, sectionVars>>
    BY <1>7 DEF Eof
  <2>3. ResultTypes'
    BY <2>1, <2>2, ResultAdded DEF TypeInv
  <2>4. SectionTypes' /\ WaitTypes' /\ ScanTypes'
    BY <2>2 DEF TypeInv, SectionTypes, WaitTypes, ScanTypes, sectionVars, netVars
  <2> QED
    BY <2>3, <2>4 DEF TypeInv
<1> QED
  BY <1>1, <1>2, <1>3, <1>4, <1>5, <1>6, <1>7 DEF ScanNext

\* A text is begun only when the one before it has its result.
LEMMA BeginTypes ==
  ASSUME TypeInv, NEW text, Begin(text)
  PROVE  TypeInv'
<1>1. /\ busy = "none" /\ busy' = "scan" /\ expects' = "begin" /\ system_depth' = 0
      /\ system_first_inactive' = MaxSystemDepth /\ conds' = <<>> /\ texts' = Append(texts, text)
      /\ UNCHANGED <<mode, accepted, netpc>>
  BY DEF Begin, Parse, netVars
<1>2. PICK T : texts \in Seq(T)
  BY DEF TypeInv, ResultTypes
<1>3. texts' \in Seq(T \cup {text}) /\ Len(texts') = Len(texts) + 1 /\ Len(texts) \in Nat
  BY <1>1, <1>2
<1>4. ResultTypes'
  <2>1. \E U : texts' \in Seq(U)
    BY <1>3
  <2>2. Len(accepted') = Len(texts') - 1
    BY <1>1, <1>3 DEF TypeInv, ResultTypes
  <2> QED
    BY <1>1, <2>1, <2>2 DEF TypeInv, ResultTypes
<1>5. SectionTypes'
  BY <1>1, DepthAssumption DEF SectionTypes
<1>6. WaitTypes' /\ ScanTypes'
  BY <1>1 DEF TypeInv, WaitTypes, ScanTypes, Expected
<1> QED
  BY <1>4, <1>5, <1>6 DEF TypeInv

\* Every step keeps the types.
LEMMA TypesStep == TypeInv /\ [StartupNext]_startVars => TypeInv'
<1> SUFFICES ASSUME TypeInv, [StartupNext]_startVars PROVE TypeInv'
  OBVIOUS
<1>1. CASE ParseKernelArgument \/ ParseSysload \/ ParseSysloadBootEntry
  <2>1. \E text : Begin(text)
    BY <1>1, Zenon DEF ParseKernelArgument, ParseSysload, ParseSysloadBootEntry
  <2> QED
    BY <2>1, BeginTypes
<1>2. CASE UNCHANGED <<scanVars, netVars, texts>>
  BY <1>2, NoTokenTypes DEF scanVars, TypeInv, ScanTypes
<1>3. NoConfiguration \/ Rejected \/ Ready \/ UNCHANGED startVars => UNCHANGED <<scanVars, netVars, texts>>
  BY DEF NoConfiguration, Rejected, Ready, startVars
<1>4. CASE Scan
  BY <1>4, ScanTypesStep DEF Scan
<1>5. CASE EnableNetwork \/ Wait \/ NetworkEnabled
  <2>1. WaitTypes'
    <3>1. CASE EnableNetwork
      BY <3>1 DEF EnableNetwork, NbConfEnable, WaitTypes
    <3>2. CASE Wait
      <4>1. NetStep /\ busy' = busy
        BY <3>2 DEF Wait, scanVars
      <4>2. netpc # "off" /\ netpc' \in {"dhcp", "info", "resolv", "check", "dead"}
        BY <4>1 DEF NetStep, DhcpcdEnds, DhcpcdFails, NoInfo, ReadInfo, IncompleteLease, Resolvconf, NoLease
      <4> QED
        BY <4>1, <4>2 DEF TypeInv, WaitTypes
    <3>3. CASE NetworkEnabled
      BY <3>3 DEF NetworkEnabled, Ifconfig, WaitTypes
    <3> QED
      BY <1>5, <3>1, <3>2, <3>3
  <2>2. /\ UNCHANGED <<mode, expects, accepted, sectionVars, texts>>
        /\ busy = "none" <=> busy' = "none"
    BY <1>5 DEF EnableNetwork, Wait, NetworkEnabled, scanVars
  <2>3. SectionTypes' /\ ResultTypes' /\ ScanTypes'
    BY <2>2 DEF TypeInv, SectionTypes, ResultTypes, ScanTypes, sectionVars
  <2> QED
    BY <2>1, <2>3 DEF TypeInv
<1> QED
  BY <1>1, <1>2, <1>3, <1>4, <1>5 DEF StartupNext

\* The types, and with them the limit of includes, the meaning of the depth of sections and
\* one result per text, hold for all texts, command lines and answers of the network.
THEOREM StartupTypes == StartupSpec => []StartupTypeOK
<1>1. TypeInv /\ FilesInv => StartupTypeOK
  BY ScannerAssumption DEF TypeInv, SectionTypes, WaitTypes, ResultTypes, ScanTypes, Expected,
     FilesInv, CopyByLevel, StartupTypeOK, MainFile
<1> QED
  BY TypesStart, TypesStep, FilesStart, FilesStep, <1>1, PTL DEF StartupSpec

-----------------------------------------------------------------------------
(* What a configuration means *)

\* An effect is a token with its text, or a file that is fetched.
Effect == (Lexemes \cup {"STRING", "fetch"}) \X Seq(Lexemes)
\* What the include of each URI may stand for
Included == [DOMAIN Content -> Seq(Effect)]

\* A token with its text is an effect.
LEMMA EffectType ==
  ASSUME NEW token \in Lexemes \cup {"STRING", "fetch"}, NEW text \in Seq(Lexemes)
  PROVE  <<token, text>> \in Effect
BY DEF Effect

\* The second lexeme of a line is the first that is left when one has been taken.
LEMMA SecondLexeme ==
  ASSUME NEW items \in Seq(Lexemes), Len(items) > 1
  PROVE  Tail(items)[1] = items[2] /\ Tail(items) # <<>>
<1>1. Tail(items)[1] = items[2]
  OBVIOUS
<1>2. Len(Tail(items)) # 0
  OBVIOUS
<1>3. Len(<<>>) = 0
  OBVIOUS
<1> QED
  BY <1>1, <1>2, <1>3, Zenon

\* A statement has effects.
LEMMA EffectsType ==
  ASSUME NEW line, OneStatement(line), NEW included \in Included
  PROVE  Effects(line, included) \in Seq(Effect)
<1> DEFINE first == line.items[1]
           rest == Tail(line.items)
<1>1. line.items \in Seq(Lexemes) /\ line.items # <<>> /\ line.nl \in BOOLEAN
  BY DEF OneStatement, Lines
<1>2. first \in Lexemes /\ rest \in Seq(Lexemes)
  <2>1. Len(line.items) \in Nat \ {0}
    BY <1>1, EmptySeq
  <2>2. 1 \in 1..Len(line.items)
    BY <2>1
  <2>3. first \in Lexemes
    BY <1>1, <2>2, ElementOfSeq
  <2> QED
    BY <1>1, <2>3, HeadTailProperties
<1>3. ASSUME first = "key" PROVE Effects(line, included) \in Seq(Effect)
  <2> DEFINE e == <<"STRING", IF line.nl THEN rest ELSE <<>> >>
  <2>1. e \in Effect
    <3> HIDE DEF rest
    <3>1. (IF line.nl THEN rest ELSE <<>>) \in Seq(Lexemes)
      BY <1>2
    <3>2. "STRING" \in Lexemes \cup {"STRING", "fetch"}
      OBVIOUS
    <3> QED
      BY <3>1, <3>2, EffectType
  <2>2. Effects(line, included) = <<e>>
    BY <1>3 DEF Effects
  <2> HIDE DEF e, first
  <2> QED
    BY <2>1, <2>2
<1>4. ASSUME first = "include", line.nl PROVE Effects(line, included) \in Seq(Effect)
  <2>1. Len(line.items) > 1 /\ line.items[2] \in DOMAIN Content
    BY <1>4 DEF OneStatement
  <2>2. rest[1] = line.items[2]
    BY <1>1, <2>1, SecondLexeme
  <2>3. Effects(line, included) = included[rest[1]]
    BY <1>4 DEF Effects
  <2> HIDE DEF rest, first
  <2> QED
    BY <2>1, <2>2, <2>3 DEF Included
<1>5. ASSUME (first = "include" /\ ~line.nl) \/ first = "#" PROVE Effects(line, included) = <<>>
  BY <1>5 DEF Effects
<1>6. ASSUME first \notin {"key", "include", "#"} PROVE Effects(line, included) \in Seq(Effect)
  <2>1. <<first, <<first>> >> \in Effect
    <3> HIDE DEF first
    <3>1. <<first>> \in Seq(Lexemes)
      BY <1>2
    <3> QED
      BY <1>2, <3>1, EffectType
  <2>2. Effects(line, included) = << <<first, <<first>> >> >>
    BY <1>6 DEF Effects
  <2> HIDE DEF first
  <2> QED
    BY <2>1, <2>2
<1>7. <<>> \in Seq(Effect)
  OBVIOUS
<1> HIDE DEF first, rest
<1> QED
  BY <1>1, <1>3, <1>4, <1>5, <1>6, <1>7

\* f gives the effects of the first n lines of a text.
EffectsBy(f, text, included) ==
  /\ f[0] = <<>>
  /\ \A n \in 1..Len(text) : f[n] = f[n - 1] \o Effects(text[n], included)

\* The effects of a text are those of its lines, one after the other.
LEMMA AllEffectsStepwise ==
  ASSUME NEW text, OneStatementPerLine(text), NEW included \in Included
  PROVE  \E f \in [0..Len(text) -> Seq(Effect)] :
           AllEffects(text, included) = f[Len(text)] /\ EffectsBy(f, text, included)
<1> DEFINE L == Len(text)
           V == Seq(Effect)
           c == <<>>
           X(n, was) == was \o Effects(text[n], included)
           D == [p \in ((0 + 1)..L) \X V |-> X(p[1], p[2])]
           Def(g) == g = [n \in 0..L |-> IF n = 0 THEN c ELSE X(n, g[n - 1])]
           upTo == CHOOSE g : Def(g)
<1>1. L \in Nat /\ 0 \in Nat /\ 0 <= L /\ c \in V
  BY DEF OneStatementPerLine
<1>2. ASSUME NEW n \in 1..L, NEW was \in V PROVE X(n, was) \in V
  <2>1. Effects(text[n], included) \in V
    BY EffectsType DEF OneStatementPerLine
  <2> QED
    BY <2>1, ConcatProperties
<1>3. D \in [((0 + 1)..L) \X V -> V]
  <2>1. \A p \in ((0 + 1)..L) \X V : p[1] \in 1..L /\ p[2] \in V
    OBVIOUS
  <2> HIDE DEF V, L, X
  <2> QED
    BY <1>2, <2>1
<1>4. PICK f \in [0..L -> V] : Follows(f, 0, L, c, D)
  <2> HIDE DEF L, D, V, c
  <2> QED
    BY <1>1, <1>3, IntervalRecursion
<1>5. ASSUME NEW n \in 1..L PROVE f[n] = X(n, f[n - 1]) /\ f[n - 1] \in V
  <2>1. n \in (0 + 1)..L /\ f[n - 1] \in V
    <3>1. n \in (0 + 1)..L /\ n - 1 \in 0..L
      BY <1>1
    <3> HIDE DEF L, V
    <3> QED
      BY <3>1
  <2>2. f[n] = D[<<n, f[n - 1]>>]
    BY <1>4, <2>1 DEF Follows
  <2>3. <<n, f[n - 1]>> \in ((0 + 1)..L) \X V
    BY <2>1
  <2> HIDE DEF X, V, L
  <2> QED
    BY <2>1, <2>2, <2>3
<1>6. f[0] = c
  BY <1>4 DEF Follows
<1>7. Def(f)
  <2>1. DOMAIN f = 0..L /\ f = [n \in DOMAIN f |-> f[n]]
    OBVIOUS
  <2>2. ASSUME NEW n \in 0..L, n # 0 PROVE n \in 1..L
    BY <1>1, <2>2
  <2> HIDE DEF X, V, L, c
  <2>3. \A n \in 0..L : f[n] = IF n = 0 THEN c ELSE X(n, f[n - 1])
    BY <1>5, <1>6, <2>2
  <2> QED
    BY <2>1, <2>3
<1>8. Def(upTo)
  <2> HIDE DEF Def
  <2> QED
    BY <1>7
<1>9. AllEffects(text, included) = upTo[L]
  BY DEF AllEffects
<1> HIDE DEF upTo, X, D, V, c
<1>10. DOMAIN upTo = 0..L /\ \A n \in 0..L : upTo[n] = IF n = 0 THEN c ELSE X(n, upTo[n - 1])
  BY <1>8, Zenon
<1>11. upTo[0] = c
  BY <1>1, <1>10
<1>12. ASSUME NEW n \in 1..L PROVE upTo[n] = X(n, upTo[n - 1]) /\ n \in 0..L /\ n # 0
  BY <1>1, <1>10
<1>13. \A n \in 0..L : upTo[n] \in V
  <2> DEFINE S == {n \in 0..L : upTo[n] \in V}
  <2>1. 0 \in S
    BY <1>1, <1>11
  <2>2. ASSUME NEW n \in 0..(L - 1), n \in S PROVE n + 1 \in S
    <3>1. n + 1 \in 1..L /\ (n + 1) - 1 = n /\ n + 1 \in 0..L
      BY <1>1
    <3>2. upTo[n + 1] \in V
      BY <1>2, <1>12, <2>2, <3>1
    <3> QED
      BY <3>1, <3>2
  <2> HIDE DEF S
  <2>3. \A n \in 0..L : n \in S
    <3>1. \A n \in 0..(L - 1) : n \in S => n + 1 \in S
      BY <2>2
    <3> QED
      BY <1>1, <2>1, <3>1, IntervalInduction
  <2> QED
    BY <2>3 DEF S
<1>14. upTo \in [0..L -> V]
  BY <1>8, <1>10, <1>13
<1>15. EffectsBy(upTo, text, included)
  BY <1>11, <1>12 DEF EffectsBy, X, c
<1> QED
  BY <1>9, <1>14, <1>15 DEF V

-----------------------------------------------------------------------------
\* Putting effects one after the other is associative.
LEMMA EffectsAssociate ==
  \A a, b, c \in Seq(Effect) : (a \o b) \o c = a \o (b \o c) /\ a \o b \in Seq(Effect)
BY ConcatAssociative, ConcatProperties

\* The rest of a text, from its second line
LEMMA TailOfText ==
  ASSUME NEW text, OneStatementPerLine(text), text # <<>>
  PROVE  /\ OneStatementPerLine(Tail(text)) /\ OneStatement(Head(text))
         /\ Head(text) = text[1] /\ Len(text) \in Nat \ {0} /\ Len(Tail(text)) = Len(text) - 1
         /\ \A n \in 1..(Len(text) - 1) : Tail(text)[n] = text[n + 1]
         /\ ~Head(text).nl => Tail(text) = <<>>
<1>1. text \in Seq(Lines) /\ Len(text) \in Nat \ {0}
  BY EmptySeq DEF OneStatementPerLine
<1>2. /\ Tail(text) \in Seq(Lines) /\ Len(Tail(text)) = Len(text) - 1 /\ Head(text) = text[1]
      /\ \A n \in 1..(Len(text) - 1) : Tail(text)[n] = text[n + 1]
  BY <1>1, HeadTailProperties
<1>3. ASSUME NEW i \in 1..(Len(text) - 1)
      PROVE  OneStatement(Tail(text)[i]) /\ (Tail(text)[i].nl \/ i = Len(text) - 1)
  <2>1. i + 1 \in 1..Len(text) /\ (i + 1 = Len(text) => i = Len(text) - 1)
    BY <1>1
  <2> QED
    BY <1>2, <2>1 DEF OneStatementPerLine
<1>4. OneStatement(text[1]) /\ (text[1].nl \/ 1 = Len(text))
  <2>1. 1 \in 1..Len(text)
    BY <1>1
  <2> QED
    BY <2>1 DEF OneStatementPerLine
<1>5. ASSUME 1 = Len(text) PROVE Tail(text) = <<>>
  <2> DEFINE rest == Tail(text)
  <2>1. rest \in Seq(Lines) /\ Len(rest) = Len(text) - 1
    BY <1>2
  <2> HIDE DEF rest
  <2>2. Len(rest) = 0
    BY <1>5, <2>1
  <2>3. rest = <<>>
    BY <2>1, <2>2, EmptySeq
  <2> QED
    BY <2>3 DEF rest
<1> QED
  BY <1>1, <1>2, <1>3, <1>4, <1>5 DEF OneStatementPerLine

\* The effects of a text have their type, and an empty text has none.
LEMMA AllEffectsType ==
  ASSUME NEW text, OneStatementPerLine(text), NEW included \in Included
  PROVE  AllEffects(text, included) \in Seq(Effect) /\ (text = <<>> => AllEffects(text, included) = <<>>)
<1>1. PICK f \in [0..Len(text) -> Seq(Effect)] :
        AllEffects(text, included) = f[Len(text)] /\ EffectsBy(f, text, included)
  BY AllEffectsStepwise
<1>2. Len(text) \in Nat /\ (text = <<>> => Len(text) = 0)
  BY DEF OneStatementPerLine
<1> QED
  BY <1>1, <1>2 DEF EffectsBy

\* The effects of the first line come first.
LEMMA FirstLine ==
  ASSUME NEW text, OneStatementPerLine(text), text # <<>>, NEW included \in Included
  PROVE  AllEffects(text, included) = Effects(Head(text), included) \o AllEffects(Tail(text), included)
<1> DEFINE rest == Tail(text)
           first == Effects(Head(text), included)
           N == Len(text) - 1
<1>1. /\ OneStatementPerLine(rest) /\ OneStatement(Head(text)) /\ Head(text) = text[1]
      /\ Len(text) \in Nat \ {0} /\ Len(rest) = N /\ N \in Nat
      /\ \A n \in 1..N : rest[n] = text[n + 1]
  BY TailOfText
<1>2. PICK f \in [0..Len(text) -> Seq(Effect)] :
        AllEffects(text, included) = f[Len(text)] /\ EffectsBy(f, text, included)
  BY AllEffectsStepwise
<1>3. PICK g \in [0..N -> Seq(Effect)] :
        AllEffects(rest, included) = g[N] /\ EffectsBy(g, rest, included)
  <2> HIDE DEF rest, N
  <2> QED
    BY <1>1, AllEffectsStepwise
<1>4. first \in Seq(Effect)
  BY <1>1, EffectsType
<1> HIDE DEF rest, first
<1> DEFINE S == {n \in 0..N : f[n + 1] = first \o g[n]}
<1>5. 0 \in S
  <2>1. f[1] = f[0] \o first /\ f[0] = <<>> /\ g[0] = <<>>
    <3>1. 1 \in 1..Len(text) /\ 1 - 1 = 0
      BY <1>1
    <3> QED
      BY <1>1, <1>2, <1>3, <3>1 DEF EffectsBy, first
  <2> QED
    BY <1>1, <1>4, <2>1, ConcatEmptySeq
<1>6. ASSUME NEW n \in 0..(N - 1), n \in S PROVE n + 1 \in S
  <2>1. /\ n + 1 \in 1..N /\ n + 1 \in 0..N /\ n \in 0..N /\ n + 2 \in 1..Len(text)
        /\ (n + 1) - 1 = n /\ (n + 2) - 1 = n + 1 /\ (n + 1) + 1 = n + 2
    BY <1>1
  <2> DEFINE e == Effects(text[n + 2], included)
  <2>2. rest[n + 1] = text[n + 2]
    BY <1>1, <2>1
  <2>3. f[n + 2] = f[n + 1] \o e
    BY <1>2, <2>1 DEF EffectsBy
  <2>4. g[n + 1] = g[n] \o e
    BY <1>1, <1>3, <2>1, <2>2 DEF EffectsBy
  <2>5. e \in Seq(Effect)
    BY <2>1, EffectsType DEF OneStatementPerLine
  <2>6. g[n] \in Seq(Effect)
    BY <2>1
  <2> HIDE DEF e, N
  <2>7. (first \o g[n]) \o e = first \o (g[n] \o e)
    BY <1>4, <2>5, <2>6, EffectsAssociate
  <2>8. f[n + 1] = first \o g[n]
    BY <1>6
  <2>9. f[(n + 1) + 1] = first \o g[n + 1]
    BY <2>1, <2>3, <2>4, <2>7, <2>8
  <2> QED
    BY <2>1, <2>9
<1>7. N \in S
  <2> HIDE DEF S
  <2>1. \A n \in 0..(N - 1) : n \in S => n + 1 \in S
    BY <1>6
  <2>2. \A n \in 0..N : n \in S
    BY <1>1, <1>5, <2>1, IntervalInduction
  <2> QED
    BY <1>1, <2>2
<1>8. N + 1 = Len(text)
  BY <1>1
<1> QED
  BY <1>2, <1>3, <1>7, <1>8 DEF rest, first

-----------------------------------------------------------------------------
\* Every file names a text of statements, and closes the sections it opens.
FilesAsDocumented ==
  /\ DOMAIN Content \subseteq Lexemes \ {""}
  /\ \A uri \in DOMAIN Content : OneStatementPerLine(Content[uri]) /\ ClosesItsSections(Content[uri])

\* What an include stands for is a sequence of effects.
LEMMA InclusionType ==
  ASSUME FilesAsDocumented, NEW included \in Included, NEW unreachable
  PROVE  Inclusion(included, unreachable) \in Included
<1>1. ASSUME NEW uri \in DOMAIN Content
      PROVE  << <<"fetch", <<uri>> >> >>
             \o (IF uri \in unreachable THEN <<>> ELSE AllEffects(Content[uri], included)) \in Seq(Effect)
  <2>1. << <<"fetch", <<uri>> >> >> \in Seq(Effect)
    <3>1. uri \in Lexemes
      BY DEF FilesAsDocumented
    <3>2. <<uri>> \in Seq(Lexemes)
      BY <3>1
    <3>3. <<"fetch", <<uri>> >> \in Effect
      BY <3>2, EffectType
    <3> QED
      BY <3>3
  <2>2. AllEffects(Content[uri], included) \in Seq(Effect)
    BY AllEffectsType DEF FilesAsDocumented
  <2>3. <<>> \in Seq(Effect)
    OBVIOUS
  <2> QED
    BY <2>1, <2>2, <2>3, ConcatProperties
<1> QED
  BY <1>1 DEF Inclusion, Included

\* What includes stand for, level by level
LEMMA IncludedStepwise ==
  ASSUME FilesAsDocumented, NEW unreachable
  PROVE  /\ IncludedAt(unreachable) \in [0..MaxInclDepth -> Included]
         /\ IncludedAt(unreachable)[0] = [uri \in DOMAIN Content |-> <<>>]
         /\ \A n \in 1..MaxInclDepth :
              IncludedAt(unreachable)[n] = Inclusion(IncludedAt(unreachable)[n - 1], unreachable)
<1> DEFINE L == MaxInclDepth
           V == Included
           c == [uri \in DOMAIN Content |-> <<>>]
           X(was) == Inclusion(was, unreachable)
           D == [p \in ((0 + 1)..L) \X V |-> X(p[2])]
           Def(g) == g = [n \in 0..L |-> IF n = 0 THEN c ELSE X(g[n - 1])]
           level == CHOOSE g : Def(g)
<1>1. L \in Nat /\ 0 \in Nat /\ 0 <= L /\ c \in V
  <2>1. <<>> \in Seq(Effect)
    OBVIOUS
  <2> QED
    BY <2>1, ScannerAssumption DEF Included, MainFile
<1>2. ASSUME NEW was \in V PROVE X(was) \in V
  BY InclusionType
<1>3. D \in [((0 + 1)..L) \X V -> V]
  <2>1. \A p \in ((0 + 1)..L) \X V : p[2] \in V
    OBVIOUS
  <2> HIDE DEF V, L, X
  <2> QED
    BY <1>2, <2>1
<1>4. PICK f \in [0..L -> V] : Follows(f, 0, L, c, D)
  <2> HIDE DEF L, D, V, c
  <2> QED
    BY <1>1, <1>3, IntervalRecursion
<1>5. ASSUME NEW n \in 1..L PROVE f[n] = X(f[n - 1])
  <2>1. n \in (0 + 1)..L /\ f[n - 1] \in V
    <3>1. n \in (0 + 1)..L /\ n - 1 \in 0..L
      BY <1>1
    <3> HIDE DEF L, V
    <3> QED
      BY <3>1
  <2>2. f[n] = D[<<n, f[n - 1]>>]
    BY <1>4, <2>1 DEF Follows
  <2>3. <<n, f[n - 1]>> \in ((0 + 1)..L) \X V
    BY <2>1
  <2> HIDE DEF X, V, L
  <2> QED
    BY <2>1, <2>2, <2>3
<1>6. f[0] = c
  BY <1>4 DEF Follows
<1>7. Def(f)
  <2>1. DOMAIN f = 0..L /\ f = [n \in DOMAIN f |-> f[n]]
    OBVIOUS
  <2>2. ASSUME NEW n \in 0..L, n # 0 PROVE n \in 1..L
    BY <1>1, <2>2
  <2> HIDE DEF X, V, L, c
  <2>3. \A n \in 0..L : f[n] = IF n = 0 THEN c ELSE X(f[n - 1])
    BY <1>5, <1>6, <2>2
  <2> QED
    BY <2>1, <2>3
<1>8. Def(level)
  <2> HIDE DEF Def
  <2> QED
    BY <1>7
<1>9. IncludedAt(unreachable) = level
  BY DEF IncludedAt
<1> HIDE DEF level, X, D, V, c
<1>10. DOMAIN level = 0..L /\ \A n \in 0..L : level[n] = IF n = 0 THEN c ELSE X(level[n - 1])
  BY <1>8, Zenon
<1>11. level[0] = c
  BY <1>1, <1>10
<1>12. ASSUME NEW n \in 1..L PROVE level[n] = X(level[n - 1]) /\ n \in 0..L /\ n # 0
  BY <1>1, <1>10
<1>13. \A n \in 0..L : level[n] \in V
  <2> DEFINE S == {n \in 0..L : level[n] \in V}
  <2>1. 0 \in S
    BY <1>1, <1>11
  <2>2. ASSUME NEW n \in 0..(L - 1), n \in S PROVE n + 1 \in S
    <3>1. n + 1 \in 1..L /\ (n + 1) - 1 = n /\ n + 1 \in 0..L
      BY <1>1
    <3>2. level[n + 1] \in V
      BY <1>2, <1>12, <2>2, <3>1
    <3> QED
      BY <3>1, <3>2
  <2> HIDE DEF S
  <2>3. \A n \in 0..L : n \in S
    <3>1. \A n \in 0..(L - 1) : n \in S => n + 1 \in S
      BY <2>2
    <3> QED
      BY <1>1, <2>1, <3>1, IntervalInduction
  <2> QED
    BY <2>3 DEF S
<1>14. level \in [0..L -> V]
  BY <1>8, <1>10, <1>13
<1> QED
  BY <1>9, <1>11, <1>12, <1>14 DEF V, X, c

-----------------------------------------------------------------------------
(* What inactive sections drop *)

\* How far sifting has got
SiftState == [off : Nat, kept : Seq(Effect)]

NothingSifted == [off |-> 0, kept |-> <<>>]

\* An effect keeps the type of what has been sifted.
LEMMA SiftType ==
  ASSUME NEW was \in SiftState, NEW effect \in Effect
  PROVE  Sift(was, effect) \in SiftState
<1>1. Append(was.kept, effect) \in Seq(Effect) /\ was.off \in Nat /\ was.kept \in Seq(Effect)
  BY DEF SiftState
<1>2. was.off > 0 => was.off - 1 \in Nat
  BY <1>1
<1>3. was.off + 1 \in Nat
  BY <1>1
<1>4. [was EXCEPT !.off = @ + 1] \in SiftState
  BY <1>3 DEF SiftState
<1>5. was.off > 0 => [was EXCEPT !.off = @ - 1] \in SiftState
  BY <1>2 DEF SiftState
<1>6. [was EXCEPT !.kept = Append(@, effect)] \in SiftState
  BY <1>1 DEF SiftState
<1> QED
  BY <1>4, <1>5, <1>6, Zenon DEF Sift

\* f gives what is kept of the first n effects.
SiftedBy(f, effects) ==
  /\ f[0] = NothingSifted
  /\ \A n \in 1..Len(effects) : f[n] = Sift(f[n - 1], effects[n])

\* Sifting looks at one effect after the other.
LEMMA SiftedStepwise ==
  ASSUME NEW effects \in Seq(Effect)
  PROVE  \E f \in [0..Len(effects) -> SiftState] :
           Sifted(effects) = f[Len(effects)] /\ SiftedBy(f, effects)
<1> DEFINE L == Len(effects)
           V == SiftState
           c == NothingSifted
           X(n, was) == Sift(was, effects[n])
           D == [p \in ((0 + 1)..L) \X V |-> X(p[1], p[2])]
           Def(g) == g = [n \in 0..L |-> IF n = 0 THEN c ELSE X(n, g[n - 1])]
           upTo == CHOOSE g : Def(g)
<1>1. L \in Nat /\ 0 \in Nat /\ 0 <= L /\ c \in V
  <2>1. <<>> \in Seq(Effect)
    OBVIOUS
  <2> QED
    BY <2>1 DEF SiftState, NothingSifted
<1>2. ASSUME NEW n \in 1..L, NEW was \in V PROVE X(n, was) \in V
  <2>1. effects[n] \in Effect
    BY ElementOfSeq
  <2> QED
    BY <2>1, SiftType
<1>3. D \in [((0 + 1)..L) \X V -> V]
  <2>1. \A p \in ((0 + 1)..L) \X V : p[1] \in 1..L /\ p[2] \in V
    OBVIOUS
  <2> HIDE DEF V, L, X
  <2> QED
    BY <1>2, <2>1
<1>4. PICK f \in [0..L -> V] : Follows(f, 0, L, c, D)
  <2> HIDE DEF L, D, V, c
  <2> QED
    BY <1>1, <1>3, IntervalRecursion
<1>5. ASSUME NEW n \in 1..L PROVE f[n] = X(n, f[n - 1])
  <2>1. n \in (0 + 1)..L /\ f[n - 1] \in V
    <3>1. n \in (0 + 1)..L /\ n - 1 \in 0..L
      BY <1>1
    <3> HIDE DEF L, V
    <3> QED
      BY <3>1
  <2>2. f[n] = D[<<n, f[n - 1]>>]
    BY <1>4, <2>1 DEF Follows
  <2>3. <<n, f[n - 1]>> \in ((0 + 1)..L) \X V
    BY <2>1
  <2> HIDE DEF X, V, L
  <2> QED
    BY <2>1, <2>2, <2>3
<1>6. f[0] = c
  BY <1>4 DEF Follows
<1>7. Def(f)
  <2>1. DOMAIN f = 0..L /\ f = [n \in DOMAIN f |-> f[n]]
    OBVIOUS
  <2>2. ASSUME NEW n \in 0..L, n # 0 PROVE n \in 1..L
    BY <1>1, <2>2
  <2> HIDE DEF X, V, L, c
  <2>3. \A n \in 0..L : f[n] = IF n = 0 THEN c ELSE X(n, f[n - 1])
    BY <1>5, <1>6, <2>2
  <2> QED
    BY <2>1, <2>3
<1>8. Def(upTo)
  <2> HIDE DEF Def
  <2> QED
    BY <1>7
<1>9. Sifted(effects) = upTo[L]
  BY DEF Sifted, NothingSifted
<1> HIDE DEF upTo, X, D, V, c
<1>10. DOMAIN upTo = 0..L /\ \A n \in 0..L : upTo[n] = IF n = 0 THEN c ELSE X(n, upTo[n - 1])
  BY <1>8, Zenon
<1>11. upTo[0] = c
  BY <1>1, <1>10
<1>12. ASSUME NEW n \in 1..L PROVE upTo[n] = X(n, upTo[n - 1]) /\ n \in 0..L /\ n # 0
  BY <1>1, <1>10
<1>13. \A n \in 0..L : upTo[n] \in V
  <2> DEFINE S == {n \in 0..L : upTo[n] \in V}
  <2>1. 0 \in S
    BY <1>1, <1>11
  <2>2. ASSUME NEW n \in 0..(L - 1), n \in S PROVE n + 1 \in S
    <3>1. n + 1 \in 1..L /\ (n + 1) - 1 = n /\ n + 1 \in 0..L
      BY <1>1
    <3>2. upTo[n + 1] \in V
      BY <1>2, <1>12, <2>2, <3>1
    <3> QED
      BY <3>1, <3>2
  <2> HIDE DEF S
  <2>3. \A n \in 0..L : n \in S
    <3>1. \A n \in 0..(L - 1) : n \in S => n + 1 \in S
      BY <2>2
    <3> QED
      BY <1>1, <2>1, <3>1, IntervalInduction
  <2> QED
    BY <2>3 DEF S
<1>14. upTo \in [0..L -> V]
  BY <1>8, <1>10, <1>13
<1>15. SiftedBy(upTo, effects)
  BY <1>11, <1>12 DEF SiftedBy, X, c
<1> QED
  BY <1>9, <1>14, <1>15 DEF V

\* What has been sifted has its type, and nothing sifts to nothing.
LEMMA SiftedType ==
  /\ \A s \in Seq(Effect) : Sifted(s) \in SiftState
  /\ Sifted(<<>>) = NothingSifted
<1>1. ASSUME NEW s \in Seq(Effect)
      PROVE  Sifted(s) \in SiftState /\ (Len(s) = 0 => Sifted(s) = NothingSifted)
  <2>1. PICK f \in [0..Len(s) -> SiftState] : Sifted(s) = f[Len(s)] /\ SiftedBy(f, s)
    BY SiftedStepwise
  <2>2. Len(s) \in 0..Len(s)
    OBVIOUS
  <2> QED
    BY <2>1, <2>2 DEF SiftedBy
<1>2. <<>> \in Seq(Effect) /\ Len(<<>>) = 0
  OBVIOUS
<1> QED
  BY <1>1, <1>2

\* One more effect is sifted after those before it.
LEMMA SiftedAppend ==
  ASSUME NEW s \in Seq(Effect), NEW e \in Effect
  PROVE  Sifted(Append(s, e)) = Sift(Sifted(s), e)
<1> DEFINE t == Append(s, e)
           N == Len(s)
<1>1. /\ t \in Seq(Effect) /\ Len(t) = N + 1 /\ N \in Nat /\ t[N + 1] = e
      /\ \A n \in 1..N : t[n] = s[n]
  BY AppendProperties
<1> HIDE DEF t
<1>2. PICK f \in [0..N -> SiftState] : Sifted(s) = f[N] /\ SiftedBy(f, s)
  BY SiftedStepwise
<1>3. PICK g \in [0..Len(t) -> SiftState] : Sifted(t) = g[Len(t)] /\ SiftedBy(g, t)
  BY <1>1, SiftedStepwise
<1> DEFINE S == {n \in 0..N : f[n] = g[n]}
<1>4. 0 \in S
  BY <1>1, <1>2, <1>3 DEF SiftedBy
<1>5. ASSUME NEW n \in 0..(N - 1), n \in S PROVE n + 1 \in S
  <2>1. n + 1 \in 1..N /\ n + 1 \in 0..N /\ n + 1 \in 1..Len(t) /\ (n + 1) - 1 = n /\ N = Len(s)
    BY <1>1
  <2> HIDE DEF N
  <2>2. f[n + 1] = Sift(f[n], s[n + 1])
    BY <1>2, <2>1 DEF SiftedBy
  <2>3. g[n + 1] = Sift(g[n], t[n + 1])
    BY <1>3, <2>1 DEF SiftedBy
  <2>4. s[n + 1] = t[n + 1] /\ f[n] = g[n]
    BY <1>1, <1>5, <2>1
  <2> QED
    BY <2>1, <2>2, <2>3, <2>4
<1>6. N \in S
  <2> HIDE DEF S, N
  <2>1. \A n \in 0..(N - 1) : n \in S => n + 1 \in S
    BY <1>5
  <2>2. \A n \in 0..N : n \in S
    BY <1>1, <1>4, <2>1, IntervalInduction
  <2> QED
    BY <1>1, <2>2
<1>7. g[N + 1] = Sift(g[N], e)
  <2>1. N + 1 \in 1..Len(t) /\ (N + 1) - 1 = N
    BY <1>1
  <2> HIDE DEF N
  <2> QED
    BY <1>1, <1>3, <2>1 DEF SiftedBy
<1> QED
  BY <1>1, <1>2, <1>3, <1>6, <1>7 DEF t

-----------------------------------------------------------------------------
\* In inactive text, t is dropped, and leaves d more sections open.
Skips(t, d) ==
  \A s \in Seq(Effect) :
    Sifted(s).off > 0 =>
      Sifted(s \o t) = [off |-> Sifted(s).off + d, kept |-> Sifted(s).kept]

\* How a token changes the number of open sections
Step(token) == IF token \in {"yes{", "no{"} THEN 1 ELSE IF token = "}" THEN -1 ELSE 0

\* No effects open no section.
LEMMA SkipsNothing == Skips(<<>>, 0)
<1> SUFFICES ASSUME NEW s \in Seq(Effect)
             PROVE  Sifted(s \o <<>>) = [off |-> Sifted(s).off + 0, kept |-> Sifted(s).kept]
  BY DEF Skips
<1>1. s \o <<>> = s
  BY ConcatEmptySeq
<1>2. Sifted(s) \in SiftState
  BY SiftedType
<1> QED
  BY <1>1, <1>2 DEF SiftState

\* In inactive text a single effect at most opens or closes a section.
LEMMA SkipsOne ==
  ASSUME NEW e \in Effect
  PROVE  Skips(<<e>>, Step(e[1]))
<1> SUFFICES ASSUME NEW s \in Seq(Effect), Sifted(s).off > 0
             PROVE  Sifted(s \o <<e>>) = [off |-> Sifted(s).off + Step(e[1]), kept |-> Sifted(s).kept]
  BY DEF Skips
<1>1. s \o <<e>> = Append(s, e)
  BY AppendIsConcat
<1>2. Sifted(s) \in SiftState
  BY SiftedType
<1>3. Sifted(s \o <<e>>) = Sift(Sifted(s), e)
  BY <1>1, SiftedAppend
<1> DEFINE was == Sifted(s)
<1>4. was \in SiftState /\ was.off > 0
  BY <1>2
<1> HIDE DEF was
<1>5. Sift(was, e) = [off |-> was.off + Step(e[1]), kept |-> was.kept]
  <2>1. was = [off |-> was.off, kept |-> was.kept] /\ was.off \in Nat
    BY <1>4 DEF SiftState
  <2>2. CASE e[1] \in {"yes{", "no{"}
    <3>1. Sift(was, e) = [was EXCEPT !.off = @ + 1] /\ Step(e[1]) = 1
      BY <1>4, <2>2, Zenon DEF Sift, Step
    <3> QED
      BY <2>1, <3>1
  <2>3. CASE e[1] = "}"
    <3>1. Sift(was, e) = [was EXCEPT !.off = @ - 1] /\ Step(e[1]) = -1
      BY <1>4, <2>3, Zenon DEF Sift, Step
    <3>2. was.off - 1 = was.off + -1
      BY <2>1
    <3> QED
      BY <2>1, <3>1, <3>2
  <2>4. CASE e[1] \notin {"yes{", "no{", "}"}
    <3>1. Sift(was, e) = was /\ Step(e[1]) = 0
      BY <1>4, <2>4, Zenon DEF Sift, Step
    <3> QED
      BY <2>1, <3>1
  <2> QED
    BY <2>2, <2>3, <2>4, Zenon
<1> QED
  BY <1>3, <1>5 DEF was

\* What two runs of effects open in inactive text adds up.
LEMMA SkipsBoth ==
  ASSUME NEW t \in Seq(Effect), NEW u \in Seq(Effect), NEW d \in Nat, NEW e \in Int,
         Skips(t, d), Skips(u, e)
  PROVE  Skips(t \o u, d + e)
<1> SUFFICES ASSUME NEW s \in Seq(Effect), Sifted(s).off > 0
             PROVE  Sifted(s \o (t \o u)) = [off |-> Sifted(s).off + (d + e), kept |-> Sifted(s).kept]
  BY DEF Skips
<1> DEFINE was == Sifted(s)
           then == Sifted(s \o t)
<1>1. s \o (t \o u) = (s \o t) \o u /\ s \o t \in Seq(Effect)
  BY EffectsAssociate
<1>2. was \in SiftState
  BY SiftedType
<1>3. then = [off |-> was.off + d, kept |-> was.kept]
  BY DEF Skips
<1>4. then.off > 0
  BY <1>2, <1>3 DEF SiftState
<1>5. Sifted((s \o t) \o u) = [off |-> then.off + e, kept |-> then.kept]
  BY <1>1, <1>4 DEF Skips
<1> HIDE DEF was, then
<1>6. then.off + e = was.off + (d + e) /\ then.kept = was.kept
  BY <1>2, <1>3 DEF SiftState
<1> QED
  BY <1>1, <1>5, <1>6 DEF was

-----------------------------------------------------------------------------
\* How many sections are open after one more line
LEMMA OpenAfterStep ==
  ASSUME NEW text, OneStatementPerLine(text)
  PROVE  /\ OpenAfter(text, 0) = 0
         /\ \A n \in 1..Len(text) :
              /\ OpenAfter(text, n - 1) \in Int
              /\ OpenAfter(text, n) = OpenAfter(text, n - 1) + Step(text[n].items[1])
<1> DEFINE O(n) == {i \in 1..n : Opens(text[i])}
           C(n) == {i \in 1..n : Closes(text[i])}
<1>1. O(0) = {} /\ C(0) = {}
  OBVIOUS
<1>2. OpenAfter(text, 0) = 0
  BY <1>1, FS_EmptySet DEF OpenAfter
<1>3. ASSUME NEW n \in 1..Len(text)
      PROVE  /\ OpenAfter(text, n - 1) \in Int
             /\ OpenAfter(text, n) = OpenAfter(text, n - 1) + Step(text[n].items[1])
  <2> DEFINE first == text[n].items[1]
             opens == first \in {"yes{", "no{"}
             closes == first = "}"
  <2>1. n \in Nat \ {0} /\ n - 1 \in Nat /\ n \notin 1..(n - 1) /\ 1..n = (1..(n - 1)) \cup {n}
    BY DEF OneStatementPerLine
  <2>2. O(n) = IF opens THEN O(n - 1) \cup {n} ELSE O(n - 1)
    BY <2>1 DEF Opens
  <2>3. C(n) = IF closes THEN C(n - 1) \cup {n} ELSE C(n - 1)
    BY <2>1 DEF Closes
  <2>4. IsFiniteSet(O(n - 1)) /\ IsFiniteSet(C(n - 1)) /\ n \notin O(n - 1) /\ n \notin C(n - 1)
    <3>1. IsFiniteSet(1..(n - 1))
      BY <2>1, FS_Interval
    <3>2. O(n - 1) \subseteq 1..(n - 1) /\ C(n - 1) \subseteq 1..(n - 1)
      OBVIOUS
    <3> QED
      BY <2>1, <3>1, <3>2, FS_Subset
  <2>5. Step(first) = IF opens THEN 1 ELSE IF closes THEN -1 ELSE 0
    BY Zenon DEF Step
  <2>6. ~(opens /\ closes)
    BY Zenon
  <2> HIDE DEF O, C, first, opens, closes
  <2>7. Cardinality(O(n)) = Cardinality(O(n - 1)) + (IF opens THEN 1 ELSE 0)
    BY <2>2, <2>4, FS_AddElement, FS_CardinalityType
  <2>8. Cardinality(C(n)) = Cardinality(C(n - 1)) + (IF closes THEN 1 ELSE 0)
    BY <2>3, <2>4, FS_AddElement, FS_CardinalityType
  <2>9. Cardinality(O(n - 1)) \in Nat /\ Cardinality(C(n - 1)) \in Nat
    BY <2>4, FS_CardinalityType
  <2>10. /\ OpenAfter(text, n) = Cardinality(O(n)) - Cardinality(C(n))
        /\ OpenAfter(text, n - 1) = Cardinality(O(n - 1)) - Cardinality(C(n - 1))
    BY DEF OpenAfter, O, C
  <2>12. OpenAfter(text, n) = OpenAfter(text, n - 1) + Step(first) /\ OpenAfter(text, n - 1) \in Int
    BY <2>5, <2>6, <2>7, <2>8, <2>9, <2>10
  <2> QED
    BY <2>12 DEF first
<1> QED
  BY <1>2, <1>3

\* Files that close the sections they open
AllSkipped(included) == \A uri \in DOMAIN Content : Skips(included[uri], 0)

\* In inactive text a statement only opens or closes its section.
LEMMA StatementSkipped ==
  ASSUME NEW line, OneStatement(line), NEW included \in Included, AllSkipped(included)
  PROVE  Skips(Effects(line, included), Step(line.items[1]))
<1> DEFINE first == line.items[1]
           effects == Effects(line, included)
<1>1. effects \in Seq(Effect)
  BY EffectsType
<1>2. CASE first = "include" /\ line.nl
  <2>1. Len(line.items) > 1 /\ line.items[2] \in DOMAIN Content
    BY <1>2 DEF OneStatement
  <2>2. Tail(line.items)[1] = line.items[2]
    <3>1. line.items \in Seq(Lexemes)
      BY DEF OneStatement, Lines
    <3> QED
      BY <2>1, <3>1, SecondLexeme
  <2>3. effects = included[line.items[2]]
    BY <1>2, <2>2 DEF Effects
  <2>4. Step(first) = 0
    BY <1>2 DEF Step
  <2> QED
    BY <2>1, <2>3, <2>4 DEF AllSkipped
<1>3. CASE (first = "include" /\ ~line.nl) \/ first = "#"
  <2>1. effects = <<>>
    BY <1>3 DEF Effects
  <2>2. Step(first) = 0
    BY <1>3 DEF Step
  <2> QED
    BY <2>1, <2>2, SkipsNothing
<1>4. CASE first \notin {"include", "#"}
  <2> DEFINE e == IF first = "key" THEN <<"STRING", IF line.nl THEN Tail(line.items) ELSE <<>> >>
                  ELSE <<first, <<first>> >>
  <2>1. effects = <<e>>
    BY <1>4, Zenon DEF Effects
  <2>2. Step(e[1]) = Step(first)
    BY DEF Step
  <2> HIDE DEF e, effects
  <2>3. e \in Effect
    BY <1>1, <2>1
  <2> QED
    BY <2>1, <2>2, <2>3, SkipsOne DEF effects
<1> HIDE DEF first, effects
<1>5. line.nl \in BOOLEAN
  BY DEF OneStatement, Lines
<1> QED
  BY <1>2, <1>3, <1>4, <1>5 DEF first, effects

\* In inactive text a file that closes its sections leaves nothing behind.
LEMMA FileSkipped ==
  ASSUME NEW text, OneStatementPerLine(text), ClosesItsSections(text),
         NEW included \in Included, AllSkipped(included)
  PROVE  Skips(AllEffects(text, included), 0)
<1> DEFINE N == Len(text)
<1>1. N \in Nat /\ OpenAfter(text, N) = 0 /\ \A n \in 0..N : OpenAfter(text, n) >= 0
  BY DEF OneStatementPerLine, ClosesItsSections
<1>2. PICK f \in [0..N -> Seq(Effect)] :
        AllEffects(text, included) = f[N] /\ EffectsBy(f, text, included)
  BY AllEffectsStepwise
<1> DEFINE S == {n \in 0..N : Skips(f[n], OpenAfter(text, n))}
<1>3. 0 \in S
  BY <1>1, <1>2, OpenAfterStep, SkipsNothing DEF EffectsBy
<1>4. ASSUME NEW n \in 0..(N - 1), n \in S PROVE n + 1 \in S
  <2>1. n + 1 \in 1..N /\ n + 1 \in 0..N /\ n \in 0..N /\ (n + 1) - 1 = n
    BY <1>1
  <2> DEFINE line == text[n + 1]
             d == OpenAfter(text, n)
             e == Step(line.items[1])
  <2>2. f[n + 1] = f[n] \o Effects(line, included)
    BY <1>2, <2>1 DEF EffectsBy
  <2>3. OneStatement(line)
    BY <2>1 DEF OneStatementPerLine
  <2>4. Skips(Effects(line, included), e) /\ Effects(line, included) \in Seq(Effect)
    BY <2>3, StatementSkipped, EffectsType
  <2>5. OpenAfter(text, n + 1) = d + e /\ d \in Int
    BY <2>1, OpenAfterStep
  <2>6. d >= 0 /\ f[n] \in Seq(Effect) /\ Skips(f[n], d)
    BY <1>1, <1>4, <2>1
  <2>7. e \in Int
    BY DEF Step
  <2> HIDE DEF d, e, line, N
  <2>8. d \in Nat
    BY <2>5, <2>6
  <2>9. Skips(f[n] \o Effects(line, included), d + e)
    BY <2>4, <2>6, <2>7, <2>8, SkipsBoth
  <2> QED
    BY <2>1, <2>2, <2>5, <2>9
<1>5. N \in S
  <2> HIDE DEF S, N
  <2>1. \A n \in 0..(N - 1) : n \in S => n + 1 \in S
    BY <1>4
  <2>2. N \in Nat /\ 0 \in Nat
    BY <1>1
  <2>3. \A n \in 0..N : n \in S
    BY <1>3, <2>1, <2>2, IntervalInduction
  <2> QED
    BY <2>2, <2>3
<1> QED
  BY <1>1, <1>2, <1>5

\* In inactive text, an include is skipped with all that it stands for.
LEMMA IncludesSkipped ==
  ASSUME FilesAsDocumented, NEW unreachable
  PROVE  \A n \in 0..MaxInclDepth : AllSkipped(IncludedAt(unreachable)[n])
<1> DEFINE I == IncludedAt(unreachable)
           S == {n \in 0..MaxInclDepth : AllSkipped(I[n])}
<1>1. MaxInclDepth \in Nat
  BY ScannerAssumption DEF MainFile
<1>2. /\ I \in [0..MaxInclDepth -> Included]
      /\ I[0] = [uri \in DOMAIN Content |-> <<>>]
      /\ \A n \in 1..MaxInclDepth : I[n] = Inclusion(I[n - 1], unreachable)
  BY IncludedStepwise
<1> HIDE DEF I
<1>3. 0 \in S
  BY <1>1, <1>2, SkipsNothing DEF AllSkipped
<1>4. ASSUME NEW n \in 0..(MaxInclDepth - 1), n \in S PROVE n + 1 \in S
  <2>1. n + 1 \in 1..MaxInclDepth /\ n + 1 \in 0..MaxInclDepth /\ n \in 0..MaxInclDepth /\ (n + 1) - 1 = n
    BY <1>1
  <2>2. I[n + 1] = Inclusion(I[n], unreachable) /\ I[n] \in Included /\ AllSkipped(I[n])
    BY <1>2, <1>4, <2>1
  <2>3. ASSUME NEW uri \in DOMAIN Content PROVE Skips(I[n + 1][uri], 0)
    <3> DEFINE e == <<"fetch", <<uri>> >>
               r == IF uri \in unreachable THEN <<>> ELSE AllEffects(Content[uri], I[n])
    <3>1. I[n + 1][uri] = <<e>> \o r
      BY <2>2 DEF Inclusion
    <3>2. e \in Effect
      <4>1. uri \in Lexemes
        BY DEF FilesAsDocumented
      <4>2. <<uri>> \in Seq(Lexemes)
        BY <4>1
      <4> QED
        BY <4>2, EffectType
    <3>3. Skips(<<e>>, 0)
      <4>1. Step(e[1]) = 0
        BY DEF Step
      <4> QED
        BY <3>2, <4>1, SkipsOne
    <3>4. r \in Seq(Effect) /\ Skips(r, 0)
      <4>1. AllEffects(Content[uri], I[n]) \in Seq(Effect) /\ Skips(AllEffects(Content[uri], I[n]), 0)
        BY <2>2, AllEffectsType, FileSkipped DEF FilesAsDocumented
      <4>2. <<>> \in Seq(Effect)
        OBVIOUS
      <4> QED
        BY <4>1, <4>2, SkipsNothing
    <3> HIDE DEF e, r
    <3>5. <<e>> \in Seq(Effect) /\ 0 \in Nat /\ 0 \in Int /\ 0 + 0 = 0
      BY <3>2
    <3>6. Skips(<<e>> \o r, 0 + 0)
      BY <3>3, <3>4, <3>5, SkipsBoth
    <3> QED
      BY <3>1, <3>5, <3>6
  <2> QED
    BY <2>1, <2>3 DEF AllSkipped
<1>5. \A n \in 0..MaxInclDepth : n \in S
  <2> HIDE DEF S
  <2>1. \A n \in 0..(MaxInclDepth - 1) : n \in S => n + 1 \in S
    BY <1>4
  <2> QED
    BY <1>1, <1>3, <2>1, IntervalInduction
<1> QED
  BY <1>5 DEF I

-----------------------------------------------------------------------------
(* The grammar, in a configuration *)

\* Where the tokens of a configuration lead
LEMMA ConfigMoves ==
  ASSUME NEW m \in Moves
  PROVE  /\ m[1] \in {"begin", "list"} =>
              /\ m[2] \in {"kset=", "knet=", "word", "net", "key", "yes{", "no{", "}"}
              /\ m[2] = "key" => m[3] = "text"
              /\ m[2] \in {"word", "net", "yes{", "no{", "}"} => m[3] = "list"
         /\ m[1] = "begin" => m[2] # "}"
         /\ m[1] = "text" => m[3] = "list"
<1>1. ASSUME NEW a, NEW b, NEW c, m = <<a, b, c>> PROVE m[1] = a /\ m[2] = b /\ m[3] = c
  BY <1>1
<1>2. CASE m \in DefinitionMoves
  <2>1. PICK s \in {"begin", "list"}, t \in Statements :
          m = <<s, t, IF t = "key" THEN "text" ELSE "list">>
    BY <1>2 DEF DefinitionMoves
  <2>2. m[1] = s /\ m[2] = t /\ m[3] = IF t = "key" THEN "text" ELSE "list"
    BY <1>1, <2>1
  <2> QED
    BY <2>2, Zenon DEF Statements
<1>3. CASE m \notin DefinitionMoves
  <2>1. \/ m = <<"begin", "kset=", "params">> \/ m = <<"begin", "knet=", "knet">>
        \/ m = <<"knet", "net", "done">> \/ m = <<"params", "dev", "more">>
        \/ m = <<"params", "net", "more">> \/ m = <<"params", "mod(", "mod">>
        \/ m = <<"mod", "IDENT", "named">> \/ m = <<"named", ")", "more">>
        \/ m = <<"more", ",", "params">> \/ m = <<"text", "STRING", "list">>
        \/ m = <<"list", "}", "list">>
    BY <1>3, Zenon DEF Moves
  <2>2. CASE m = <<"begin", "kset=", "params">> \/ m = <<"begin", "knet=", "knet">>
    <3>1. m[1] = "begin" /\ m[2] \in {"kset=", "knet="}
      BY <1>1, <2>2, Zenon
    <3> QED
      BY <3>1, Zenon
  <2>3. CASE \/ m = <<"knet", "net", "done">> \/ m = <<"params", "dev", "more">>
             \/ m = <<"params", "net", "more">> \/ m = <<"params", "mod(", "mod">>
             \/ m = <<"mod", "IDENT", "named">> \/ m = <<"named", ")", "more">>
             \/ m = <<"more", ",", "params">>
    <3>1. m[1] \in {"knet", "params", "mod", "named", "more"}
      BY <1>1, <2>3, Zenon
    <3> QED
      BY <3>1, Zenon
  <2>4. CASE m = <<"text", "STRING", "list">>
    <3>1. m[1] = "text" /\ m[3] = "list"
      BY <1>1, <2>4, Zenon
    <3> QED
      BY <3>1, Zenon
  <2>5. CASE m = <<"list", "}", "list">>
    <3>1. m[1] = "list" /\ m[2] = "}" /\ m[3] = "list"
      BY <1>1, <2>5, Zenon
    <3> QED
      BY <3>1, Zenon
  <2> QED
    BY <2>1, <2>2, <2>3, <2>4, <2>5, Zenon
<1> QED
  BY <1>2, <1>3

\* A token is taken along one of the moves.
LEMMA GotoMove ==
  ASSUME NEW token, Allowed(token), Goto(token)
  PROVE  \E m \in Moves : m[1] = expects /\ m[2] = token /\ expects' = m[3]
<1> DEFINE P(m) == m[1] = expects /\ m[2] = token
           m == CHOOSE n \in Moves : P(n)
<1>1. \E n \in Moves : P(n)
  BY DEF Allowed
<1>2. m \in Moves /\ P(m)
  BY <1>1, Zenon
<1>3. expects' = m[3]
  BY DEF Goto
<1> HIDE DEF m
<1> QED
  BY <1>2, <1>3

\* After a statement the grammar expects the next, after the word of one with a text the text.
LEMMA StatementMoves ==
  ASSUME NEW token, Allowed(token), Goto(token)
  PROVE  /\ expects \in {"begin", "list"} /\ token \in {"word", "net", "yes{", "no{", "}"} => expects' = "list"
         /\ expects \in {"begin", "list"} /\ token = "key" => expects' = "text"
         /\ expects = "text" => expects' = "list"
<1>1. PICK m \in Moves : m[1] = expects /\ m[2] = token /\ expects' = m[3]
  BY GotoMove
<1> QED
  BY <1>1, ConfigMoves, Zenon

\* No token of another list is allowed where a statement may begin.
LEMMA NotRecognized ==
  ASSUME expects \in {"begin", "list"}
  PROVE  ~Allowed("UNRECOGNIZED") /\ ~Allowed("STRING") /\ ~Allowed("IDENT") /\ ~Allowed(",") /\ ~Allowed(")")
<1>1. ~Allowed("UNRECOGNIZED")
  BY ConfigMoves, Zenon DEF Allowed
<1>2. ~Allowed("STRING")
  BY ConfigMoves, Zenon DEF Allowed
<1>3. ~Allowed("IDENT")
  BY ConfigMoves, Zenon DEF Allowed
<1>4. ~Allowed(",")
  BY ConfigMoves, Zenon DEF Allowed
<1>5. ~Allowed(")")
  BY ConfigMoves, Zenon DEF Allowed
<1> QED
  BY <1>1, <1>2, <1>3, <1>4, <1>5

\* No closing brace may begin a text.
LEMMA NothingToClose ==
  ASSUME expects = "begin"
  PROVE  ~Allowed("}")
BY ConfigMoves, Zenon DEF Allowed

-----------------------------------------------------------------------------
(* The open sections *)

\* The number of open sections from the outermost inactive one on
Off == IF Active THEN 0 ELSE system_depth - system_first_inactive + 1

\* Fewer than MAX_SYSTEM_DEPTH (999) sections are open inside one another.
DepthIsWithinLimit == Len(conds) < MaxSystemDepth

\* Either nothing is inactive or an open section is.
SectionsTidy ==
  /\ SectionTypes /\ DepthIsWithinLimit
  /\ system_first_inactive = MaxSystemDepth \/ system_first_inactive <= system_depth

\* Text is active while no inactive section is open.
LEMMA OffType ==
  ASSUME SectionsTidy
  PROVE  Off \in Nat /\ (Active <=> Off = 0) /\ (Active <=> ~(Off > 0))
BY DepthAssumption DEF Off, Active, SectionsTidy, SectionTypes

\* parser_enter_system() counts the inactive section and all those inside it.
LEMMA OffOpens ==
  ASSUME SectionsTidy, NEW cond \in BOOLEAN, ParserEnterSystem(cond), SectionTypes', DepthIsWithinLimit'
  PROVE  SectionsTidy' /\ Off' = IF ~cond \/ Off > 0 THEN Off + 1 ELSE Off
<1>1. /\ system_depth \in Nat /\ system_depth + 1 < MaxSystemDepth /\ system_depth' = system_depth + 1
      /\ system_first_inactive \in 1..MaxSystemDepth /\ MaxSystemDepth \in Nat
      /\ system_first_inactive = MaxSystemDepth \/ system_first_inactive <= system_depth
  <2>1. system_depth' = system_depth + 1 /\ system_depth' = Len(conds') /\ Len(conds') < MaxSystemDepth
    BY DEF ParserEnterSystem, SectionTypes, DepthIsWithinLimit
  <2>2. system_depth \in Nat
    BY DEF SectionsTidy, SectionTypes
  <2> QED
    BY <2>1, <2>2, DepthAssumption DEF SectionsTidy, SectionTypes
<1>2. CASE system_first_inactive <= system_depth
  <2>1. system_first_inactive' = system_first_inactive
    BY <1>1, <1>2 DEF ParserEnterSystem
  <2> QED
    BY <1>1, <1>2, <2>1 DEF SectionsTidy, Off, Active
<1>3. CASE system_first_inactive = MaxSystemDepth
  <2>1. system_first_inactive' = IF ~cond THEN system_depth + 1 ELSE MaxSystemDepth
    BY <1>1, <1>3 DEF ParserEnterSystem
  <2> QED
    BY <1>1, <1>3, <2>1 DEF SectionsTidy, Off, Active
<1> QED
  BY <1>1, <1>2, <1>3

\* parser_exit_system() takes the inactive sections back one by one.
LEMMA OffCloses ==
  ASSUME SectionsTidy, ExitSystem, SectionTypes', DepthIsWithinLimit'
  PROVE  SectionsTidy' /\ Off' = IF Off > 0 THEN Off - 1 ELSE Off
<1>1. system_depth > 0 /\ system_depth \in Nat
  BY EmptySeq DEF ExitSystem, SectionsTidy, SectionTypes
<1> QED
  BY <1>1, DepthAssumption DEF Off, Active, SectionsTidy, SectionTypes, ExitSystem, ParserExitSystem,
     DepthIsWithinLimit

\* Where no section is opened or closed the inactive ones are the same.
LEMMA OffKept ==
  ASSUME SectionsTidy, UNCHANGED sectionVars
  PROVE  SectionsTidy' /\ Off' = Off /\ (Active' <=> Active)
BY DEF Off, Active, SectionsTidy, SectionTypes, DepthIsWithinLimit, sectionVars

-----------------------------------------------------------------------------
(* What is left of a file *)

\* The effects that the rest of a line has in start condition m
LeftOfLine(m, line, included) ==
  IF m = "STRMODE" THEN << <<"STRING", IF line.nl THEN line.items ELSE <<>> >> >>
  ELSE IF m = "INCLUDEMODE"
       THEN IF line.nl /\ line.items # <<>> THEN included[line.items[1]] ELSE <<>>
  ELSE IF line.items = <<>> THEN <<>> ELSE Effects(line, included)

\* At the end of a file, the text of its last statement may be missing.
LeftAtEnd(m) == IF m = "STRMODE" THEN << <<"STRING", <<>> >> >> ELSE <<>>

\* The effects that the rest of a file has in start condition m
Left(m, text, included) ==
  IF text = <<>> THEN LeftAtEnd(m)
  ELSE LeftOfLine(m, Head(text), included) \o AllEffects(Tail(text), included)

\* The rest of a line of one statement
LineTidy(m, line) ==
  /\ line \in Lines
  /\ m = "INITIAL" => line.items = <<>> \/ OneStatement(line)
  /\ m = "INCLUDEMODE" /\ line.nl /\ line.items # <<>> => line.items[1] \in DOMAIN Content

\* The rest of a file of such lines
TextTidy(m, text) ==
  /\ m \in {"INITIAL", "STRMODE", "INCLUDEMODE"} /\ text \in Seq(Lines)
  /\ text # <<>> =>
       /\ LineTidy(m, Head(text)) /\ OneStatementPerLine(Tail(text))
       /\ ~Head(text).nl => Tail(text) = <<>>

\* What is left of a line is a sequence of effects.
LEMMA LeftOfLineType ==
  ASSUME NEW m \in {"INITIAL", "STRMODE", "INCLUDEMODE"}, NEW line, LineTidy(m, line),
         NEW included \in Included
  PROVE  LeftOfLine(m, line, included) \in Seq(Effect)
<1>1. line.items \in Seq(Lexemes) /\ line.nl \in BOOLEAN
  BY DEF LineTidy, Lines
<1>2. << <<"STRING", IF line.nl THEN line.items ELSE <<>> >> >> \in Seq(Effect)
  <2>1. (IF line.nl THEN line.items ELSE <<>>) \in Seq(Lexemes)
    BY <1>1
  <2>2. <<"STRING", IF line.nl THEN line.items ELSE <<>> >> \in Effect
    BY <2>1, EffectType
  <2> QED
    BY <2>2
<1>3. m = "INCLUDEMODE" /\ line.nl /\ line.items # <<>> => included[line.items[1]] \in Seq(Effect)
  BY DEF LineTidy, Included
<1>4. m = "INITIAL" /\ line.items # <<>> => Effects(line, included) \in Seq(Effect)
  BY EffectsType DEF LineTidy
<1>5. <<>> \in Seq(Effect)
  OBVIOUS
<1> QED
  BY <1>2, <1>3, <1>4, <1>5, Zenon DEF LeftOfLine

\* What is left of a file is a sequence of effects.
LEMMA LeftType ==
  ASSUME NEW m, NEW text, TextTidy(m, text), NEW included \in Included
  PROVE  Left(m, text, included) \in Seq(Effect)
<1>1. LeftAtEnd(m) \in Seq(Effect)
  <2>1. <<"STRING", <<>> >> \in Effect
    <3>1. <<>> \in Seq(Lexemes)
      OBVIOUS
    <3> QED
      BY <3>1, EffectType
  <2> QED
    BY <2>1 DEF LeftAtEnd
<1>2. ASSUME text # <<>> PROVE Left(m, text, included) \in Seq(Effect)
  <2> DEFINE line == Head(text)
  <2>1. LineTidy(m, line) /\ OneStatementPerLine(Tail(text)) /\ m \in {"INITIAL", "STRMODE", "INCLUDEMODE"}
    BY <1>2 DEF TextTidy
  <2>2. AllEffects(Tail(text), included) \in Seq(Effect)
    BY <2>1, AllEffectsType
  <2>3. LeftOfLine(m, line, included) \in Seq(Effect)
    BY <2>1, LeftOfLineType
  <2>4. Left(m, text, included) = LeftOfLine(m, line, included) \o AllEffects(Tail(text), included)
    BY <1>2 DEF Left
  <2> QED
    BY <2>2, <2>3, <2>4, EffectsAssociate
<1> QED
  BY <1>1, <1>2, Zenon DEF Left

\* What is left of a text that has not been begun
LEMMA LeftOfText ==
  ASSUME NEW text, OneStatementPerLine(text), NEW included \in Included
  PROVE  TextTidy("INITIAL", text) /\ Left("INITIAL", text, included) = AllEffects(text, included)
<1>1. CASE text = <<>>
  BY <1>1, AllEffectsType, Zenon DEF Left, LeftAtEnd, TextTidy, OneStatementPerLine
<1>2. CASE text # <<>>
  <2>1. OneStatementPerLine(Tail(text)) /\ OneStatement(Head(text)) /\ (~Head(text).nl => Tail(text) = <<>>)
    BY <1>2, TailOfText
  <2>2. Head(text).items # <<>> /\ Head(text) \in Lines
    BY <2>1 DEF OneStatement
  <2>3. TextTidy("INITIAL", text)
    BY <1>2, <2>1, <2>2, Zenon DEF TextTidy, LineTidy, OneStatementPerLine
  <2>4. LeftOfLine("INITIAL", Head(text), included) = Effects(Head(text), included)
    BY <2>2, Zenon DEF LeftOfLine
  <2> QED
    BY <1>2, <2>3, <2>4, FirstLine, Zenon DEF Left
<1> QED
  BY <1>1, <1>2

\* At the end of a file
LEMMA LeftAtEof ==
  ASSUME NEW m, NEW text, TextTidy(m, text), NEW included \in Included,
         text # <<>> => Head(text).items = <<>> /\ ~Head(text).nl
  PROVE  Left(m, text, included) = LeftAtEnd(m)
<1>1. CASE text = <<>>
  BY <1>1 DEF Left
<1>2. CASE text # <<>>
  <2>1. Tail(text) = <<>> /\ Head(text).items = <<>> /\ ~Head(text).nl /\ OneStatementPerLine(Tail(text))
    BY <1>2 DEF TextTidy
  <2>2. LeftOfLine(m, Head(text), included) = LeftAtEnd(m)
    BY <2>1, Zenon DEF LeftOfLine, LeftAtEnd
  <2>3. AllEffects(Tail(text), included) = <<>>
    BY <2>1, AllEffectsType
  <2>4. LeftAtEnd(m) \in Seq(Effect)
    <3>1. TextTidy(m, <<>>)
      BY DEF TextTidy
    <3>2. Left(m, <<>>, included) = LeftAtEnd(m)
      BY Zenon DEF Left
    <3> QED
      BY <3>1, <3>2, LeftType
  <2> QED
    BY <1>2, <2>2, <2>3, <2>4, ConcatEmptySeq, Zenon DEF Left
<1> QED
  BY <1>1, <1>2

\* The text when n lexemes of its first line have been matched
LEMMA MatchedText ==
  ASSUME buffer \in Seq(Lines), buffer # <<>>, NEW n \in 0..Len(Items)
  PROVE  /\ Matched(n) \in Seq(Lines) /\ Matched(n) # <<>> /\ Tail(Matched(n)) = Tail(buffer)
         /\ Head(Matched(n)).nl = Head(buffer).nl
         /\ Head(Matched(n)).items = SubSeq(Items, n + 1, Len(Items))
         /\ SubSeq(Items, n + 1, Len(Items)) \in Seq(Lexemes) /\ Items \in Seq(Lexemes)
         /\ n = Len(Items) => SubSeq(Items, n + 1, Len(Items)) = <<>>
         /\ n = 1 => SubSeq(Items, n + 1, Len(Items)) = Tail(Items)
         /\ Head(buffer) \in Lines /\ Tail(buffer) \in Seq(Lines)
<1>1. Head(buffer) \in Lines /\ Tail(buffer) \in Seq(Lines)
  BY HeadTailProperties
<1>2. Items \in Seq(Lexemes) /\ Head(buffer).nl \in BOOLEAN
  BY <1>1 DEF Items, Lines
<1> DEFINE line == [Head(buffer) EXCEPT !.items = SubSeq(Items, n + 1, Len(Items))]
<1>3. /\ SubSeq(Items, n + 1, Len(Items)) \in Seq(Lexemes)
      /\ n = Len(Items) => SubSeq(Items, n + 1, Len(Items)) = <<>>
      /\ n = 1 => SubSeq(Items, n + 1, Len(Items)) = Tail(Items)
  <2> DEFINE s == Items
  <2>1. s \in Seq(Lexemes) /\ n \in 0..Len(s)
    BY <1>2
  <2> HIDE DEF s
  <2>2. SubSeq(s, n + 1, Len(s)) \in Seq(Lexemes)
    <3>1. \A i \in (n + 1)..Len(s) : s[i] \in Lexemes
      BY <2>1
    <3>2. n + 1 \in Int /\ Len(s) \in Int
      BY <2>1
    <3> QED
      BY <3>1, <3>2, SubSeqProperties
  <2>3. ASSUME n = Len(s) PROVE SubSeq(s, n + 1, Len(s)) = <<>>
    <3>1. n + 1 \in Int /\ Len(s) \in Int /\ Len(s) < n + 1
      BY <2>1, <2>3
    <3> QED
      BY <3>1, SubSeqEmpty
  <2>4. ASSUME n = 1 PROVE SubSeq(s, n + 1, Len(s)) = Tail(s)
    <3>1. s # <<>> /\ n + 1 = 2
      BY <2>1, <2>4
    <3> QED
      BY <2>1, <3>1, TailIsSubSeq
  <2> QED
    BY <2>2, <2>3, <2>4 DEF s
<1>4. line \in Lines /\ line.nl = Head(buffer).nl /\ line.items = SubSeq(Items, n + 1, Len(Items))
  BY <1>1, <1>2, <1>3 DEF Lines
<1>5. Matched(n) = <<line>> \o Tail(buffer)
  BY DEF Matched, Items
<1> HIDE DEF line
<1>6. /\ <<line>> \o Tail(buffer) \in Seq(Lines) /\ <<line>> \o Tail(buffer) # <<>>
      /\ Head(<<line>> \o Tail(buffer)) = line /\ Tail(<<line>> \o Tail(buffer)) = Tail(buffer)
  <2> DEFINE t == Tail(buffer)
  <2>1. t \in Seq(Lines) /\ line \in Lines
    BY <1>1, <1>4
  <2> HIDE DEF t
  <2>2. <<line>> \o t \in Seq(Lines) /\ <<line>> \o t # <<>> /\ Head(<<line>> \o t) = line
    BY <2>1
  <2>3. Tail(<<line>> \o t) = t
    BY <2>1
  <2> QED
    BY <2>2, <2>3 DEF t
<1> QED
  BY <1>1, <1>2, <1>3, <1>4, <1>5, <1>6

-----------------------------------------------------------------------------
(* Reading a configuration *)

\* Two ways to put four runs of effects together are the same.
Regroups(a, b, c, d) == a \o ((b \o c) \o d) = (a \o b) \o (c \o d)

\* Four runs of effects can be put together from either end.
LEMMA EffectsShuffle ==
  ASSUME NEW a \in Seq(Effect), NEW b \in Seq(Effect), NEW c \in Seq(Effect), NEW d \in Seq(Effect)
  PROVE  Regroups(a, b, c, d)
<1>1. (b \o c) \o d = b \o (c \o d) /\ c \o d \in Seq(Effect)
  BY EffectsAssociate
<1>2. (a \o b) \o (c \o d) = a \o (b \o (c \o d))
  BY <1>1, EffectsAssociate
<1> QED
  BY <1>1, <1>2 DEF Regroups

\* The same for five, as when a file is opened
LEMMA EffectsShuffleMore ==
  ASSUME NEW a \in Seq(Effect), NEW b \in Seq(Effect), NEW c \in Seq(Effect), NEW d \in Seq(Effect),
         NEW e \in Seq(Effect)
  PROVE  a \o (((b \o c) \o d) \o e) = (a \o b) \o (c \o (d \o e))
<1> DEFINE f == b \o c
           g == d \o e
<1>1. f \in Seq(Effect) /\ g \in Seq(Effect)
  BY EffectsAssociate
<1> HIDE DEF g
<1>2. Regroups(a, b, c, g)
  BY <1>1, EffectsShuffle
<1> HIDE DEF f
<1>3. (f \o d) \o e = f \o g
  BY <1>1, EffectsAssociate DEF g
<1> QED
  BY <1>2, <1>3 DEF f, g, Regroups

\* What an include stands for where the scanner is
IncludedHere == IncludedAt(gone)[MaxInclDepth - top]

\* p gives what is left of the including files, from the i-th outwards.
Waiting(p) ==
  /\ p \in [0..MaxInclDepth -> Seq(Effect)] /\ p[0] = <<>>
  /\ \A i \in 1..top :
       p[i] = AllEffects(Tail(stack[i].rest), IncludedAt(gone)[MaxInclDepth - (i - 1)]) \o p[i - 1]

\* The expanded configuration is what has been seen and what is left; log is what was to be
\* kept of the former.
Split(seen, p) ==
  /\ seen \in Seq(Effect) /\ Waiting(p)
  /\ Expanded(main, gone) = seen \o (Left(mode, buffer, IncludedHere) \o p[top])
  /\ Sifted(seen) = [off |-> Off, kept |-> log]

\* An including file goes on at the end of the line with the include.
RestTidy(rest) ==
  /\ rest \in Seq(Lines) /\ rest # <<>>
  /\ Head(rest).items = <<>> /\ Head(rest).nl /\ OneStatementPerLine(Tail(rest))

\* The grammar waits for a text exactly when the scanner does.
GrammarReads ==
  /\ busy \in {"scan", "net", "waiting"}
  /\ expects \in {"begin", "list", "text"} /\ (expects = "text" <=> mode = "STRMODE")

\* All including files go on like that.
StackTidy == \A i \in 1..top : RestTidy(stack[i].rest)

\* What has been seen and what is left is the whole configuration.
SplitExists == \E seen, p : Split(seen, p)

\* The configuration is being read as it was meant.
Reading == GrammarReads /\ TextTidy(mode, buffer) /\ StackTidy /\ SplitExists

\* A start condition left over from the kernel arguments makes the scanner misread the
\* configuration, which is then refused.
Misread ==
  /\ busy = "scan" /\ mode \in {"STRMODE", "MODMODE"} /\ expects = "begin" /\ stack = <<>>

\* The configuration has been parsed, and accepted or not.
Parsed ==
  /\ busy = "none"
  /\ accepted[Len(accepted)] => log = Holding(Expanded(main, gone))

\* What always holds beside it
Context ==
  /\ FilesAsDocumented /\ FilesInv /\ SectionsTidy
  /\ main \in DOMAIN Content /\ accepted \in Seq(BOOLEAN)

\* Where the scanner is, an include stands for effects that inactive text drops.
LEMMA HereType ==
  ASSUME FilesAsDocumented, FilesInv
  PROVE  /\ IncludedHere \in Included /\ top \in 0..MaxInclDepth /\ MaxInclDepth \in Nat
         /\ AllSkipped(IncludedHere)
         /\ \A i \in 0..MaxInclDepth : IncludedAt(gone)[MaxInclDepth - i] \in Included
<1>1. MaxInclDepth \in Nat /\ top \in 0..MaxInclDepth
  <2>1. MaxInclDepth \in Nat
    BY ScannerAssumption DEF MainFile
  <2> QED
    BY <2>1 DEF FilesInv, CopyByLevel
<1>2. \A i \in 0..MaxInclDepth : MaxInclDepth - i \in 0..MaxInclDepth
  BY <1>1
<1>3. IncludedAt(gone) \in [0..MaxInclDepth -> Included]
  BY IncludedStepwise
<1> QED
  BY <1>1, <1>2, <1>3, IncludesSkipped DEF IncludedHere

-----------------------------------------------------------------------------
\* e is sifted as log and the open sections say.
Sifts(e) ==
  \A s \in Seq(Effect) : Sifted(s) = [off |-> Off, kept |-> log] =>
                           Sifted(s \o e) = [off |-> Off', kept |-> log']

\* Where nothing happens nothing is sifted.
LEMMA SiftsNothing ==
  ASSUME SectionsTidy, UNCHANGED <<log, sectionVars>>
  PROVE  Sifts(<<>>)
<1>1. Off' = Off /\ log' = log
  BY OffKept
<1>2. \A s \in Seq(Effect) : s \o <<>> = s
  BY ConcatEmptySeq
<1> QED
  BY <1>1, <1>2 DEF Sifts

\* One effect is sifted where the step does what Sift says.
LEMMA SiftsOne ==
  ASSUME NEW e \in Effect, Sift([off |-> Off, kept |-> log], e) = [off |-> Off', kept |-> log']
  PROVE  Sifts(<<e>>)
<1> SUFFICES ASSUME NEW s \in Seq(Effect), Sifted(s) = [off |-> Off, kept |-> log]
             PROVE  Sifted(s \o <<e>>) = [off |-> Off', kept |-> log']
  BY DEF Sifts
<1>1. s \o <<e>> = Append(s, e)
  BY AppendIsConcat
<1> QED
  BY <1>1, SiftedAppend

\* A statement has its effect in active text only.
LEMMA SiftsEffect ==
  ASSUME SectionsTidy, NEW e \in Effect, e[1] \notin {"yes{", "no{", "}"}, UNCHANGED sectionVars,
         log' = IF Active THEN Append(log, e) ELSE log
  PROVE  Sifts(<<e>>)
<1>1. Off' = Off /\ (Active <=> ~(Off > 0))
  BY OffKept, OffType
<1> DEFINE was == [off |-> Off, kept |-> log]
<1>2. was.off = Off /\ was.kept = log
  OBVIOUS
<1>3. CASE Active
  <2>1. ~(was.off > 0)
    BY <1>1, <1>2, <1>3, Zenon
  <2>2. Sift(was, e) = [was EXCEPT !.kept = Append(@, e)]
    BY <2>1, Zenon DEF Sift
  <2>3. log' = Append(log, e)
    BY <1>3, Zenon
  <2>4. Sift(was, e) = [off |-> Off', kept |-> log']
    BY <1>1, <2>2, <2>3
  <2> QED
    BY <2>4, SiftsOne
<1>4. CASE ~Active
  <2>1. was.off > 0
    BY <1>1, <1>2, <1>4, Zenon
  <2>2. Sift(was, e) = was
    BY <2>1, Zenon DEF Sift
  <2>3. log' = log
    BY <1>4, Zenon
  <2>4. Sift(was, e) = [off |-> Off', kept |-> log']
    BY <1>1, <2>2, <2>3
  <2> QED
    BY <2>4, SiftsOne
<1> QED
  BY <1>3, <1>4

\* Opening a section is sifted as parser_enter_system() counts it.
LEMMA SiftsOpening ==
  ASSUME SectionsTidy, NEW cond \in BOOLEAN, ParserEnterSystem(cond), SectionTypes', DepthIsWithinLimit',
         NEW e \in Effect, e[1] = (IF cond THEN "yes{" ELSE "no{"), log' = log
  PROVE  Sifts(<<e>>)
<1>1. Off' = (IF ~cond \/ Off > 0 THEN Off + 1 ELSE Off) /\ Off \in Nat
  BY OffOpens, OffType
<1> DEFINE was == [off |-> Off, kept |-> log]
<1>2. was.off = Off /\ was.kept = log
  OBVIOUS
<1>3. CASE ~cond \/ Off > 0
  <2>1. Sift(was, e) = [was EXCEPT !.off = @ + 1]
    BY <1>2, <1>3, Zenon DEF Sift
  <2>2. Sift(was, e) = [off |-> Off', kept |-> log']
    BY <1>1, <1>3, <2>1
  <2> QED
    BY <2>2, SiftsOne
<1>4. CASE ~(~cond \/ Off > 0)
  <2>1. Sift(was, e) = was
    BY <1>2, <1>4, Zenon DEF Sift
  <2>2. Sift(was, e) = [off |-> Off', kept |-> log']
    BY <1>1, <1>4, <2>1
  <2> QED
    BY <2>2, SiftsOne
<1> QED
  BY <1>3, <1>4

\* What EXCEPT does to the number of inactive sections.
LEMMA OneLess ==
  \A o, k : [[off |-> o, kept |-> k] EXCEPT !.off = @ - 1] = [off |-> o - 1, kept |-> k]
OBVIOUS

\* Closing a section is sifted as parser_exit_system() counts it.
LEMMA SiftsClosing ==
  ASSUME SectionsTidy, ExitSystem, SectionTypes', DepthIsWithinLimit',
         NEW e \in Effect, e[1] = "}", log' = log
  PROVE  Sifts(<<e>>)
<1>1. Off' = IF Off > 0 THEN Off - 1 ELSE Off
  BY OffCloses
<1> DEFINE was == [off |-> Off, kept |-> log]
<1>2. was.off = Off /\ was.kept = log
  OBVIOUS
<1>3. CASE Off > 0
  <2>1. Sift(was, e) = [was EXCEPT !.off = @ - 1]
    BY <1>2, <1>3, Zenon DEF Sift
  <2>2. [was EXCEPT !.off = @ - 1] = [off |-> Off - 1, kept |-> log]
    BY OneLess
  <2>3. Off' = Off - 1
    BY <1>1, <1>3, Zenon
  <2>4. Sift(was, e) = [off |-> Off', kept |-> log']
    BY <2>1, <2>2, <2>3, Zenon
  <2> QED
    BY <2>4, SiftsOne
<1>4. CASE ~(Off > 0)
  <2>1. Sift(was, e) = was
    BY <1>2, <1>4, Zenon DEF Sift
  <2>2. Sift(was, e) = [off |-> Off', kept |-> log']
    BY <1>1, <1>4, <2>1, Zenon
  <2> QED
    BY <2>2, SiftsOne
<1> QED
  BY <1>3, <1>4

\* What is skipped in inactive text leaves no trace.
LEMMA SiftsSkipped ==
  ASSUME SectionsTidy, ~Active, UNCHANGED <<log, sectionVars>>, NEW t, Skips(t, 0)
  PROVE  Sifts(t)
<1>1. Off' = Off /\ Off \in Nat /\ Off > 0
  BY OffKept, OffType
<1> SUFFICES ASSUME NEW s \in Seq(Effect), Sifted(s) = [off |-> Off, kept |-> log]
             PROVE  Sifted(s \o t) = [off |-> Off', kept |-> log']
  BY DEF Sifts
<1>2. Sifted(s).off = Off /\ Sifted(s).kept = log
  OBVIOUS
<1>3. Sifted(s \o t) = [off |-> Off + 0, kept |-> log]
  BY <1>1, <1>2 DEF Skips
<1> QED
  BY <1>1, <1>3

-----------------------------------------------------------------------------
\* The scanner goes on in the same file: the effects e of what it has matched pass from
\* what is left to what has been seen.
LEMMA GoesOn ==
  ASSUME Context, Reading, UNCHANGED <<stack, gone, main>>,
         GrammarReads', TextTidy(mode', buffer'), NEW e \in Seq(Effect), Sifts(e),
         Left(mode, buffer, IncludedHere) = e \o Left(mode', buffer', IncludedHere)
  PROVE  Reading'
<1>1. PICK seen, p : Split(seen, p)
  BY DEF Reading, SplitExists
<1>2. /\ seen \in Seq(Effect) /\ Waiting(p) /\ Sifted(seen) = [off |-> Off, kept |-> log]
      /\ Expanded(main, gone) = seen \o (Left(mode, buffer, IncludedHere) \o p[top])
  BY <1>1 DEF Split
<1>3. IncludedHere \in Included /\ top \in 0..MaxInclDepth
  BY HereType DEF Context
<1>4. Left(mode', buffer', IncludedHere) \in Seq(Effect)
  BY <1>3, LeftType
<1>5. p[top] \in Seq(Effect)
  BY <1>2, <1>3 DEF Waiting
<1>6. Expanded(main, gone) = (seen \o e) \o (Left(mode', buffer', IncludedHere) \o p[top])
  <2> DEFINE next == Left(mode', buffer', IncludedHere)
             outer == p[top]
  <2>1. next \in Seq(Effect) /\ outer \in Seq(Effect) /\ seen \in Seq(Effect)
    BY <1>2, <1>4, <1>5
  <2>2. Expanded(main, gone) = seen \o ((e \o next) \o outer)
    BY <1>2
  <2> HIDE DEF next, outer
  <2>3. Regroups(seen, e, next, outer)
    BY <2>1, EffectsShuffle
  <2> QED
    BY <2>2, <2>3 DEF next, outer, Regroups
<1>7. seen \o e \in Seq(Effect)
  BY <1>2, EffectsAssociate
<1>8. Sifted(seen \o e) = [off |-> Off', kept |-> log']
  BY <1>2 DEF Sifts
<1>9. top' = top /\ IncludedHere' = IncludedHere
  BY DEF top, IncludedHere
<1>10. Waiting(p)'
  BY <1>2, <1>9 DEF Waiting
<1>11. Split(seen \o e, p)'
  BY <1>6, <1>7, <1>8, <1>9, <1>10 DEF Split
<1>12. StackTidy'
  BY <1>9 DEF Reading, StackTidy
<1> QED
  BY <1>11, <1>12 DEF Reading, SplitExists

\* A text that is refused
LEMMA Refused ==
  ASSUME accepted \in Seq(BOOLEAN), accepted' = Append(accepted, FALSE), busy' = "none"
  PROVE  Parsed'
<1>1. accepted'[Len(accepted')] = FALSE
  OBVIOUS
<1> QED
  BY <1>1 DEF Parsed

\* All of the first line is matched, and what is left of it with it.
LEMMA LineMatched ==
  ASSUME TextTidy(mode, buffer), buffer # <<>>, NEW n \in 0..Len(Items),
         Head(Matched(n)).items = <<>>, NEW included \in Included
  PROVE  /\ TextTidy("INITIAL", Matched(n))
         /\ LeftOfLine(mode, Head(buffer), included) \in Seq(Effect)
         /\ Left(mode, buffer, included)
              = LeftOfLine(mode, Head(buffer), included) \o Left("INITIAL", Matched(n), included)
<1>1. /\ LineTidy(mode, Head(buffer)) /\ OneStatementPerLine(Tail(buffer)) /\ buffer \in Seq(Lines)
      /\ ~Head(buffer).nl => Tail(buffer) = <<>>
      /\ mode \in {"INITIAL", "STRMODE", "INCLUDEMODE"}
  BY DEF TextTidy
<1>2. /\ Matched(n) \in Seq(Lines) /\ Matched(n) # <<>> /\ Tail(Matched(n)) = Tail(buffer)
      /\ Head(Matched(n)).nl = Head(buffer).nl
  BY <1>1, MatchedText
<1>3. Head(Matched(n)) \in Lines
  BY <1>2, HeadTailProperties
<1>4. LineTidy("INITIAL", Head(Matched(n)))
  BY <1>3, Zenon DEF LineTidy
<1>5. TextTidy("INITIAL", Matched(n))
  BY <1>1, <1>2, <1>4, Zenon DEF TextTidy
<1>6. LeftOfLine(mode, Head(buffer), included) \in Seq(Effect)
  BY <1>1, LeftOfLineType
<1>7. LeftOfLine("INITIAL", Head(Matched(n)), included) = <<>>
  BY Zenon DEF LeftOfLine
<1>8. AllEffects(Tail(buffer), included) \in Seq(Effect)
  BY <1>1, AllEffectsType
<1>9. <<>> \o AllEffects(Tail(buffer), included) = AllEffects(Tail(buffer), included)
  BY <1>8, ConcatEmptySeq
<1>10. Left("INITIAL", Matched(n), included) = AllEffects(Tail(buffer), included)
  BY <1>2, <1>7, <1>9, Zenon DEF Left
<1>11. Left(mode, buffer, included) = LeftOfLine(mode, Head(buffer), included) \o AllEffects(Tail(buffer), included)
  BY Zenon DEF Left
<1> QED
  BY <1>5, <1>6, <1>10, <1>11

-----------------------------------------------------------------------------
(* The rules of the scanner, in a configuration *)

\* What a rule of the scanner leads to
ReadsOn == SectionsTidy /\ (Parsed \/ Reading)

\* The statements of one lexeme
SingleLexemes == {"word", "net", "yes{", "no{", "}"}

\* A statement begins in the initial mode, at the beginning of a line.
LEMMA StatementBegins ==
  ASSUME Reading, mode = "INITIAL", ~AtEof, Items # <<>>
  PROVE  /\ buffer # <<>> /\ OneStatement(Head(buffer)) /\ 1 \in 0..Len(Items)
         /\ Items \in Seq(Lexemes) /\ Items[1] \in Lexemes /\ buffer \in Seq(Lines)
         /\ expects \in {"begin", "list"}
         /\ \A included \in Included :
              LeftOfLine(mode, Head(buffer), included) = Effects(Head(buffer), included)
<1>1. buffer # <<>> /\ TextTidy(mode, buffer)
  BY Zenon DEF AtEof, Reading
<1>2. OneStatement(Head(buffer)) /\ buffer \in Seq(Lines)
  BY <1>1, Zenon DEF TextTidy, LineTidy, Items
<1>3. Items \in Seq(Lexemes)
  BY <1>2 DEF OneStatement, Lines, Items
<1>4. Len(Items) \in Nat \ {0}
  BY <1>3, EmptySeq
<1>5. 1 \in 0..Len(Items) /\ 1 \in 1..Len(Items)
  BY <1>4
<1>6. Items[1] \in Lexemes
  BY <1>3, <1>5, ElementOfSeq
<1>7. expects \in {"begin", "list"}
  BY Zenon DEF Reading, GrammarReads
<1>8. ASSUME NEW included \in Included
      PROVE  LeftOfLine(mode, Head(buffer), included) = Effects(Head(buffer), included)
  BY Zenon DEF LeftOfLine, Items
<1> QED
  BY <1>1, <1>2, <1>3, <1>5, <1>6, <1>7, <1>8

\* A statement that is one lexeme is matched at once.
LEMMA LexemeMatched ==
  ASSUME Context, Reading, mode = "INITIAL", ~AtEof, Items # <<>>, Items[1] \in SingleLexemes
  PROVE  /\ TextTidy("INITIAL", Matched(1)) /\ <<Items[1], <<Items[1]>> >> \in Effect
         /\ Left(mode, buffer, IncludedHere)
              = << <<Items[1], <<Items[1]>> >> >> \o Left("INITIAL", Matched(1), IncludedHere)
<1>1. /\ buffer # <<>> /\ OneStatement(Head(buffer)) /\ 1 \in 0..Len(Items) /\ Items[1] \in Lexemes
      /\ buffer \in Seq(Lines)
      /\ \A included \in Included :
           LeftOfLine(mode, Head(buffer), included) = Effects(Head(buffer), included)
  BY StatementBegins
<1>2. Len(Items) = 1
  BY <1>1, Zenon DEF OneStatement, Items, SingleLexemes
<1>3. Head(Matched(1)).items = <<>>
  BY <1>1, <1>2, MatchedText
<1>4. IncludedHere \in Included
  BY HereType DEF Context
<1>5. Effects(Head(buffer), IncludedHere) = << <<Items[1], <<Items[1]>> >> >>
  BY Zenon DEF Effects, Items, SingleLexemes
<1>6. TextTidy(mode, buffer)
  BY DEF Reading
<1>7. <<Items[1], <<Items[1]>> >> \in Effect
  <2>1. <<Items[1]>> \in Seq(Lexemes)
    BY <1>1
  <2> QED
    BY <1>1, <2>1, EffectType
<1> QED
  BY <1>1, <1>3, <1>4, <1>5, <1>6, <1>7, LineMatched

\* The rule that opens a section keeps to the expanded text.
LEMMA OpenSectionReads ==
  ASSUME Context, Reading, SectionTypes', DepthIsWithinLimit', main' = main,
         NEW cond \in BOOLEAN, OpenSection(cond)
  PROVE  ReadsOn'
<1> DEFINE e == <<Items[1], <<Items[1]>> >>
<1>1. /\ mode = "INITIAL" /\ ~AtEof /\ Items # <<>> /\ Items[1] = (IF cond THEN "yes{" ELSE "no{")
      /\ Allowed(Items[1]) /\ Goto(Items[1]) /\ ParserEnterSystem(cond)
      /\ buffer' = Matched(1) /\ UNCHANGED <<mode, stack, gone, busy, log>>
  BY DEF OpenSection
<1>2. Items[1] \in SingleLexemes
  BY <1>1, Zenon DEF SingleLexemes
<1>3. /\ TextTidy("INITIAL", Matched(1)) /\ e \in Effect
      /\ Left(mode, buffer, IncludedHere) = <<e>> \o Left("INITIAL", Matched(1), IncludedHere)
  BY <1>1, <1>2, LexemeMatched
<1>4. expects' = "list"
  BY <1>1, <1>2, StatementBegins, StatementMoves, Zenon DEF SingleLexemes
<1>5. GrammarReads'
  BY <1>1, <1>4, Zenon DEF Reading, GrammarReads
<1>6. e[1] = (IF cond THEN "yes{" ELSE "no{")
  BY <1>1
<1> HIDE DEF e
<1>7. Sifts(<<e>>) /\ SectionsTidy'
  BY <1>1, <1>3, <1>6, SiftsOpening, OffOpens DEF Context
<1>8. <<e>> \in Seq(Effect)
  BY <1>3
<1>9. TextTidy(mode', buffer')
  BY <1>1, <1>3
<1>10. Left(mode, buffer, IncludedHere) = <<e>> \o Left(mode', buffer', IncludedHere)
  BY <1>1, <1>3
<1>11. Reading'
  BY <1>1, <1>5, <1>7, <1>8, <1>9, <1>10, GoesOn
<1> QED
  BY <1>7, <1>11 DEF ReadsOn

\* The rule that closes a section keeps to the expanded text.
LEMMA CloseSectionReads ==
  ASSUME Context, Reading, SectionTypes', DepthIsWithinLimit', main' = main, CloseSection
  PROVE  ReadsOn'
<1> DEFINE e == <<Items[1], <<Items[1]>> >>
<1>1. /\ mode = "INITIAL" /\ ~AtEof /\ Items # <<>> /\ Items[1] = "}"
      /\ Allowed(Items[1]) /\ Goto(Items[1]) /\ ExitSystem
      /\ buffer' = Matched(1) /\ UNCHANGED <<mode, stack, gone, busy, log>>
  BY Zenon DEF CloseSection
<1>2. Items[1] \in SingleLexemes
  BY <1>1, Zenon DEF SingleLexemes
<1>3. /\ TextTidy("INITIAL", Matched(1)) /\ e \in Effect
      /\ Left(mode, buffer, IncludedHere) = <<e>> \o Left("INITIAL", Matched(1), IncludedHere)
  BY <1>1, <1>2, LexemeMatched
<1>4. expects' = "list"
  BY <1>1, <1>2, StatementBegins, StatementMoves, Zenon DEF SingleLexemes
<1>5. GrammarReads'
  BY <1>1, <1>4, Zenon DEF Reading, GrammarReads
<1>6. e[1] = "}"
  BY <1>1
<1> HIDE DEF e
<1>7. Sifts(<<e>>) /\ SectionsTidy'
  BY <1>1, <1>3, <1>6, SiftsClosing, OffCloses DEF Context
<1>8. <<e>> \in Seq(Effect)
  BY <1>3
<1>9. TextTidy(mode', buffer')
  BY <1>1, <1>3
<1>10. Left(mode, buffer, IncludedHere) = <<e>> \o Left(mode', buffer', IncludedHere)
  BY <1>1, <1>3
<1>11. Reading'
  BY <1>1, <1>5, <1>7, <1>8, <1>9, <1>10, GoesOn
<1> QED
  BY <1>7, <1>11 DEF ReadsOn

\* A token that is not allowed ends the parser.
LEMMA TokenRefused ==
  ASSUME Context, NEW token, NEW text, Token(token, text), ~Allowed(token)
  PROVE  ReadsOn'
<1>1. accepted' = Append(accepted, FALSE) /\ busy' = "none" /\ UNCHANGED sectionVars
  BY DEF Token
<1>2. Parsed' /\ SectionsTidy'
  BY <1>1, Refused, OffKept DEF Context
<1> QED
  BY <1>2 DEF ReadsOn

\* "word" and "net"
LEMMA StatementReads ==
  ASSUME Context, Reading, main' = main, mode = "INITIAL", ~AtEof, Items # <<>>, busy = "scan",
         Items[1] \in {"word", "net"}, Token(Items[1], <<Items[1]>>), buffer' = Matched(1),
         mode' = "INITIAL", UNCHANGED <<stack, gone>>
  PROVE  ReadsOn'
<1> DEFINE e == <<Items[1], <<Items[1]>> >>
<1>1. CASE ~Allowed(Items[1])
  BY <1>1, TokenRefused
<1>2. CASE Allowed(Items[1])
  <2>1. Items[1] \in SingleLexemes
    BY Zenon DEF SingleLexemes
  <2>2. /\ TextTidy("INITIAL", Matched(1)) /\ e \in Effect
        /\ Left(mode, buffer, IncludedHere) = <<e>> \o Left("INITIAL", Matched(1), IncludedHere)
    BY <2>1, LexemeMatched
  <2>3. /\ Goto(Items[1]) /\ busy' \in {"scan", "net"} /\ UNCHANGED sectionVars
        /\ log' = IF Active THEN Append(log, e) ELSE log
    BY <1>2, Zenon DEF Token
  <2>4. expects' = "list"
    BY <1>2, <2>3, StatementBegins, StatementMoves, Zenon
  <2>5. GrammarReads'
    BY <2>3, <2>4, Zenon DEF GrammarReads
  <2>6. e[1] \notin {"yes{", "no{", "}"}
    <3>1. e[1] = Items[1]
      OBVIOUS
    <3> HIDE DEF e
    <3> QED
      BY <3>1, Zenon
  <2> HIDE DEF e
  <2>7. Sifts(<<e>>) /\ SectionsTidy'
    BY <2>2, <2>3, <2>6, SiftsEffect, OffKept DEF Context
  <2>8. <<e>> \in Seq(Effect)
    BY <2>2
  <2>9. TextTidy(mode', buffer')
    BY <2>2
  <2>10. Left(mode, buffer, IncludedHere) = <<e>> \o Left(mode', buffer', IncludedHere)
    BY <2>2
  <2>11. Reading'
    BY <2>5, <2>7, <2>8, <2>9, <2>10, GoesOn
  <2> QED
    BY <2>7, <2>11 DEF ReadsOn
<1> QED
  BY <1>1, <1>2

\* The first lexeme of a line is matched, and what is left of the line stays in another mode.
LEMMA KeywordMatched ==
  ASSUME Context, Reading, UNCHANGED <<stack, gone, main, log, sectionVars>>, GrammarReads',
         mode = "INITIAL", ~AtEof, Items # <<>>, buffer' = Matched(1),
         mode' \in {"STRMODE", "INCLUDEMODE"}, LineTidy(mode', Head(Matched(1))),
         LeftOfLine(mode, Head(buffer), IncludedHere) = LeftOfLine(mode', Head(Matched(1)), IncludedHere)
  PROVE  ReadsOn'
<1>1. buffer # <<>> /\ 1 \in 0..Len(Items) /\ buffer \in Seq(Lines)
  BY StatementBegins
<1>2. /\ Matched(1) \in Seq(Lines) /\ Matched(1) # <<>> /\ Tail(Matched(1)) = Tail(buffer)
      /\ Head(Matched(1)).nl = Head(buffer).nl
  BY <1>1, MatchedText
<1>3. TextTidy(mode, buffer)
  BY DEF Reading
<1>4. TextTidy(mode', buffer')
  BY <1>1, <1>2, <1>3, Zenon DEF TextTidy
<1>5. IncludedHere \in Included
  BY HereType DEF Context
<1>6. Left(mode, buffer, IncludedHere) = Left(mode', buffer', IncludedHere)
  BY <1>1, <1>2, Zenon DEF Left
<1>7. Left(mode', buffer', IncludedHere) \in Seq(Effect)
  BY <1>4, <1>5, LeftType
<1>8. Left(mode, buffer, IncludedHere) = <<>> \o Left(mode', buffer', IncludedHere)
  BY <1>6, <1>7, ConcatEmptySeq
<1>9. Sifts(<<>>) /\ SectionsTidy'
  BY SiftsNothing, OffKept DEF Context
<1>10. <<>> \in Seq(Effect)
  OBVIOUS
<1>11. Reading'
  BY <1>4, <1>8, <1>9, <1>10, GoesOn
<1> QED
  BY <1>9, <1>11 DEF ReadsOn

\* "key"
LEMMA KeyReads ==
  ASSUME Context, Reading, main' = main, mode = "INITIAL", ~AtEof, Items # <<>>, busy = "scan",
         Items[1] = "key", Token("key", <<Items[1]>>), buffer' = Matched(1),
         mode' = "STRMODE", UNCHANGED <<stack, gone>>
  PROVE  ReadsOn'
<1>1. CASE ~Allowed("key")
  BY <1>1, TokenRefused
<1>2. CASE Allowed("key")
  <2>1. Goto("key") /\ busy' = "scan" /\ UNCHANGED <<log, sectionVars>>
    BY <1>2, Zenon DEF Token
  <2>2. expects' = "text"
    BY <1>2, <2>1, StatementBegins, StatementMoves, Zenon
  <2>3. GrammarReads'
    BY <2>1, <2>2, Zenon DEF GrammarReads
  <2>4. /\ buffer # <<>> /\ 1 \in 0..Len(Items) /\ buffer \in Seq(Lines) /\ OneStatement(Head(buffer))
        /\ \A included \in Included :
             LeftOfLine(mode, Head(buffer), included) = Effects(Head(buffer), included)
    BY StatementBegins
  <2>5. /\ Matched(1) \in Seq(Lines) /\ Matched(1) # <<>> /\ Head(Matched(1)).nl = Head(buffer).nl
        /\ Head(Matched(1)).items = Tail(Items)
    BY <2>4, MatchedText
  <2>6. LineTidy("STRMODE", Head(Matched(1)))
    BY <2>5, HeadTailProperties, Zenon DEF LineTidy
  <2>7. IncludedHere \in Included
    BY HereType DEF Context
  <2>8. LeftOfLine(mode, Head(buffer), IncludedHere) = LeftOfLine("STRMODE", Head(Matched(1)), IncludedHere)
    BY <2>4, <2>5, <2>7, Zenon DEF LeftOfLine, Effects, Items
  <2> QED
    BY <2>1, <2>3, <2>6, <2>8, KeywordMatched
<1> QED
  BY <1>1, <1>2

\* "include"
LEMMA IncludeKeywordReads ==
  ASSUME Context, Reading, main' = main, mode = "INITIAL", ~AtEof, Items # <<>>, busy = "scan",
         Items[1] = "include", NoToken, buffer' = Matched(1),
         mode' = "INCLUDEMODE", UNCHANGED <<stack, gone>>
  PROVE  ReadsOn'
<1>1. UNCHANGED <<expects, log, busy, sectionVars>>
  BY DEF NoToken
<1>2. GrammarReads'
  BY <1>1, Zenon DEF GrammarReads, Reading
<1>3. /\ buffer # <<>> /\ 1 \in 0..Len(Items) /\ buffer \in Seq(Lines) /\ OneStatement(Head(buffer))
      /\ Items \in Seq(Lexemes)
      /\ \A included \in Included :
           LeftOfLine(mode, Head(buffer), included) = Effects(Head(buffer), included)
  BY StatementBegins
<1>4. /\ Matched(1) \in Seq(Lines) /\ Matched(1) # <<>> /\ Head(Matched(1)).nl = Head(buffer).nl
      /\ Head(Matched(1)).items = Tail(Items)
  BY <1>3, MatchedText
<1>5. Head(buffer).nl => Len(Items) > 1 /\ Items[2] \in DOMAIN Content
  BY <1>3, Zenon DEF OneStatement, Items
<1>6. Head(buffer).nl => Tail(Items)[1] = Items[2] /\ Tail(Items) # <<>>
  BY <1>3, <1>5, SecondLexeme
<1>7. LineTidy("INCLUDEMODE", Head(Matched(1)))
  <2>1. Head(Matched(1)) \in Lines
    BY <1>4, HeadTailProperties
  <2> QED
    BY <1>4, <1>5, <1>6, <2>1, Zenon DEF LineTidy
<1>8. IncludedHere \in Included
  BY HereType DEF Context
<1>9. LeftOfLine(mode, Head(buffer), IncludedHere) = LeftOfLine("INCLUDEMODE", Head(Matched(1)), IncludedHere)
  <2>1. LeftOfLine(mode, Head(buffer), IncludedHere)
          = IF Head(buffer).nl THEN IncludedHere[Tail(Items)[1]] ELSE <<>>
    BY <1>3, <1>8, Zenon DEF Effects, Items
  <2>2. LeftOfLine("INCLUDEMODE", Head(Matched(1)), IncludedHere)
          = IF Head(buffer).nl /\ Tail(Items) # <<>> THEN IncludedHere[Tail(Items)[1]] ELSE <<>>
    BY <1>4, Zenon DEF LeftOfLine
  <2> QED
    BY <1>6, <2>1, <2>2, Zenon
<1> QED
  BY <1>1, <1>2, <1>7, <1>9, KeywordMatched

-----------------------------------------------------------------------------
\* What is left of the line is a sequence of lexemes.
LEMMA ItemsType ==
  ASSUME buffer \in Seq(Lines), buffer # <<>>
  PROVE  Items \in Seq(Lexemes) /\ Len(Items) \in 0..Len(Items)
<1>1. Head(buffer) \in Lines
  BY HeadTailProperties
<1>2. Items \in Seq(Lexemes)
  BY <1>1 DEF Items, Lines
<1>3. Len(Items) \in Nat
  BY <1>2
<1> QED
  BY <1>2, <1>3

\* A statement of one lexeme, or the word before a text or URI, keeps to it.
LEMMA LexemeReads ==
  ASSUME Context, Reading, main' = main, Lexeme
  PROVE  ReadsOn'
<1>1. /\ busy = "scan" /\ mode = "INITIAL" /\ ~AtEof /\ Items # <<>> /\ buffer' = Matched(1)
      /\ mode' = Mode(Items[1]) /\ UNCHANGED <<stack, gone>>
      /\ Items[1] \in {"yes{", "no{", "}"} => ~Allowed(Items[1])
      /\ Items[1] = "#" => ~Head(buffer).nl
  BY Zenon DEF Lexeme
<1>2. OneStatement(Head(buffer)) /\ expects \in {"begin", "list"}
  BY <1>1, StatementBegins
<1>3. Items[1] \in {"key", "#", "include", "word", "net", "yes{", "no{", "}"}
  BY <1>2, Zenon DEF OneStatement, Items
<1>4. CASE Items[1] = "include"
  <2>1. NoToken /\ mode' = "INCLUDEMODE"
    BY <1>1, <1>4, Zenon DEF Lexeme, Mode
  <2> QED
    BY <1>1, <1>4, <2>1, IncludeKeywordReads
<1>5. CASE Items[1] = "key"
  <2>1. Token("key", <<Items[1]>>) /\ mode' = "STRMODE"
    BY <1>1, <1>5, Zenon DEF Lexeme, Mode, Keywords, Statements
  <2> QED
    BY <1>1, <1>5, <2>1, KeyReads
<1>6. CASE Items[1] \in {"word", "net"}
  <2>1. Token(Items[1], <<Items[1]>>) /\ mode' = "INITIAL"
    BY <1>1, <1>6, Zenon DEF Lexeme, Mode, Keywords, Statements
  <2> QED
    BY <1>1, <1>6, <2>1, StatementReads
<1>7. CASE Items[1] \in {"yes{", "no{", "}"}
  <2>1. Token(Items[1], <<Items[1]>>) /\ ~Allowed(Items[1])
    BY <1>1, <1>7, Zenon DEF Lexeme, Keywords, Statements
  <2> QED
    BY <2>1, TokenRefused
<1>8. CASE Items[1] = "#"
  <2>1. Token("UNRECOGNIZED", <<Items[1]>>)
    BY <1>1, <1>8, Zenon DEF Lexeme, Keywords, Statements
  <2>2. ~Allowed("UNRECOGNIZED")
    BY <1>2, NotRecognized
  <2> QED
    BY <2>1, <2>2, TokenRefused
<1> QED
  BY <1>3, <1>4, <1>5, <1>6, <1>7, <1>8, Zenon

\* The text of a statement is the rest of its line.
LEMMA RestOfLineReads ==
  ASSUME Context, Reading, main' = main, RestOfLine
  PROVE  ReadsOn'
<1> DEFINE e == <<"STRING", Items>>
<1>1. /\ busy = "scan" /\ mode = "STRMODE" /\ ~AtEof /\ Head(buffer).nl /\ mode' = "INITIAL"
      /\ buffer' = Matched(Len(Items)) /\ Token("STRING", Items) /\ UNCHANGED <<stack, gone>>
  BY DEF RestOfLine
<1>2. CASE ~Allowed("STRING")
  BY <1>1, <1>2, TokenRefused
<1>3. CASE Allowed("STRING")
  <2>1. buffer # <<>> /\ TextTidy(mode, buffer) /\ buffer \in Seq(Lines)
    BY <1>1, Zenon DEF AtEof, Reading, TextTidy
  <2>2. Items \in Seq(Lexemes)
    BY <2>1, ItemsType
  <2>3. Len(Items) \in 0..Len(Items)
    BY <2>2
  <2>4. Head(Matched(Len(Items))).items = <<>>
    BY <2>1, <2>3, MatchedText
  <2>5. IncludedHere \in Included
    BY HereType DEF Context
  <2>6. /\ TextTidy("INITIAL", Matched(Len(Items)))
        /\ Left(mode, buffer, IncludedHere)
             = LeftOfLine(mode, Head(buffer), IncludedHere) \o Left("INITIAL", Matched(Len(Items)), IncludedHere)
    BY <2>1, <2>3, <2>4, <2>5, LineMatched
  <2>7. LeftOfLine(mode, Head(buffer), IncludedHere) = <<e>>
    BY <1>1, Zenon DEF LeftOfLine, Items
  <2>8. e \in Effect
    BY <2>2, EffectType
  <2>9. /\ Goto("STRING") /\ busy' = busy /\ UNCHANGED sectionVars
        /\ log' = IF Active THEN Append(log, e) ELSE log
    BY <1>1, <1>3, Zenon DEF Token
  <2>10. expects = "text"
    BY <1>1, Zenon DEF Reading, GrammarReads
  <2>11. expects' = "list"
    BY <1>3, <2>9, <2>10, StatementMoves
  <2>12. GrammarReads'
    BY <1>1, <2>9, <2>11, Zenon DEF GrammarReads
  <2>13. e[1] \notin {"yes{", "no{", "}"}
    <3>1. e[1] = "STRING"
      OBVIOUS
    <3> HIDE DEF e
    <3> QED
      BY <3>1, Zenon
  <2> HIDE DEF e
  <2>14. Sifts(<<e>>) /\ SectionsTidy'
    BY <2>8, <2>9, <2>13, SiftsEffect, OffKept DEF Context
  <2>15. <<e>> \in Seq(Effect)
    BY <2>8
  <2>16. TextTidy(mode', buffer')
    BY <1>1, <2>6
  <2>17. Left(mode, buffer, IncludedHere) = <<e>> \o Left(mode', buffer', IncludedHere)
    BY <1>1, <2>6, <2>7
  <2>18. Reading'
    BY <1>1, <2>12, <2>14, <2>15, <2>16, <2>17, GoesOn
  <2> QED
    BY <2>14, <2>18 DEF ReadsOn
<1> QED
  BY <1>2, <1>3

\* What has no effect: the rest of a cut line, comments and ends of lines
LEMMA NoEffectReads ==
  ASSUME Context, Reading, UNCHANGED <<stack, gone, main, log, mode>>, NoToken,
         TextTidy(mode, buffer'),
         Left(mode, buffer, IncludedHere) = Left(mode, buffer', IncludedHere)
  PROVE  ReadsOn'
<1>1. UNCHANGED <<expects, busy, sectionVars>>
  BY DEF NoToken
<1>2. GrammarReads'
  BY <1>1, Zenon DEF GrammarReads, Reading
<1>3. IncludedHere \in Included
  BY HereType DEF Context
<1>4. Left(mode, buffer', IncludedHere) \in Seq(Effect)
  BY <1>3, LeftType
<1>5. Left(mode, buffer, IncludedHere) = <<>> \o Left(mode, buffer', IncludedHere)
  BY <1>4, ConcatEmptySeq
<1>6. Sifts(<<>>) /\ SectionsTidy'
  BY <1>1, SiftsNothing, OffKept DEF Context
<1>7. <<>> \in Seq(Effect) /\ TextTidy(mode', buffer')
  OBVIOUS
<1>8. Left(mode, buffer, IncludedHere) = <<>> \o Left(mode', buffer', IncludedHere)
  BY <1>5
<1>9. Reading'
  BY <1>2, <1>6, <1>7, <1>8, GoesOn
<1> QED
  BY <1>6, <1>9 DEF ReadsOn

\* A last line without its newline loses its text or its include, and nothing else.
LEMMA EchoRestReads ==
  ASSUME Context, Reading, main' = main, EchoRest
  PROVE  ReadsOn'
<1>1. /\ mode \in {"STRMODE", "INCLUDEMODE"} /\ buffer' = <<>> /\ NoToken /\ ~AtEof /\ ~Head(buffer).nl
      /\ UNCHANGED <<mode, stack, gone>>
  BY DEF EchoRest
<1>2. buffer # <<>> /\ TextTidy(mode, buffer)
  BY <1>1, Zenon DEF AtEof, Reading
<1>3. Tail(buffer) = <<>> /\ OneStatementPerLine(Tail(buffer))
  BY <1>1, <1>2, Zenon DEF TextTidy
<1>4. IncludedHere \in Included
  BY HereType DEF Context
<1>5. AllEffects(Tail(buffer), IncludedHere) = <<>>
  BY <1>3, <1>4, AllEffectsType
<1>6. LeftOfLine(mode, Head(buffer), IncludedHere) = LeftAtEnd(mode)
  BY <1>1, Zenon DEF LeftOfLine, LeftAtEnd
<1>7. TextTidy(mode, <<>>)
  <2>1. <<>> \in Seq(Lines)
    OBVIOUS
  <2> QED
    BY <1>1, <2>1, Zenon DEF TextTidy
<1>8. Left(mode, <<>>, IncludedHere) = LeftAtEnd(mode)
  BY Zenon DEF Left
<1>9. LeftAtEnd(mode) \in Seq(Effect)
  BY <1>4, <1>7, <1>8, LeftType
<1>10. LeftAtEnd(mode) \o <<>> = LeftAtEnd(mode)
  BY <1>9, ConcatEmptySeq
<1>11. Left(mode, buffer, IncludedHere) = LeftAtEnd(mode)
  BY <1>2, <1>5, <1>6, <1>10, Zenon DEF Left
<1> QED
  BY <1>1, <1>7, <1>8, <1>11, NoEffectReads DEF NoToken

\* A comment has no effect.
LEMMA CommentReads ==
  ASSUME Context, Reading, main' = main, Comment
  PROVE  ReadsOn'
<1>1. /\ mode = "INITIAL" /\ ~AtEof /\ Items # <<>> /\ Items[1] = "#" /\ Head(buffer).nl
      /\ buffer' = Matched(Len(Items)) /\ NoToken /\ UNCHANGED <<mode, stack, gone>>
  BY DEF Comment
<1>2. /\ buffer # <<>> /\ Items \in Seq(Lexemes) /\ buffer \in Seq(Lines)
      /\ \A included \in Included :
           LeftOfLine(mode, Head(buffer), included) = Effects(Head(buffer), included)
  BY <1>1, StatementBegins
<1>3. Len(Items) \in 0..Len(Items)
  BY <1>2
<1>4. Head(Matched(Len(Items))).items = <<>>
  BY <1>2, <1>3, MatchedText
<1>5. IncludedHere \in Included
  BY HereType DEF Context
<1>6. TextTidy(mode, buffer)
  BY DEF Reading
<1>7. /\ TextTidy("INITIAL", Matched(Len(Items)))
      /\ Left(mode, buffer, IncludedHere)
           = LeftOfLine(mode, Head(buffer), IncludedHere) \o Left("INITIAL", Matched(Len(Items)), IncludedHere)
  BY <1>2, <1>3, <1>4, <1>5, <1>6, LineMatched
<1>8. LeftOfLine(mode, Head(buffer), IncludedHere) = <<>>
  BY <1>1, <1>2, <1>5, Zenon DEF Effects, Items
<1>9. Left("INITIAL", Matched(Len(Items)), IncludedHere) \in Seq(Effect)
  BY <1>5, <1>7, LeftType
<1>10. Left(mode, buffer, IncludedHere) = Left("INITIAL", Matched(Len(Items)), IncludedHere)
  BY <1>7, <1>8, <1>9, ConcatEmptySeq
<1> QED
  BY <1>1, <1>7, <1>10, NoEffectReads DEF NoToken

\* The end of a line has no effect.
LEMMA NewlineReads ==
  ASSUME Context, Reading, main' = main, Newline
  PROVE  ReadsOn'
<1>1. /\ mode = "INITIAL" /\ ~AtEof /\ Items = <<>> /\ buffer' = Tail(buffer) /\ NoToken
      /\ UNCHANGED <<mode, stack, gone>>
  BY Zenon DEF Newline, NextLine, Reading, TextTidy
<1>2. buffer # <<>> /\ TextTidy(mode, buffer)
  BY <1>1, Zenon DEF AtEof, Reading
<1>3. OneStatementPerLine(Tail(buffer))
  BY <1>2, Zenon DEF TextTidy
<1>4. IncludedHere \in Included
  BY HereType DEF Context
<1>5. /\ TextTidy("INITIAL", Tail(buffer))
      /\ Left("INITIAL", Tail(buffer), IncludedHere) = AllEffects(Tail(buffer), IncludedHere)
  BY <1>3, <1>4, LeftOfText
<1>6. LeftOfLine(mode, Head(buffer), IncludedHere) = <<>>
  BY <1>1, Zenon DEF LeftOfLine, Items
<1>7. AllEffects(Tail(buffer), IncludedHere) \in Seq(Effect)
  BY <1>3, <1>4, AllEffectsType
<1>8. <<>> \o AllEffects(Tail(buffer), IncludedHere) = AllEffects(Tail(buffer), IncludedHere)
  BY <1>7, ConcatEmptySeq
<1>9. Left(mode, buffer, IncludedHere) = AllEffects(Tail(buffer), IncludedHere)
  BY <1>2, <1>6, <1>8, Zenon DEF Left
<1> QED
  BY <1>1, <1>5, <1>9, NoEffectReads DEF NoToken

-----------------------------------------------------------------------------
\* An include that opens no file
LEMMA IncludeIgnored ==
  ASSUME Context, Reading, UNCHANGED <<main, stack, gone, expects, busy, sectionVars>>,
         mode = "INCLUDEMODE", ~AtEof, Head(buffer).nl, mode' = "INITIAL", buffer' = Matched(Len(Items)),
         Items = <<>> => Sifts(<<>>),
         Items # <<>> => Sifts(IncludedHere[Items[1]])
  PROVE  ReadsOn'
<1>1. buffer # <<>> /\ TextTidy(mode, buffer) /\ buffer \in Seq(Lines)
  BY Zenon DEF AtEof, Reading, TextTidy
<1>2. Items \in Seq(Lexemes)
  BY <1>1, ItemsType
<1>3. Len(Items) \in 0..Len(Items)
  BY <1>2
<1>4. Head(Matched(Len(Items))).items = <<>>
  BY <1>1, <1>3, MatchedText
<1>5. IncludedHere \in Included
  BY HereType DEF Context
<1> DEFINE e == LeftOfLine(mode, Head(buffer), IncludedHere)
<1>6. /\ TextTidy("INITIAL", Matched(Len(Items))) /\ e \in Seq(Effect)
      /\ Left(mode, buffer, IncludedHere) = e \o Left("INITIAL", Matched(Len(Items)), IncludedHere)
  BY <1>1, <1>3, <1>4, <1>5, LineMatched
<1>7. e = IF Items # <<>> THEN IncludedHere[Items[1]] ELSE <<>>
  BY Zenon DEF LeftOfLine, Items
<1> HIDE DEF e
<1>8. Sifts(e)
  BY <1>7, Zenon
<1>9. GrammarReads'
  BY Zenon DEF GrammarReads, Reading
<1>10. Reading'
  BY <1>6, <1>8, <1>9, GoesOn
<1>11. SectionsTidy'
  BY OffKept DEF Context
<1> QED
  BY <1>10, <1>11 DEF ReadsOn

\* An include that opens a file
LEMMA IncludeOpens ==
  ASSUME Context, Reading, UNCHANGED <<main, gone, expects, busy, sectionVars>>,
         mode = "INCLUDEMODE", ~AtEof, Head(buffer).nl, mode' = "INITIAL", Items # <<>>, top < MaxInclDepth,
         Active, Items[1] \notin gone, log' = Append(log, <<"fetch", <<Items[1]>> >>),
         buffer' = Content[Items[1]], NEW s, stack' = Append(stack, s), s.rest = Matched(Len(Items))
  PROVE  ReadsOn'
<1> DEFINE uri == Items[1]
           inner == IncludedAt(gone)[MaxInclDepth - (top + 1)]
           file == AllEffects(Content[uri], inner)
           tail == AllEffects(Tail(buffer), IncludedHere)
<1>0. PICK e : e = <<"fetch", <<uri>> >>
  OBVIOUS
<1>1. /\ buffer # <<>> /\ TextTidy(mode, buffer) /\ buffer \in Seq(Lines) /\ OneStatementPerLine(Tail(buffer))
      /\ uri \in DOMAIN Content
  BY Zenon DEF AtEof, Reading, TextTidy, LineTidy, Items
<1>2. uri \in Lexemes /\ OneStatementPerLine(Content[uri])
  BY <1>1 DEF Context, FilesAsDocumented
<1>3. e \in Effect
  <2> HIDE DEF uri
  <2>1. <<uri>> \in Seq(Lexemes)
    BY <1>2
  <2> QED
    BY <1>0, <2>1, EffectType
<1>4. Items \in Seq(Lexemes)
  BY <1>1, ItemsType
<1>5. Len(Items) \in 0..Len(Items)
  BY <1>4
<1>6. RestTidy(s.rest) /\ Tail(s.rest) = Tail(buffer)
  <2> DEFINE rest == Matched(Len(Items))
  <2>1. /\ rest \in Seq(Lines) /\ rest # <<>> /\ Tail(rest) = Tail(buffer) /\ Head(rest).nl = Head(buffer).nl
        /\ Head(rest).items = <<>>
    BY <1>1, <1>5, MatchedText
  <2> HIDE DEF rest
  <2>2. RestTidy(rest)
    BY <1>1, <2>1, Zenon DEF RestTidy
  <2>3. s.rest = rest
    BY DEF rest
  <2> QED
    BY <2>1, <2>2, <2>3
<1>7. /\ IncludedHere \in Included /\ top \in 0..MaxInclDepth /\ MaxInclDepth \in Nat
      /\ \A i \in 0..MaxInclDepth : IncludedAt(gone)[MaxInclDepth - i] \in Included
  BY HereType DEF Context
<1>8. /\ top + 1 \in 0..MaxInclDepth /\ MaxInclDepth - top \in 1..MaxInclDepth
      /\ (MaxInclDepth - top) - 1 = MaxInclDepth - (top + 1)
  BY <1>7
<1>9. inner \in Included
  BY <1>7, <1>8
<1>10. IncludedHere = Inclusion(inner, gone)
  <2>1. \A n \in 1..MaxInclDepth : IncludedAt(gone)[n] = Inclusion(IncludedAt(gone)[n - 1], gone)
    BY IncludedStepwise DEF Context
  <2> QED
    BY <1>8, <2>1 DEF IncludedHere
<1>11. IncludedHere[uri] = <<e>> \o file
  BY <1>0, <1>1, <1>10 DEF Inclusion
<1>12. /\ TextTidy("INITIAL", Content[uri]) /\ Left("INITIAL", Content[uri], inner) = file
       /\ file \in Seq(Effect) /\ tail \in Seq(Effect)
  BY <1>1, <1>2, <1>7, <1>9, LeftOfText, AllEffectsType
<1>13. Left(mode, buffer, IncludedHere) = (<<e>> \o file) \o tail
  <2>1. LeftOfLine(mode, Head(buffer), IncludedHere) = IncludedHere[uri]
    BY Zenon DEF LeftOfLine, Items
  <2> QED
    BY <1>1, <1>11, <2>1, Zenon DEF Left
<1>14. PICK seen, p : Split(seen, p)
  BY DEF Reading, SplitExists
<1>15. /\ seen \in Seq(Effect) /\ Waiting(p) /\ Sifted(seen) = [off |-> Off, kept |-> log]
       /\ Expanded(main, gone) = seen \o (Left(mode, buffer, IncludedHere) \o p[top])
  BY <1>14 DEF Split
<1>16. PICK S : stack \in Seq(S)
  BY DEF Context, FilesInv
<1>17. /\ Len(stack') = top + 1 /\ stack'[top + 1] = s /\ \A i \in 1..top : stack'[i] = stack[i]
       /\ top' = top + 1 /\ top \in Nat
  BY <1>16 DEF top
<1>18. e[1] \notin {"yes{", "no{", "}"}
  <2>1. e[1] = "fetch"
    BY <1>0
  <2> QED
    BY <2>1, Zenon
<1> DEFINE outer == p[top]
<1>19. p \in [0..MaxInclDepth -> Seq(Effect)] /\ outer \in Seq(Effect)
  BY <1>7, <1>15 DEF Waiting
<1> HIDE DEF file, tail, inner, uri
<1>20. tail \o outer \in Seq(Effect)
  BY <1>12, <1>19, EffectsAssociate
<1>21. PICK q : q \in [0..MaxInclDepth -> Seq(Effect)] /\ q[top + 1] = tail \o outer /\ \A i \in 0..top : q[i] = p[i]
  <2> DEFINE q == [p EXCEPT ![top + 1] = tail \o outer]
  <2>1. q \in [0..MaxInclDepth -> Seq(Effect)] /\ q[top + 1] = tail \o outer /\ \A i \in 0..top : q[i] = p[i]
    BY <1>7, <1>8, <1>19, <1>20
  <2> HIDE DEF q
  <2> QED
    BY <2>1
<1>22. Sifts(<<e>>) /\ SectionsTidy'
  <2>1. log' = IF Active THEN Append(log, e) ELSE log
    BY <1>0 DEF uri
  <2> QED
    BY <1>3, <1>18, <2>1, SiftsEffect, OffKept DEF Context
<1>23. <<e>> \in Seq(Effect)
  BY <1>3
<1>24. Regroups(seen, <<e>>, file, tail \o outer)
  BY <1>12, <1>15, <1>20, <1>23, EffectsShuffle
<1>25. Waiting(q)'
  <2>1. q[0] = <<>>
    BY <1>15, <1>17, <1>21 DEF Waiting
  <2>2. ASSUME NEW i \in 1..(top + 1)
        PROVE  q[i] = AllEffects(Tail(stack'[i].rest), IncludedAt(gone)[MaxInclDepth - (i - 1)]) \o q[i - 1]
    <3>1. CASE i = top + 1
      <4>1. i - 1 = top /\ top \in 0..top
        BY <1>17, <3>1
      <4>2. q[i - 1] = outer
        BY <1>21, <4>1
      <4>3. tail = AllEffects(Tail(stack'[i].rest), IncludedAt(gone)[MaxInclDepth - (i - 1)])
        BY <1>6, <1>17, <3>1, <4>1 DEF tail, IncludedHere
      <4> QED
        BY <1>21, <3>1, <4>2, <4>3
    <3>2. CASE i # top + 1
      <4>1. i \in 1..top /\ i \in 0..top /\ i - 1 \in 0..top
        BY <1>17, <3>2
      <4>2. p[i] = AllEffects(Tail(stack[i].rest), IncludedAt(gone)[MaxInclDepth - (i - 1)]) \o p[i - 1]
        BY <1>15, <4>1 DEF Waiting
      <4>3. q[i] = p[i] /\ q[i - 1] = p[i - 1] /\ stack'[i] = stack[i]
        BY <1>17, <1>21, <4>1
      <4> QED
        BY <4>2, <4>3
    <3> QED
      BY <3>1, <3>2
  <2> QED
    BY <1>17, <1>21, <2>1, <2>2 DEF Waiting
<1>26. Expanded(main, gone) = (seen \o <<e>>) \o (file \o (tail \o outer))
  <2>1. Expanded(main, gone) = seen \o (((<<e>> \o file) \o tail) \o outer)
    BY <1>13, <1>15
  <2>2. ((<<e>> \o file) \o tail) \o outer = (<<e>> \o file) \o (tail \o outer)
    <3> DEFINE f == <<e>> \o file
    <3>1. f \in Seq(Effect)
      BY <1>12, <1>23, EffectsAssociate
    <3> HIDE DEF f
    <3>2. (f \o tail) \o outer = f \o (tail \o outer)
      BY <1>12, <1>19, <3>1, EffectsAssociate
    <3> QED
      BY <3>2 DEF f
  <2> QED
    BY <1>24, <2>1, <2>2 DEF Regroups
<1>27. IncludedHere' = inner
  BY <1>17 DEF IncludedHere, inner
<1>28. Left(mode', buffer', IncludedHere') = file /\ q[top'] = tail \o outer
  BY <1>12, <1>17, <1>21, <1>27 DEF uri
<1>29. seen \o <<e>> \in Seq(Effect)
  BY <1>15, <1>23, EffectsAssociate
<1>30. Sifted(seen \o <<e>>) = [off |-> Off', kept |-> log']
  BY <1>15, <1>22 DEF Sifts
<1>31. Expanded(main, gone)' = (seen \o <<e>>) \o (Left(mode', buffer', IncludedHere') \o q[top'])
  BY <1>26, <1>28
<1>32. Split(seen \o <<e>>, q)'
  BY <1>25, <1>29, <1>30, <1>31 DEF Split
<1>33. StackTidy'
  <2>1. ASSUME NEW i \in 1..(top + 1) PROVE RestTidy(stack'[i].rest)
    <3>1. CASE i = top + 1
      BY <1>6, <1>17, <3>1
    <3>2. CASE i # top + 1
      <4>1. i \in 1..top
        BY <1>17, <3>2
      <4> QED
        BY <1>17, <4>1 DEF Reading, StackTidy
    <3> QED
      BY <3>1, <3>2
  <2> QED
    BY <1>17, <2>1 DEF StackTidy
<1>34. GrammarReads' /\ TextTidy(mode', buffer')
  BY <1>12, Zenon DEF GrammarReads, Reading, uri
<1>35. SplitExists'
  BY <1>32, Zenon DEF SplitExists
<1> QED
  BY <1>22, <1>33, <1>34, <1>35 DEF ReadsOn, Reading

-----------------------------------------------------------------------------
\* A word is a sequence of one lexeme.
LEMMA OneLexeme ==
  ASSUME NEW u \in Lexemes
  PROVE  <<u>> \in Seq(Lexemes)
OBVIOUS

\* An include is replaced by what it stands for, whether it opens a file or not.
LEMMA IncludeReads ==
  ASSUME Context, Reading, main' = main, Include
  PROVE  ReadsOn'
<1>1. /\ mode = "INCLUDEMODE" /\ ~AtEof /\ Head(buffer).nl /\ mode' = "INITIAL"
      /\ UNCHANGED <<gone, expects, busy, accepted, sectionVars>>
  BY DEF Include
<1>2. /\ IncludedHere \in Included /\ top \in 0..MaxInclDepth /\ MaxInclDepth \in Nat
      /\ AllSkipped(IncludedHere)
  BY HereType DEF Context
<1>3. Items # <<>> => Items[1] \in DOMAIN Content
  BY <1>1, Zenon DEF AtEof, Reading, TextTidy, LineTidy, Items
<1>4. DOMAIN Content \subseteq Lexemes \ {""}
  BY DEF Context, FilesAsDocumented
<1>5. CASE Ignored
  <2>1. buffer' = Matched(Len(Items)) /\ UNCHANGED <<stack, log>>
    BY <1>5, Zenon DEF Include
  <2>2. Sifts(<<>>)
    BY <1>1, <2>1, SiftsNothing DEF Context
  <2>3. ASSUME Items # <<>> PROVE Sifts(IncludedHere[Items[1]])
    <3>1. CASE ~Active
      BY <1>1, <1>2, <1>3, <2>1, <2>3, <3>1, SiftsSkipped DEF Context, AllSkipped
    <3>2. CASE top >= MaxInclDepth
      <4>1. MaxInclDepth - top = 0
        BY <1>2, <3>2
      <4>2. IncludedHere[Items[1]] = <<>>
        BY <1>3, <2>3, <4>1, IncludedStepwise DEF IncludedHere, Context
      <4> QED
        BY <2>2, <4>2
    <3> QED
      BY <1>5, <3>1, <3>2 DEF Ignored
  <2> QED
    BY <1>1, <2>1, <2>2, <2>3, IncludeIgnored
<1>6. CASE ~Ignored /\ Items = <<>>
  <2>1. Uri = ""
    BY <1>6 DEF Uri
  <2>2. ~Fetched(Uri)
    BY <1>4, <2>1 DEF Fetched
  <2>3. buffer' = Matched(Len(Items)) /\ UNCHANGED <<stack, log>>
    BY <1>6, <2>1, <2>2, Zenon DEF Include
  <2>4. Sifts(<<>>)
    BY <1>1, <2>3, SiftsNothing DEF Context
  <2> QED
    BY <1>1, <1>6, <2>3, <2>4, IncludeIgnored
<1>7. CASE ~Ignored /\ Items # <<>>
  <2>1. Active /\ top < MaxInclDepth
    BY <1>2, <1>7 DEF Ignored
  <2>2. Uri = Items[1] /\ Uri # "" /\ Uri \in DOMAIN Content /\ Uri \in Lexemes
    BY <1>3, <1>4, <1>7 DEF Uri
  <2>3. log' = Append(log, <<"fetch", <<Uri>> >>)
    BY <1>7, <2>2, Zenon DEF Include
  <2>4. CASE Uri \in gone
    <3>1. ~Fetched(Uri)
      BY <2>4 DEF Fetched
    <3>2. buffer' = Matched(Len(Items)) /\ stack' = stack
      BY <1>7, <3>1, Zenon DEF Include
    <3>3. PICK e : e = <<"fetch", <<Uri>> >>
      OBVIOUS
    <3>4. e \in Effect
      <4>1. <<Uri>> \in Seq(Lexemes)
        <5>1. Uri \in Lexemes
          BY <2>2
        <5> QED
          BY ONLY <5>1, OneLexeme
      <4> QED
        BY <3>3, <4>1, EffectType
    <3>5. e[1] \notin {"yes{", "no{", "}"}
      <4>1. e[1] = "fetch"
        BY <3>3
      <4> QED
        BY <4>1, Zenon
    <3>6. Sifts(<<e>>)
      <4>1. log' = IF Active THEN Append(log, e) ELSE log
        BY <2>1, <2>3, <3>3
      <4> QED
        BY <1>1, <3>4, <3>5, <4>1, SiftsEffect DEF Context
    <3>7. IncludedHere[Items[1]] = <<e>>
      <4>1. MaxInclDepth - top \in 1..MaxInclDepth
        BY <1>2, <2>1
      <4>2. IncludedHere = Inclusion(IncludedAt(gone)[(MaxInclDepth - top) - 1], gone)
        BY <4>1, IncludedStepwise DEF IncludedHere, Context
      <4>3. IncludedHere[Items[1]] = <<e>> \o <<>>
        BY <2>2, <2>4, <3>3, <4>2 DEF Inclusion
      <4>4. <<e>> \in Seq(Effect)
        BY <3>4
      <4> QED
        BY <4>3, <4>4, ConcatEmptySeq
    <3> QED
      BY <1>1, <1>7, <3>2, <3>6, <3>7, IncludeIgnored
  <2>5. CASE Uri \notin gone
    <3>1. Fetched(Uri)
      BY <2>2, <2>5 DEF Fetched
    <3>2. PICK s : s = [rest |-> Matched(Len(Items)), uri |-> Uri, file |-> LocalName]
      OBVIOUS
    <3>3. buffer' = Content[Uri] /\ stack' = Append(stack, s)
      BY <1>7, <3>1, <3>2, Zenon DEF Include
    <3>4. s.rest = Matched(Len(Items))
      BY <3>2
    <3> QED
      BY <1>1, <1>7, <2>1, <2>2, <2>3, <2>5, <3>3, <3>4, IncludeOpens
  <2> QED
    BY <2>4, <2>5
<1> QED
  BY <1>5, <1>6, <1>7

\* At the end of an included file the file around it goes on after the include.
LEMMA EofIncludeReads ==
  ASSUME Context, Reading, main' = main, EofInclude
  PROVE  ReadsOn'
<1> DEFINE rest == stack[top].rest
           outside == IncludedAt(gone)[MaxInclDepth - (top - 1)]
           tail == AllEffects(Tail(rest), outside)
<1>1. /\ AtEof /\ top > 0 /\ buffer' = rest /\ stack' = SubSeq(stack, 1, top - 1)
      /\ UNCHANGED <<mode, gone, expects, log, busy, accepted, sectionVars>>
  BY DEF EofInclude, NoToken
<1>2. /\ IncludedHere \in Included /\ top \in 0..MaxInclDepth /\ MaxInclDepth \in Nat
      /\ \A i \in 0..MaxInclDepth : IncludedAt(gone)[MaxInclDepth - i] \in Included
  BY HereType DEF Context
<1>3. top \in 1..top /\ top - 1 \in 0..MaxInclDepth /\ top \in Nat \ {0}
  BY <1>1, <1>2
<1>4. outside \in Included
  BY <1>2, <1>3
<1>5. RestTidy(rest)
  BY <1>3 DEF Reading, StackTidy
<1>6. PICK S : stack \in Seq(S)
  BY DEF Context, FilesInv
<1>7. Len(stack') = top - 1 /\ \A i \in 1..(top - 1) : stack'[i] = stack[i]
  BY <1>1, <1>3, <1>6, Popped DEF top
<1>8. top' = top - 1
  BY <1>7 DEF top
<1>9. TextTidy(mode, buffer) /\ mode \in {"INITIAL", "STRMODE", "INCLUDEMODE"}
  BY DEF Reading, TextTidy
<1>10. Left(mode, buffer, IncludedHere) = LeftAtEnd(mode)
  BY <1>1, <1>2, <1>9, LeftAtEof DEF AtEof
<1>11. LeftAtEnd(mode) \in Seq(Effect)
  BY <1>2, <1>9, <1>10, LeftType
<1> HIDE DEF rest, outside
<1>12. tail \in Seq(Effect)
  BY <1>4, <1>5, AllEffectsType DEF RestTidy
<1>13. Left(mode, rest, outside) = LeftAtEnd(mode) \o tail
  <2>1. LeftOfLine(mode, Head(rest), outside) = LeftAtEnd(mode)
    BY <1>5, Zenon DEF LeftOfLine, LeftAtEnd, RestTidy
  <2> QED
    BY <1>5, <2>1, Zenon DEF Left, RestTidy
<1>14. TextTidy(mode, rest)
  <2>1. Head(rest) \in Lines
    BY <1>5, HeadTailProperties DEF RestTidy
  <2> QED
    BY <1>5, <1>9, <2>1, Zenon DEF TextTidy, LineTidy, RestTidy
<1>15. PICK seen, p : Split(seen, p)
  BY DEF Reading, SplitExists
<1>16. /\ seen \in Seq(Effect) /\ Waiting(p) /\ Sifted(seen) = [off |-> Off, kept |-> log]
       /\ Expanded(main, gone) = seen \o (LeftAtEnd(mode) \o p[top])
  BY <1>10, <1>15 DEF Split
<1>17. p[top] = tail \o p[top - 1] /\ p[top - 1] \in Seq(Effect)
  BY <1>3, <1>16 DEF Waiting, rest, outside
<1>18. Expanded(main, gone) = seen \o ((LeftAtEnd(mode) \o tail) \o p[top - 1])
  <2> DEFINE end == LeftAtEnd(mode)
             outer == p[top - 1]
  <2>1. end \in Seq(Effect) /\ outer \in Seq(Effect)
    BY <1>11, <1>17
  <2> HIDE DEF end, outer, tail
  <2>2. (end \o tail) \o outer = end \o (tail \o outer)
    BY <1>12, <2>1, EffectsAssociate
  <2> QED
    BY <1>16, <1>17, <2>2 DEF end, outer
<1> HIDE DEF tail
<1>19. IncludedHere' = outside
  BY <1>1, <1>8 DEF IncludedHere, outside
<1>20. Left(mode', buffer', IncludedHere') = LeftAtEnd(mode) \o tail
  BY <1>1, <1>13, <1>19
<1>21. Off' = Off /\ SectionsTidy'
  BY <1>1, OffKept DEF Context
<1>22. Waiting(p)'
  <2>1. ASSUME NEW i \in 1..(top - 1)
        PROVE  p[i] = AllEffects(Tail(stack'[i].rest), IncludedAt(gone)[MaxInclDepth - (i - 1)]) \o p[i - 1]
    <3>1. i \in 1..top
      BY <1>3
    <3>2. p[i] = AllEffects(Tail(stack[i].rest), IncludedAt(gone)[MaxInclDepth - (i - 1)]) \o p[i - 1]
      BY <1>16, <3>1 DEF Waiting
    <3> QED
      BY <1>7, <3>2
  <2> QED
    BY <1>1, <1>8, <1>16, <2>1 DEF Waiting
<1>23. Expanded(main, gone)' = seen \o (Left(mode', buffer', IncludedHere') \o p[top'])
  BY <1>1, <1>8, <1>18, <1>20
<1>24. Split(seen, p)'
  BY <1>1, <1>16, <1>21, <1>22, <1>23 DEF Split
<1>25. StackTidy'
  <2>1. ASSUME NEW i \in 1..(top - 1) PROVE RestTidy(stack'[i].rest)
    <3>1. i \in 1..top
      BY <1>3
    <3> QED
      BY <1>7, <3>1 DEF Reading, StackTidy
  <2> QED
    BY <1>8, <2>1 DEF StackTidy
<1>26. GrammarReads'
  BY <1>1, Zenon DEF GrammarReads, Reading
<1>27. TextTidy(mode', buffer')
  BY <1>1, <1>14
<1>28. SplitExists'
  BY <1>24, Zenon DEF SplitExists
<1> QED
  BY <1>21, <1>25, <1>26, <1>27, <1>28 DEF ReadsOn, Reading

\* At the end of an accepted configuration nothing is left.
LEMMA EofReads ==
  ASSUME Context, Reading, UNCHANGED main, Eof
  PROVE  ReadsOn'
<1>1. /\ AtEof /\ top = 0 /\ accepted' = Append(accepted, Complete) /\ busy' = "none"
      /\ UNCHANGED <<gone, log, sectionVars>>
  BY DEF Eof
<1>2. SectionsTidy'
  BY <1>1, OffKept DEF Context
<1>3. Complete \in BOOLEAN
  BY Zenon DEF Complete
<1>4. accepted'[Len(accepted')] = Complete
  BY <1>1, <1>3 DEF Context
<1>5. ASSUME Complete PROVE log' = Holding(Expanded(main', gone'))
  <2>1. IncludedHere \in Included
    BY HereType DEF Context
  <2>2. mode # "STRMODE"
    BY <1>5, Zenon DEF Complete, Reading, GrammarReads
  <2>3. Left(mode, buffer, IncludedHere) = <<>>
    <3>1. Left(mode, buffer, IncludedHere) = LeftAtEnd(mode)
      BY <1>1, <2>1, LeftAtEof DEF AtEof, Reading
    <3> QED
      BY <2>2, <3>1, Zenon DEF LeftAtEnd
  <2>4. PICK seen, p : Split(seen, p)
    BY DEF Reading, SplitExists
  <2>5. seen \in Seq(Effect) /\ Sifted(seen).kept = log /\ p[top] = <<>>
    BY <1>1, <2>4 DEF Split, Waiting
  <2>6. Expanded(main, gone) = seen \o (<<>> \o <<>>)
    BY <2>3, <2>4, <2>5 DEF Split
  <2>7. <<>> \o <<>> = <<>> /\ seen \o <<>> = seen
    BY <2>5, ConcatEmptySeq
  <2>8. Expanded(main, gone) = seen
    BY <2>6, <2>7
  <2> QED
    BY <1>1, <2>5, <2>8 DEF Holding
<1>6. Parsed'
  BY <1>1, <1>4, <1>5 DEF Parsed
<1> QED
  BY <1>2, <1>6 DEF ReadsOn

\* Every rule of the scanner keeps to the expanded text.
LEMMA ScanReads ==
  ASSUME Context, Reading, SectionTypes', DepthIsWithinLimit', main' = main, ScanNext
  PROVE  ReadsOn'
<1>1. ~ModLexeme
  BY Zenon DEF ModLexeme, Reading, TextTidy
<1>2. ASSUME NEW cond \in BOOLEAN, OpenSection(cond) PROVE ReadsOn'
  BY <1>2, OpenSectionReads
<1>3. CloseSection \/ Lexeme \/ RestOfLine => ReadsOn'
  BY CloseSectionReads, LexemeReads, RestOfLineReads
<1>4. EchoRest \/ Include \/ Comment => ReadsOn'
  BY EchoRestReads, IncludeReads, CommentReads
<1>5. Newline \/ EofInclude \/ Eof => ReadsOn'
  BY NewlineReads, EofIncludeReads, EofReads
<1> QED
  BY <1>1, <1>2, <1>3, <1>4, <1>5 DEF ScanNext

\* A configuration that is misread is refused in the end.
LEMMA ScanMisreads ==
  ASSUME Context, Misread, SectionTypes', DepthIsWithinLimit', main' = main, ScanNext
  PROVE  SectionsTidy' /\ (Parsed \/ Misread \/ Reading)'
<1>1. mode \in {"STRMODE", "MODMODE"} /\ expects = "begin" /\ stack = <<>> /\ top = 0 /\ busy = "scan"
  BY DEF Misread, top
<1>2. RestOfLine \/ EchoRest \/ ModLexeme \/ Newline \/ Eof
  <2>1. ~(\E cond \in BOOLEAN : OpenSection(cond)) /\ ~CloseSection /\ ~Lexeme
    BY <1>1, Zenon DEF OpenSection, CloseSection, Lexeme
  <2>2. ~Include
    BY <1>1, Zenon DEF Include
  <2>3. ~Comment
    BY <1>1, Zenon DEF Comment
  <2>4. ~EofInclude
    BY <1>1 DEF EofInclude
  <2> QED
    BY <2>1, <2>2, <2>3, <2>4, Zenon DEF ScanNext
<1>3. ASSUME NEW token, NEW text, Token(token, text), ~Allowed(token)
      PROVE  SectionsTidy' /\ (Parsed \/ Misread \/ Reading)'
  BY <1>3, TokenRefused DEF ReadsOn
<1>4. ASSUME NoToken, UNCHANGED stack, mode' \in {"STRMODE", "MODMODE"}
      PROVE  SectionsTidy' /\ (Parsed \/ Misread \/ Reading)'
  <2>1. Misread'
    BY <1>1, <1>4 DEF Misread, NoToken
  <2> QED
    BY <1>4, <2>1, OffKept DEF NoToken, Context
<1>5. CASE RestOfLine
  BY <1>1, <1>3, <1>5, NotRecognized DEF RestOfLine
<1>6. CASE EchoRest \/ Newline
  BY <1>1, <1>4, <1>6 DEF EchoRest, Newline
<1>7. CASE ModLexeme
  <2>1. CASE Items[1] = "#"
    <3>1. NoToken /\ mode' = "MODMODE" /\ stack' = stack
      BY <1>7, <2>1, Zenon DEF ModLexeme, ModeAfter
    <3> QED
      BY <1>4, <3>1
  <2>2. CASE Items[1] # "#"
    <3>1. \/ Token(",", <<Items[1]>>) \/ Token(")", <<Items[1]>>) \/ Token("}", <<Items[1]>>)
          \/ Token("IDENT", <<Items[1]>>)
      BY <1>7, <2>2, Zenon DEF ModLexeme
    <3>2. ~Allowed(",") /\ ~Allowed(")") /\ ~Allowed("}") /\ ~Allowed("IDENT")
      BY <1>1, NotRecognized, NothingToClose, Zenon
    <3> QED
      BY <1>3, <3>1, <3>2, Zenon
  <2> QED
    BY <2>1, <2>2
<1>8. CASE Eof
  <2>1. accepted' = Append(accepted, Complete) /\ busy' = "none" /\ UNCHANGED sectionVars
    BY <1>8 DEF Eof
  <2>2. Complete = FALSE
    BY <1>1, Zenon DEF Complete
  <2> QED
    BY <2>1, <2>2, Refused, OffKept DEF Context
<1> QED
  BY <1>2, <1>5, <1>6, <1>7, <1>8

-----------------------------------------------------------------------------
(* The kernel arguments include no file *)

\* No lexeme of the line is an include.
NoInclude(line) == \A j \in 1..Len(line.items) : line.items[j] # "include"

\* The lines of a kernel argument have no include.
LEMMA ArgumentLines ==
  ASSUME NEW text
  PROVE  text \in Arguments <=> text \in Seq(Lines) /\ \A i \in 1..Len(text) : NoInclude(text[i])
BY Zenon DEF Arguments, NoInclude

\* What is left of a kernel argument when its first line is replaced or dropped
LEMMA ArgumentRest ==
  ASSUME NEW text \in Arguments, text # <<>>
  PROVE  /\ Tail(text) \in Arguments /\ NoInclude(Head(text))
         /\ \A line \in Lines : NoInclude(line) => <<line>> \o Tail(text) \in Arguments
<1>1. text \in Seq(Lines) /\ \A i \in 1..Len(text) : NoInclude(text[i])
  BY ArgumentLines
<1>2. /\ Tail(text) \in Seq(Lines) /\ Len(text) \in Nat \ {0} /\ Len(Tail(text)) = Len(text) - 1
      /\ Head(text) = text[1] /\ \A i \in 1..(Len(text) - 1) : Tail(text)[i] = text[i + 1]
  BY <1>1, EmptySeq, HeadTailProperties
<1>3. \A i \in 1..Len(Tail(text)) : NoInclude(Tail(text)[i])
  <2>1. \A i \in 1..(Len(text) - 1) : i + 1 \in 1..Len(text)
    BY <1>2
  <2> QED
    BY <1>1, <1>2, <2>1
<1>4. ASSUME NEW line \in Lines, NoInclude(line)
      PROVE  <<line>> \o Tail(text) \in Arguments
  <2> DEFINE t == Tail(text)
  <2>1. t \in Seq(Lines) /\ \A i \in 1..Len(t) : NoInclude(t[i])
    BY <1>2, <1>3
  <2> HIDE DEF t
  <2>2. <<line>> \o t \in Seq(Lines) /\ Len(<<line>> \o t) = Len(t) + 1 /\ Len(t) \in Nat
    BY <2>1
  <2>3. (<<line>> \o t)[1] = line /\ \A i \in 2..(Len(t) + 1) : (<<line>> \o t)[i] = t[i - 1]
    BY <2>1
  <2>4. \A i \in 2..(Len(t) + 1) : i - 1 \in 1..Len(t)
    BY <2>2
  <2>5. \A i \in 1..(Len(t) + 1) : i = 1 \/ i \in 2..(Len(t) + 1)
    BY <2>2
  <2>6. \A i \in 1..Len(<<line>> \o t) : NoInclude((<<line>> \o t)[i])
    BY <1>4, <2>1, <2>2, <2>3, <2>4, <2>5
  <2> QED
    BY <2>2, <2>6, ArgumentLines DEF t
<1>5. NoInclude(Head(text))
  <2>1. 1 \in 1..Len(text)
    BY <1>2
  <2> QED
    BY <1>1, <1>2, <2>1
<1> QED
  BY <1>2, <1>3, <1>4, <1>5, ArgumentLines

\* Nothing that is matched turns into an include.
LEMMA ArgumentMatched ==
  ASSUME buffer \in Arguments, buffer # <<>>, NEW n \in 0..Len(Items)
  PROVE  Matched(n) \in Arguments
<1> DEFINE line == [Head(buffer) EXCEPT !.items = SubSeq(Items, n + 1, Len(Items))]
<1>1. buffer \in Seq(Lines) /\ NoInclude(Head(buffer)) /\ Head(buffer) \in Lines
  BY ArgumentLines, ArgumentRest, HeadTailProperties
<1>2. SubSeq(Items, n + 1, Len(Items)) \in Seq(Lexemes) /\ Items \in Seq(Lexemes)
  BY <1>1, MatchedText
<1>3. line \in Lines /\ line.items = SubSeq(Items, n + 1, Len(Items))
  BY <1>1, <1>2 DEF Lines
<1>4. NoInclude(line)
  <2> DEFINE s == Items
  <2>1. s \in Seq(Lexemes) /\ n \in 0..Len(s) /\ Len(s) \in Nat
    BY <1>2
  <2> HIDE DEF s
  <2>2. \A j \in 1..Len(SubSeq(s, n + 1, Len(s))) :
          j + n \in 1..Len(s) /\ SubSeq(s, n + 1, Len(s))[j] = s[j + n]
    BY <2>1
  <2> HIDE DEF line
  <2> QED
    BY <1>1, <1>3, <2>2, Zenon DEF NoInclude, Items, s
<1>5. Matched(n) = <<line>> \o Tail(buffer)
  BY DEF Matched, Items
<1> HIDE DEF line
<1> QED
  BY <1>3, <1>4, <1>5, ArgumentRest

\* Before the configuration no file is opened, and the scanner does not wait for a URI.
ArgInv ==
  phase = "arguments" =>
    /\ stack = <<>> /\ mode # "INCLUDEMODE" /\ cmdline \in Seq(Arguments)
    /\ busy # "none" => buffer \in Arguments

\* The rules of the scanner keep to the kernel argument.
LEMMA ArgumentScanned ==
  ASSUME stack = <<>>, mode # "INCLUDEMODE", busy # "none" => buffer \in Arguments, ScanNext
  PROVE  stack' = <<>> /\ mode' # "INCLUDEMODE" /\ buffer' \in Arguments
<1>1. buffer \in Arguments /\ top = 0 /\ busy = "scan"
  <2>1. busy = "scan"
    BY Zenon DEF ScanNext, OpenSection, CloseSection, Lexeme, RestOfLine, EchoRest, Include, Comment,
       ModLexeme, Newline, EofInclude, Eof
  <2>2. Len(<<>>) = 0
    OBVIOUS
  <2> QED
    BY <2>1, <2>2 DEF top
<1>2. ~Include /\ ~EofInclude
  <2>1. ~Include
    BY Zenon DEF Include
  <2>2. ~EofInclude
    BY <1>1 DEF EofInclude
  <2> QED
    BY <2>1, <2>2
<1>3. stack' = <<>>
  BY <1>2, OtherRules
<1>4. ASSUME buffer # <<>>
      PROVE  /\ Len(Items) \in 0..Len(Items) /\ Matched(Len(Items)) \in Arguments /\ Tail(buffer) \in Arguments
             /\ Items # <<>> => Matched(1) \in Arguments /\ Items[1] # "include"
  <2>1. Items \in Seq(Lexemes) /\ Len(Items) \in 0..Len(Items) /\ Len(Items) \in Nat
    BY <1>1, <1>4, ArgumentLines, ItemsType
  <2>2. Items # <<>> => 1 \in 0..Len(Items) /\ 1 \in 1..Len(Items)
    BY <2>1, EmptySeq
  <2>3. NoInclude(Head(buffer)) /\ Tail(buffer) \in Arguments
    BY <1>1, <1>4, ArgumentRest
  <2>4. Items # <<>> => Items[1] # "include"
    BY <2>2, <2>3, Zenon DEF NoInclude, Items
  <2>5. Matched(Len(Items)) \in Arguments
    BY <1>1, <1>4, <2>1, ArgumentMatched
  <2>6. Items # <<>> => Matched(1) \in Arguments
    BY <1>1, <1>4, <2>2, ArgumentMatched
  <2> QED
    BY <2>1, <2>3, <2>4, <2>5, <2>6
<1>5. ~AtEof => buffer # <<>>
  BY Zenon DEF AtEof
<1>6. ASSUME NEW cond \in BOOLEAN, OpenSection(cond) PROVE buffer' \in Arguments /\ mode' = mode
  <2>1. ~AtEof /\ Items # <<>> /\ buffer' = Matched(1) /\ mode' = mode
    BY <1>6, Zenon DEF OpenSection
  <2> QED
    BY <1>4, <1>5, <2>1
<1>7. CASE CloseSection
  <2>1. ~AtEof /\ Items # <<>> /\ buffer' = Matched(1) /\ mode' = mode
    BY <1>7, Zenon DEF CloseSection
  <2> QED
    BY <1>3, <1>4, <1>5, <2>1
<1>8. CASE Lexeme
  <2>1. ~AtEof /\ Items # <<>> /\ buffer' = Matched(1) /\ mode' = Mode(Items[1])
    BY <1>8, Zenon DEF Lexeme
  <2>2. buffer' \in Arguments /\ Items[1] # "include"
    BY <1>4, <1>5, <2>1
  <2>3. mode' # "INCLUDEMODE"
    BY <2>1, <2>2, Zenon DEF Mode
  <2> QED
    BY <1>3, <2>2, <2>3
<1>9. CASE ModLexeme
  <2>1. ~AtEof /\ Items # <<>> /\ buffer' = Matched(1) /\ mode' = ModeAfter(Items[1])
    BY <1>9, Zenon DEF ModLexeme
  <2>2. buffer' \in Arguments
    BY <1>4, <1>5, <2>1
  <2>3. mode' # "INCLUDEMODE"
    BY <2>1, Zenon DEF ModeAfter
  <2> QED
    BY <1>3, <2>2, <2>3
<1>10. CASE RestOfLine \/ Comment
  <2>1. ~AtEof /\ buffer' = Matched(Len(Items)) /\ mode' \in {"INITIAL", mode}
    BY <1>10, Zenon DEF RestOfLine, Comment
  <2> QED
    BY <1>3, <1>4, <1>5, <2>1
<1>11. CASE EchoRest
  <2>1. buffer' = <<>> /\ mode' = mode
    BY <1>11, Zenon DEF EchoRest
  <2>2. <<>> \in Seq(Lines) /\ \A i \in 1..Len(<<>>) : NoInclude(<<>>[i])
    OBVIOUS
  <2> QED
    BY <1>3, <2>1, <2>2, ArgumentLines
<1>12. CASE Newline
  <2>1. ~AtEof /\ buffer' = Tail(buffer) /\ mode' = mode
    BY <1>12, Zenon DEF Newline, NextLine
  <2> QED
    BY <1>3, <1>4, <1>5, <2>1
<1>13. CASE Eof
  BY <1>1, <1>3, <1>13 DEF Eof
<1> QED
  BY <1>2, <1>3, <1>6, <1>7, <1>8, <1>9, <1>10, <1>11, <1>12, <1>13 DEF ScanNext

\* No file is open at the beginning.
LEMMA ArgumentsStart ==
  ASSUME AsDocumented, StartupInit
  PROVE  ArgInv
<1>1. PICK pieces \in Cmdlines : cmdline = InOrder(pieces)
  BY DEF StartupInit
<1>2. cmdline \in Seq(Arguments)
  BY <1>1, Zenon DEF AsDocumented
<1> QED
  BY <1>2 DEF StartupInit, ScannerInit, ArgInv

\* The kernel arguments open no file.
LEMMA ArgumentsStep ==
  ASSUME ArgInv, [StartupNext]_startVars
  PROVE  ArgInv'
<1>1. CASE phase' # "arguments"
  BY <1>1 DEF ArgInv
<1>2. CASE ParseKernelArgument
  <2>1. /\ phase = "arguments" /\ cmdline # <<>> /\ buffer' = Head(cmdline) /\ cmdline' = Tail(cmdline)
        /\ UNCHANGED <<stack, mode, phase>>
    BY <1>2 DEF ParseKernelArgument, Begin, Parse
  <2>2. Head(cmdline) \in Arguments /\ Tail(cmdline) \in Seq(Arguments)
    BY <2>1, HeadTailProperties DEF ArgInv
  <2> QED
    BY <2>1, <2>2 DEF ArgInv
<1>3. CASE ParseSysload \/ NoConfiguration \/ Rejected \/ Ready
  <2>1. phase' # "arguments"
    BY <1>3 DEF ParseSysload, NoConfiguration, Rejected, Ready
  <2> QED
    BY <1>1, <2>1
<1>4. CASE ParseSysloadBootEntry
  <2>1. phase' = "entries"
    BY <1>4 DEF ParseSysloadBootEntry
  <2> QED
    BY <1>1, <2>1
<1>5. CASE Scan
  BY <1>5, ArgumentScanned DEF Scan, ArgInv
<1>6. CASE EnableNetwork \/ NetworkEnabled
  BY <1>6 DEF EnableNetwork, NetworkEnabled, ArgInv
<1>7. CASE Wait \/ UNCHANGED startVars
  BY <1>7 DEF Wait, startVars, scanVars, ArgInv
<1> QED
  BY <1>2, <1>3, <1>4, <1>5, <1>6, <1>7 DEF StartupNext

-----------------------------------------------------------------------------
(* The configuration, from its first line to its result *)

\* While the configuration is parsed it is read or misread, and then it has its result.
ConfigInv ==
  phase = "config" => main \in DOMAIN Content /\ SectionsTidy /\ (Parsed \/ Misread \/ Reading)

\* The files are written as documented whatever the kernel arguments are.
LEMMA DocumentedFiles ==
  ASSUME AsDocumented
  PROVE  FilesAsDocumented
BY DEF AsDocumented, FilesAsDocumented

\* The network statement that is waited for does not change what is left to read.
LEMMA ReadingKept ==
  ASSUME Reading, UNCHANGED <<mode, buffer, stack, gone, expects, log, sectionVars, main>>,
         busy' \in {"scan", "net", "waiting"}
  PROVE  Reading'
<1>1. GrammarReads'
  BY DEF Reading, GrammarReads
<1>2. TextTidy(mode', buffer')
  BY DEF Reading
<1>3. StackTidy'
  BY DEF Reading, StackTidy, top
<1>4. Off' = Off /\ top' = top
  BY DEF Off, Active, sectionVars, top
<1>5. IncludedHere' = IncludedHere
  BY <1>4 DEF IncludedHere
<1>6. PICK seen, p : Split(seen, p)
  BY DEF Reading, SplitExists
<1>7. Waiting(p)'
  BY <1>4, <1>6 DEF Split, Waiting
<1>8. Expanded(main', gone') = seen \o (Left(mode', buffer', IncludedHere') \o p[top'])
  BY <1>4, <1>5, <1>6 DEF Split
<1>9. Split(seen, p)'
  BY <1>4, <1>6, <1>7, <1>8 DEF Split
<1>10. SplitExists'
  BY <1>9, Zenon DEF SplitExists
<1> QED
  BY <1>1, <1>2, <1>3, <1>10 DEF Reading

\* The configuration begins: all of it is left, and no section is open.
LEMMA ConfigStarts ==
  ASSUME AsDocumented, TypeInv, FilesInv, ArgInv, ParseSysload
  PROVE  SectionsTidy' /\ main' \in DOMAIN Content /\ (Misread \/ Reading)'
<1>1. /\ phase = "arguments" /\ main \in DOMAIN Content /\ buffer' = Content[main] /\ busy' = "scan"
      /\ expects' = "begin" /\ log' = <<>> /\ system_depth' = 0
      /\ system_first_inactive' = MaxSystemDepth /\ conds' = <<>>
      /\ UNCHANGED <<mode, stack, gone, accepted, main>>
  BY DEF ParseSysload, Begin, Parse, Fetched
<1>2. stack = <<>> /\ mode \in {"INITIAL", "STRMODE", "MODMODE"}
  BY <1>1, Zenon DEF ArgInv, TypeInv, ScanTypes
<1>3. SectionsTidy' /\ Off' = 0
  <2>1. conds' \in Seq(BOOLEAN) /\ Len(conds') = 0
    BY <1>1
  <2> QED
    BY <1>1, <2>1, DepthAssumption DEF SectionsTidy, SectionTypes, DepthIsWithinLimit, Off, Active
<1>4. CASE mode # "INITIAL"
  BY <1>1, <1>2, <1>3, <1>4 DEF Misread
<1>5. CASE mode = "INITIAL"
  <2>1. FilesAsDocumented /\ MaxInclDepth \in Nat
    BY DocumentedFiles, HereType
  <2>2. top' = 0 /\ stack' = <<>>
    <3>1. Len(<<>>) = 0
      OBVIOUS
    <3> QED
      BY <1>1, <1>2, <3>1 DEF top
  <2>3. OneStatementPerLine(Content[main])
    BY <1>1, <2>1 DEF FilesAsDocumented
  <2>4. IncludedAt(gone)[MaxInclDepth] \in Included /\ MaxInclDepth - 0 = MaxInclDepth
    BY <2>1, IncludedStepwise
  <2>5. IncludedHere' = IncludedAt(gone)[MaxInclDepth]
    BY <1>1, <2>2, <2>4 DEF IncludedHere
  <2>6. PICK p : p = [i \in 0..MaxInclDepth |-> <<>>]
    OBVIOUS
  <2>7. p \in [0..MaxInclDepth -> Seq(Effect)] /\ p[0] = <<>>
    BY <2>1, <2>6
  <2>8. Waiting(p)'
    BY <2>2, <2>7 DEF Waiting
  <2>9. /\ TextTidy("INITIAL", Content[main])
        /\ Left("INITIAL", Content[main], IncludedAt(gone)[MaxInclDepth]) = Expanded(main, gone)
    BY <2>3, <2>4, LeftOfText DEF Expanded
  <2>10. Expanded(main, gone) \in Seq(Effect)
    BY <2>4, <2>9, LeftType
  <2>11. PICK seen : seen = <<>>
    OBVIOUS
  <2>12. seen \in Seq(Effect)
    BY <2>11
  <2>13. Sifted(seen) = [off |-> 0, kept |-> <<>>]
    <3>1. PICK f \in [0..Len(seen) -> SiftState] : Sifted(seen) = f[Len(seen)] /\ SiftedBy(f, seen)
      BY <2>12, SiftedStepwise
    <3>2. Len(seen) = 0
      BY <2>11
    <3> QED
      BY <3>1, <3>2 DEF SiftedBy, NothingSifted
  <2>14. Expanded(main, gone) = seen \o (Expanded(main, gone) \o <<>>)
    BY <2>10, <2>11, ConcatEmptySeq
  <2>15. Left(mode', buffer', IncludedHere') = Expanded(main, gone)
    BY <1>1, <1>5, <2>5, <2>9
  <2>16. Expanded(main', gone') = seen \o (Left(mode', buffer', IncludedHere') \o p[top'])
    BY <1>1, <2>2, <2>7, <2>14, <2>15
  <2>17. Split(seen, p)'
    BY <1>1, <1>3, <2>8, <2>12, <2>13, <2>16 DEF Split
  <2>18. SplitExists'
    BY <2>17, Zenon DEF SplitExists
  <2>19. StackTidy'
    BY <2>2 DEF StackTidy
  <2>20. GrammarReads'
    BY <1>1, <1>5, Zenon DEF GrammarReads
  <2>21. TextTidy(mode', buffer')
    BY <1>1, <1>5, <2>9
  <2> QED
    BY <1>1, <1>3, <2>18, <2>19, <2>20, <2>21 DEF Reading
<1> QED
  BY <1>1, <1>3, <1>4, <1>5

\* Every step keeps to the configuration as long as sections are not nested too deep.
LEMMA ConfigStep ==
  ASSUME AsDocumented, TypeInv, TypeInv', FilesInv, ArgInv, ConfigInv, DepthIsWithinLimit',
         [StartupNext]_startVars
  PROVE  ConfigInv'
<1>1. CASE phase' # "config"
  BY <1>1 DEF ConfigInv
<1>2. CASE ParseSysload
  BY <1>2, ConfigStarts DEF ConfigInv
<1>3. CASE ParseKernelArgument \/ NoConfiguration \/ Rejected \/ Ready \/ ParseSysloadBootEntry
  <2>1. phase' # "config"
    BY <1>3 DEF ParseKernelArgument, NoConfiguration, Rejected, Ready, ParseSysloadBootEntry
  <2> QED
    BY <1>1, <2>1
<1>4. ASSUME phase = "config"
      PROVE  Context /\ (Parsed \/ Misread \/ Reading) /\ SectionTypes' /\ main \in DOMAIN Content
  BY <1>4, DocumentedFiles DEF Context, ConfigInv, TypeInv, ResultTypes
<1>5. CASE Scan
  <2>1. ScanNext /\ UNCHANGED <<main, phase>>
    BY <1>5 DEF Scan
  <2>2. CASE phase = "config"
    <3>1. busy # "none"
      BY <2>1, Zenon DEF ScanNext, OpenSection, CloseSection, Lexeme, RestOfLine, EchoRest, Include,
         Comment, ModLexeme, Newline, EofInclude, Eof
    <3>2. Misread \/ Reading
      BY <1>4, <2>2, <3>1 DEF Parsed
    <3>3. SectionsTidy' /\ (Parsed \/ Misread \/ Reading)'
      BY <1>4, <2>1, <2>2, <3>2, ScanReads, ScanMisreads DEF ReadsOn
    <3> QED
      BY <1>4, <2>1, <2>2, <3>3 DEF ConfigInv
  <2> QED
    BY <1>1, <2>1, <2>2
<1>6. ASSUME UNCHANGED <<mode, buffer, stack, gone, expects, log, accepted, sectionVars, main, phase>>,
             busy' = busy \/ (busy \in {"net", "waiting"} /\ busy' \in {"scan", "waiting"})
      PROVE  ConfigInv'
  <2>1. CASE phase = "config"
    <3>1. SectionsTidy'
      BY <1>4, <2>1, <1>6, OffKept DEF Context
    <3>2. ASSUME Reading PROVE Reading'
      BY <1>6, <3>2, ReadingKept DEF Reading, GrammarReads
    <3>3. ASSUME Misread PROVE Misread'
      BY <1>6, <3>3 DEF Misread
    <3>4. ASSUME Parsed PROVE Parsed'
      BY <1>6, <3>4 DEF Parsed
    <3> QED
      BY <1>4, <1>6, <2>1, <3>1, <3>2, <3>3, <3>4 DEF ConfigInv
  <2> QED
    BY <1>1, <1>6, <2>1
<1>7. CASE EnableNetwork \/ NetworkEnabled
  BY <1>6, <1>7 DEF EnableNetwork, NetworkEnabled
<1>8. CASE Wait \/ UNCHANGED startVars
  BY <1>6, <1>8 DEF Wait, startVars, scanVars
<1> QED
  BY <1>2, <1>3, <1>5, <1>7, <1>8 DEF StartupNext

\* However files include each other, wherever one cannot be fetched, whatever start condition
\* the kernel arguments leave behind and however long the network keeps the parser waiting:
\* an accepted configuration has had the effects of its expanded text, in order.  It holds
\* for all files whose lines are one statement each and that close their own sections, and
\* as long as fewer than MAX_SYSTEM_DEPTH (999) sections are open.
THEOREM ConfigurationsAreExpanded ==
  ASSUME AsDocumented
  PROVE  StartupSpec /\ []DepthIsWithinLimit => []ConfigIsExpanded
<1> DEFINE Inv == TypeInv /\ FilesInv /\ ArgInv /\ ConfigInv
<1>1. StartupInit => Inv
  <2> SUFFICES ASSUME StartupInit PROVE Inv
    OBVIOUS
  <2>1. ConfigInv
    BY DEF StartupInit, ConfigInv
  <2> QED
    BY <2>1, TypesStart, FilesStart, ArgumentsStart
<1>2. Inv /\ DepthIsWithinLimit' /\ [StartupNext]_startVars => Inv'
  BY TypesStep, FilesStep, ArgumentsStep, ConfigStep
<1>3. Inv => ConfigIsExpanded
  <2> SUFFICES ASSUME Inv, phase = "config", busy = "none", accepted[Len(accepted)]
               PROVE  log = Holding(Expanded(main, gone))
    BY DEF ConfigIsExpanded
  <2>1. Parsed
    BY Zenon DEF ConfigInv, Misread, Reading, GrammarReads
  <2> QED
    BY <2>1 DEF Parsed
<1> HIDE DEF Inv
<1> QED
  BY <1>1, <1>2, <1>3, PTL DEF StartupSpec
=============================================================================
