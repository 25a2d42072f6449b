------------------------- MODULE ConfigParserProofs -------------------------
(***************************************************************************)
(* Proofs for SystemSections, for every limit MAX_SYSTEM_DEPTH, every      *)
(* nesting depth and every set of system identifiers, and for ConfigParser,*)
(* for every set of texts, options, parameters and commands and files of   *)
(* every length.                                                           *)
(***************************************************************************)
EXTENDS ConfigParser, SequenceTheorems, TLAPS

-----------------------------------------------------------------------------
(* SystemSections *)

\* What the two counters of parser_sysload.c say about the stack of conditions they
\* stand for: every section outside the first inactive one holds, and that one, while
\* it lies below the limit, does not.
CountersAgree ==
  /\ system_depth = Len(conds)
  /\ \A i \in 1..Len(conds) : i < system_first_inactive => conds[i]
  /\ system_first_inactive < MaxSystemDepth =>
       /\ system_first_inactive <= Len(conds)
       /\ ~conds[system_first_inactive]

SectionsInv == SectionsTypeOK /\ CountersAgree

\* A condition evaluates to a truth value (rules systemlist and systemid).
LEMMA ConditionIsBoolean ==
  ASSUME NEW negated, NEW listed
  PROVE  SystemList(negated, listed) \in BOOLEAN
BY DEF SystemList

\* Opening a section keeps the counters in step with the conditions (parser_enter_system).
LEMMA EnterKeepsInv ==
  ASSUME SectionsInv,
         NEW negated \in SUBSET Identifiers, NEW listed \in SUBSET Identifiers,
         EnterSystem(negated, listed)
  PROVE  SectionsInv'
<1> DEFINE active == SystemList(negated, listed)
<1>1. active \in BOOLEAN
  BY ConditionIsBoolean
<1>2. conds' = Append(conds, active) /\ conds \in Seq(BOOLEAN) /\ Len(conds) < MaxNesting
  BY DEF EnterSystem, SectionsInv, SectionsTypeOK
<1> HIDE DEF active
<1>3. /\ conds' \in Seq(BOOLEAN) /\ Len(conds') = Len(conds) + 1
      /\ \A i \in 1..Len(conds) : conds'[i] = conds[i]
      /\ conds'[Len(conds) + 1] = active
      /\ Len(conds) \in Nat
  BY <1>1, <1>2
<1>4. /\ system_depth' = system_depth + 1
      /\ system_first_inactive' = IF system_depth + 1 < system_first_inactive /\ ~active
                                  THEN system_depth + 1 ELSE system_first_inactive
  BY DEF EnterSystem, ParserEnterSystem, active
<1>6. SectionsTypeOK'
  BY <1>2, <1>3, <1>4, DepthAssumption DEF SectionsInv, SectionsTypeOK
<1>7. CountersAgree'
  <2>1. system_depth' = Len(conds')
    BY <1>3, <1>4 DEF SectionsInv, CountersAgree
  <2>2. \A i \in 1..Len(conds') : i < system_first_inactive' => conds'[i]
    BY <1>1, <1>3, <1>4, DepthAssumption DEF SectionsInv, SectionsTypeOK, CountersAgree
  <2>3. system_first_inactive' < MaxSystemDepth =>
          /\ system_first_inactive' <= Len(conds')
          /\ ~conds'[system_first_inactive']
    BY <1>1, <1>3, <1>4, DepthAssumption DEF SectionsInv, SectionsTypeOK, CountersAgree
  <2> QED BY <2>1, <2>2, <2>3 DEF CountersAgree
<1> QED BY <1>6, <1>7 DEF SectionsInv

\* What is left of a non-empty sequence of conditions when the last one is removed.
LEMMA WithoutLast ==
  ASSUME NEW s \in Seq(BOOLEAN), s # <<>>
  PROVE  /\ Len(s) \in Nat \ {0}
         /\ SubSeq(s, 1, Len(s) - 1) \in Seq(BOOLEAN)
         /\ Len(SubSeq(s, 1, Len(s) - 1)) = Len(s) - 1
         /\ \A i \in 1..(Len(s) - 1) : SubSeq(s, 1, Len(s) - 1)[i] = s[i]
<1>1. Len(s) \in Nat \ {0}
  BY EmptySeq
<1> DEFINE n == Len(s) - 1
<1>2. n \in Int /\ 1 \in Int /\ \A i \in 1..n : s[i] \in BOOLEAN
  BY <1>1
<1>3. /\ SubSeq(s, 1, n) \in Seq(BOOLEAN)
      /\ Len(SubSeq(s, 1, n)) = IF 1 <= n THEN n - 1 + 1 ELSE 0
      /\ \A i \in 1..(n - 1 + 1) : SubSeq(s, 1, n)[i] = s[1 + i - 1]
  <2> HIDE DEF n
  <2> QED BY <1>2, SubSeqProperties
<1>4. n \in Nat
  BY <1>1
<1>5. Len(SubSeq(s, 1, n)) = n
  <2> HIDE DEF n
  <2> QED BY <1>3, <1>4
<1>6. ASSUME NEW i \in 1..n PROVE SubSeq(s, 1, n)[i] = s[i]
  <2> HIDE DEF n
  <2>1. n - 1 + 1 = n /\ 1 + i - 1 = i
    BY <1>4
  <2> QED BY <1>3, <2>1
<1> QED BY <1>1, <1>3, <1>5, <1>6

\* Closing a section keeps the counters in step with the conditions (parser_exit_system).
LEMMA ExitKeepsInv ==
  ASSUME SectionsInv, ExitSystem
  PROVE  SectionsInv'
<1>1. /\ conds \in Seq(BOOLEAN) /\ conds # <<>>
      /\ conds' = SubSeq(conds, 1, Len(conds) - 1)
  BY DEF ExitSystem, SectionsInv, SectionsTypeOK
<1>2. /\ conds' \in Seq(BOOLEAN) /\ Len(conds') = Len(conds) - 1
      /\ \A i \in 1..(Len(conds) - 1) : conds'[i] = conds[i]
      /\ Len(conds) \in Nat \ {0}
  BY <1>1, WithoutLast
<1>3. /\ system_depth' = system_depth - 1
      /\ system_first_inactive' = IF system_first_inactive = system_depth
                                  THEN MaxSystemDepth ELSE system_first_inactive
  BY DEF ExitSystem, ParserExitSystem
<1>4. SectionsTypeOK'
  BY <1>2, <1>3, DepthAssumption
     DEF SectionsInv, SectionsTypeOK, CountersAgree, ExitSystem
<1>5. CountersAgree'
  <2>1. system_depth' = Len(conds')
    BY <1>2, <1>3 DEF SectionsInv, CountersAgree
  <2>2. \A i \in 1..Len(conds') : i < system_first_inactive' => conds'[i]
    BY <1>2, <1>3, DepthAssumption DEF SectionsInv, SectionsTypeOK, CountersAgree
  <2>3. system_first_inactive' < MaxSystemDepth =>
          /\ system_first_inactive' <= Len(conds')
          /\ ~conds'[system_first_inactive']
    BY <1>2, <1>3, DepthAssumption DEF SectionsInv, SectionsTypeOK, CountersAgree
  <2> QED BY <2>1, <2>2, <2>3 DEF CountersAgree
<1> QED BY <1>4, <1>5 DEF SectionsInv

\* Initially no section is open and the counters say so (parser_init).
LEMMA SectionsInitInv == SectionsInit => SectionsInv
<1> SUFFICES ASSUME SectionsInit PROVE SectionsInv
  OBVIOUS
<1>1. conds \in Seq(BOOLEAN) /\ Len(conds) = 0
  BY EmptySeq DEF SectionsInit
<1>2. SectionsTypeOK
  <2>2. system_depth \in Nat /\ system_first_inactive \in 1..MaxSystemDepth
    BY DepthAssumption DEF SectionsInit
  <2>3. Len(conds) <= MaxNesting
    BY <1>1, DepthAssumption
  <2> QED BY <1>1, <2>2, <2>3 DEF SectionsTypeOK
<1>3. CountersAgree
  BY <1>1, DepthAssumption DEF SectionsInit, CountersAgree
<1> QED BY <1>2, <1>3 DEF SectionsInv

\* Every reachable state of the section counters satisfies the inductive invariant.
THEOREM SectionsInvariance == SectionsSpec => []SectionsInv
<1>1. SectionsInv /\ [SectionsNext]_sectionVars => SectionsInv'
  <2> SUFFICES ASSUME SectionsInv, [SectionsNext]_sectionVars PROVE SectionsInv'
    OBVIOUS
  <2>1. CASE \E negated, listed \in SUBSET Identifiers : EnterSystem(negated, listed)
    BY <2>1, EnterKeepsInv
  <2>2. CASE ExitSystem
    BY <2>2, ExitKeepsInv
  <2>3. CASE UNCHANGED sectionVars
    BY <2>3 DEF sectionVars, SectionsInv, SectionsTypeOK, CountersAgree
  <2> QED BY <2>1, <2>2, <2>3 DEF SectionsNext
<1> QED BY SectionsInitInv, <1>1, PTL DEF SectionsSpec

\* The counters give the answer the stack of conditions would give.
LEMMA InvImpliesActive == SectionsInv => ActiveMeansAllTrue
<1> SUFFICES ASSUME SectionsInv PROVE ActiveMeansAllTrue
  OBVIOUS
<1>1. /\ Len(conds) \in Nat /\ system_depth = Len(conds)
      /\ system_first_inactive \in 1..MaxSystemDepth /\ MaxSystemDepth \in Nat
  BY DepthAssumption DEF SectionsInv, SectionsTypeOK, CountersAgree
<1>2. ASSUME Active PROVE AllTrue /\ Len(conds) < MaxSystemDepth
  BY <1>1, <1>2 DEF SectionsInv, CountersAgree, Active, AllTrue
<1>3. ASSUME AllTrue, Len(conds) < MaxSystemDepth PROVE Active
  BY <1>1, <1>3 DEF SectionsInv, CountersAgree, Active, AllTrue
<1> QED BY <1>2, <1>3 DEF ActiveMeansAllTrue

\* The counters of parser_active_system(), parser_enter_system() and
\* parser_exit_system() always answer as the stack of conditions would.
THEOREM CountersDecideActivity == SectionsSpec => []ActiveMeansAllTrue
BY SectionsInvariance, InvImpliesActive, PTL

-----------------------------------------------------------------------------
(* ConfigParser *)

\* The types of the lists and of the entry being collected, as far as the proofs use them
ListTypes ==
  /\ bentry \in Entries
  /\ ui_list \in Seq(UserInterfaces)
  /\ bentry_list \in Seq(Entries)

ParserInv == SectionsInv /\ ListTypes /\ NoResidue /\ SecondaryIsPassive /\ TimeoutHasDefault

\* The empty entry is an entry (cfg_bentry_init).
LEMMA EmptyEntryType ==
  ASSUME TextAssumption PROVE EmptyEntry \in Entries
BY DEF EmptyEntry, Entries, TextAssumption

\* An option turns an entry into an entry (the rule option).
LEMMA ParseOptionType ==
  ASSUME NEW entry \in Entries, NEW o \in Options
  PROVE  ParseOption(entry, o) \in Entries
BY DEF ParseOption, Entries

\* The empty list has no element.
LEMMA NoElements ==
  ASSUME NEW list, list = <<>> PROVE 1..Len(list) = {}
<1>1. Len(list) = 0
  BY EmptySeq
<1> QED BY <1>1

\* A user interface makes a list of one.
LEMMA OneUi ==
  ASSUME NEW mod \in Modules \cup {"ssh"}, NEW line \in {"args", "/dev/tty"}
  PROVE  <<[module |-> mod, cmdline |-> line]>> \in Seq(UserInterfaces)
<1> DEFINE ui == [module |-> mod, cmdline |-> line]
<1>1. ui \in UserInterfaces
  BY DEF UserInterfaces
<1> HIDE DEF ui
<1>2. <<ui>> \in Seq(UserInterfaces)
  BY <1>1
<1> QED BY <1>2 DEF ui

\* Every step of the parser moves the section counters as SystemSections does.
LEMMA ParserSectionsStep ==
  ASSUME SectionsInv, [ParserNext]_parserVars
  PROVE  SectionsInv'
<1>0. ASSUME UNCHANGED sectionVars PROVE SectionsInv'
  BY <1>0 DEF sectionVars, SectionsInv, SectionsTypeOK, CountersAgree
<1>1. ASSUME NEW name \in Names, DefaultStmt(name) PROVE SectionsInv'
  BY <1>1, <1>0 DEF DefaultStmt, In, sectionVars
<1>2. ASSUME NEW name \in Names, OpenEntry(name) PROVE SectionsInv'
  BY <1>2, <1>0 DEF OpenEntry, Open, In, sectionVars
<1>3. ASSUME NEW n \in Timeouts, TimeoutStmt(n) PROVE SectionsInv'
  BY <1>3, <1>0 DEF TimeoutStmt, In, sectionVars
<1>4. ASSUME NEW p \in Passwords, PasswordStmt(p) PROVE SectionsInv'
  BY <1>4, <1>0 DEF PasswordStmt, In, sectionVars
<1>5. ASSUME NEW c \in Commands, ExecStmt(c) PROVE SectionsInv'
  BY <1>5, <1>0 DEF ExecStmt, CfgSystem, Run, In, sectionVars
<1>6. ASSUME NEW m \in Modules, UserinterfaceStmt(m) PROVE SectionsInv'
  BY <1>6, <1>0 DEF UserinterfaceStmt, AddUserinterface, In, sectionVars
<1>7. ASSUME NEW m \in Modules, UserinterfaceSsh(m) PROVE SectionsInv'
  BY <1>7, <1>0 DEF UserinterfaceSsh, AddUserinterface, In, sectionVars
<1>8. CASE OpenModule
  BY <1>8, <1>0 DEF OpenModule, Open, In, sectionVars
<1>9. CASE CloseModule
  BY <1>9, <1>0 DEF CloseModule, Close, Run, In, sectionVars
<1>10. ASSUME NEW p \in ModParams, ModParam(p) PROVE SectionsInv'
  BY <1>10, <1>0 DEF ModParam, In, sectionVars
<1>11. CASE OpenNetwork
  BY <1>11, <1>0 DEF OpenNetwork, Open, In, sectionVars
<1>12. CASE CloseNetwork
  BY <1>12, <1>0 DEF CloseNetwork, Close, Run, In, sectionVars
<1>13. ASSUME NEW p \in NetParams, NetParam(p) PROVE SectionsInv'
  BY <1>13, <1>0 DEF NetParam, In, sectionVars
<1>14. CASE CloseEntry
  BY <1>14, <1>0 DEF CloseEntry, Close, In, sectionVars
<1>15. ASSUME NEW o \in Options, EntryOption(o) PROVE SectionsInv'
  BY <1>15, <1>0 DEF EntryOption, In, sectionVars
<1>16. ASSUME NEW negated \in SUBSET Identifiers, NEW listed \in SUBSET Identifiers,
             OpenSection(negated, listed)
      PROVE  SectionsInv'
  BY <1>16, EnterKeepsInv DEF OpenSection
<1>17. CASE CloseSection
  BY <1>17, ExitKeepsInv DEF CloseSection
<1>18. CASE SyntaxError
  BY <1>18, <1>0 DEF SyntaxError, CfgInit, sectionVars
<1>19. CASE EndOfFile
  BY <1>19, <1>0 DEF EndOfFile, CfgInit, In, sectionVars
<1>20. CASE UNCHANGED parserVars
  BY <1>20, <1>0 DEF parserVars, sectionVars
<1> QED BY <1>1, <1>2, <1>3, <1>4, <1>5, <1>6, <1>7, <1>8, <1>9, <1>10, <1>11, <1>12, <1>13,
           <1>14, <1>15, <1>16, <1>17, <1>18, <1>19, <1>20 DEF ParserNext

\* The list stays a list when a user interface is added (cfg_add_userinterface).
LEMMA AddedUi ==
  ASSUME ListTypes, NEW m \in Modules, UserinterfaceStmt(m) PROVE ListTypes'
<1> DEFINE added == IF Primary THEN <<[module |-> m, cmdline |-> "args"]>> ELSE <<>>
<1>1. added \in Seq(UserInterfaces)
  BY EmptySeq, OneUi
<1> HIDE DEF added
<1>2. ui_list \o added \in Seq(UserInterfaces)
  BY <1>1 DEF ListTypes
<1>3. AddUserinterface(added)
  BY DEF UserinterfaceStmt, added
<1> QED BY <1>2, <1>3 DEF AddUserinterface, ListTypes

\* The list stays a list when ssh or the user interface it runs is added.
LEMMA AddedSshUi ==
  ASSUME ListTypes, NEW m \in Modules, UserinterfaceSsh(m) PROVE ListTypes'
<1> DEFINE added == IF Primary THEN <<[module |-> "ssh", cmdline |-> "args"]>>
                    ELSE IF only_ui = m THEN <<[module |-> m, cmdline |-> "/dev/tty"]>>
                    ELSE <<>>
<1>1. added \in Seq(UserInterfaces)
  BY EmptySeq, OneUi
<1> HIDE DEF added
<1>2. ui_list \o added \in Seq(UserInterfaces)
  BY <1>1 DEF ListTypes
<1>3. AddUserinterface(added)
  BY DEF UserinterfaceSsh, added
<1> QED BY <1>2, <1>3 DEF AddUserinterface, ListTypes

\* Every step of the parser keeps the types of the lists and of the collected entry.
LEMMA ParserListsStep ==
  ASSUME ListTypes, [ParserNext]_parserVars
  PROVE  ListTypes'
<1> USE DEF ListTypes
<1>1. ASSUME NEW name \in Names, DefaultStmt(name) PROVE ListTypes'
  BY <1>1 DEF DefaultStmt, In
<1>2. ASSUME NEW name \in Names, OpenEntry(name) PROVE ListTypes'
  BY <1>2 DEF OpenEntry, Open, In, Entries
<1>3. ASSUME NEW n \in Timeouts, TimeoutStmt(n) PROVE ListTypes'
  BY <1>3 DEF TimeoutStmt, In
<1>4. ASSUME NEW p \in Passwords, PasswordStmt(p) PROVE ListTypes'
  BY <1>4 DEF PasswordStmt, In
<1>5. ASSUME NEW c \in Commands, ExecStmt(c) PROVE ListTypes'
  BY <1>5 DEF ExecStmt, CfgSystem, Run, In
<1>6. ASSUME NEW m \in Modules, UserinterfaceStmt(m) PROVE ListTypes'
  BY <1>6, AddedUi DEF UserinterfaceStmt
<1>7. ASSUME NEW m \in Modules, UserinterfaceSsh(m) PROVE ListTypes'
  BY <1>7, AddedSshUi DEF UserinterfaceSsh
<1>8. CASE OpenModule
  BY <1>8 DEF OpenModule, Open, In
<1>9. CASE CloseModule
  BY <1>9 DEF CloseModule, Close, Run, In
<1>10. ASSUME NEW p \in ModParams, ModParam(p) PROVE ListTypes'
  BY <1>10 DEF ModParam, In
<1>11. CASE OpenNetwork
  BY <1>11 DEF OpenNetwork, Open, In
<1>12. CASE CloseNetwork
  BY <1>12 DEF CloseNetwork, Close, Run, In
<1>13. ASSUME NEW p \in NetParams, NetParam(p) PROVE ListTypes'
  BY <1>13 DEF NetParam, In
<1>14. CASE CloseEntry
  <2>1. bentry' \in Entries /\ ui_list' = ui_list
    BY <1>14, EmptyEntryType, TextAssumption DEF CloseEntry
  <2>2. bentry_list' \in Seq(Entries)
    BY <1>14 DEF CloseEntry
  <2> QED BY <2>1, <2>2
<1>15. ASSUME NEW o \in Options, EntryOption(o) PROVE ListTypes'
  BY <1>15, ParseOptionType DEF EntryOption, In
<1>16. ASSUME NEW negated \in SUBSET Identifiers, NEW listed \in SUBSET Identifiers,
             OpenSection(negated, listed)
      PROVE  ListTypes'
  BY <1>16 DEF OpenSection
<1>17. CASE CloseSection
  BY <1>17 DEF CloseSection
<1>18. CASE SyntaxError
  BY <1>18, EmptySeq DEF SyntaxError, CfgInit
<1>19. CASE EndOfFile
  BY <1>19, EmptySeq DEF EndOfFile, CfgInit, In
<1>20. CASE UNCHANGED parserVars
  BY <1>20 DEF parserVars
<1> QED BY <1>1, <1>2, <1>3, <1>4, <1>5, <1>6, <1>7, <1>8, <1>9, <1>10, <1>11, <1>12, <1>13,
           <1>14, <1>15, <1>16, <1>17, <1>18, <1>19, <1>20 DEF ParserNext

\* Every step of the parser leaves nothing behind outside a block.
LEMMA ParserResidueStep ==
  ASSUME NoResidue, [ParserNext]_parserVars
  PROVE  NoResidue'
<1> USE DEF NoResidue
<1>1. ASSUME NEW name \in Names, DefaultStmt(name) PROVE NoResidue'
  BY <1>1 DEF DefaultStmt, In
<1>2. ASSUME NEW name \in Names, OpenEntry(name) PROVE NoResidue'
  BY <1>2 DEF OpenEntry, Open, In
<1>3. ASSUME NEW n \in Timeouts, TimeoutStmt(n) PROVE NoResidue'
  BY <1>3 DEF TimeoutStmt, In
<1>4. ASSUME NEW p \in Passwords, PasswordStmt(p) PROVE NoResidue'
  BY <1>4 DEF PasswordStmt, In
<1>5. ASSUME NEW c \in Commands, ExecStmt(c) PROVE NoResidue'
  BY <1>5 DEF ExecStmt, CfgSystem, Run, In
<1>6. ASSUME NEW m \in Modules, UserinterfaceStmt(m) PROVE NoResidue'
  BY <1>6 DEF UserinterfaceStmt, AddUserinterface, In
<1>7. ASSUME NEW m \in Modules, UserinterfaceSsh(m) PROVE NoResidue'
  BY <1>7 DEF UserinterfaceSsh, AddUserinterface, In
<1>8. CASE OpenModule
  BY <1>8 DEF OpenModule, Open, In
<1>9. CASE CloseModule
  BY <1>9 DEF CloseModule, Close, Run, In
<1>10. ASSUME NEW p \in ModParams, ModParam(p) PROVE NoResidue'
  BY <1>10 DEF ModParam, In
<1>11. CASE OpenNetwork
  BY <1>11 DEF OpenNetwork, Open, In
<1>12. CASE CloseNetwork
  BY <1>12 DEF CloseNetwork, Close, Run, In
<1>13. ASSUME NEW p \in NetParams, NetParam(p) PROVE NoResidue'
  BY <1>13 DEF NetParam, In
<1>14. CASE CloseEntry
  BY <1>14 DEF CloseEntry, Close, In
<1>15. ASSUME NEW o \in Options, EntryOption(o) PROVE NoResidue'
  BY <1>15 DEF EntryOption, In
<1>16. ASSUME NEW negated \in SUBSET Identifiers, NEW listed \in SUBSET Identifiers,
             OpenSection(negated, listed)
      PROVE  NoResidue'
  BY <1>16 DEF OpenSection
<1>17. CASE CloseSection
  BY <1>17 DEF CloseSection
<1>18. CASE SyntaxError
  BY <1>18 DEF SyntaxError, CfgInit
<1>19. CASE EndOfFile
  BY <1>19 DEF EndOfFile, CfgInit, In
<1>20. CASE UNCHANGED parserVars
  BY <1>20 DEF parserVars
<1> QED BY <1>1, <1>2, <1>3, <1>4, <1>5, <1>6, <1>7, <1>8, <1>9, <1>10, <1>11, <1>12, <1>13,
           <1>14, <1>15, <1>16, <1>17, <1>18, <1>19, <1>20 DEF ParserNext

\* The way the program was started never changes.
LEMMA ParserModeStep ==
  ASSUME [ParserNext]_parserVars PROVE only_ui' = only_ui
<1>1. ASSUME NEW name \in Names, DefaultStmt(name) PROVE only_ui' = only_ui
  BY <1>1 DEF DefaultStmt, In
<1>2. ASSUME NEW name \in Names, OpenEntry(name) PROVE only_ui' = only_ui
  BY <1>2 DEF OpenEntry, Open, In
<1>3. ASSUME NEW n \in Timeouts, TimeoutStmt(n) PROVE only_ui' = only_ui
  BY <1>3 DEF TimeoutStmt, In
<1>4. ASSUME NEW p \in Passwords, PasswordStmt(p) PROVE only_ui' = only_ui
  BY <1>4 DEF PasswordStmt, In
<1>5. ASSUME NEW c \in Commands, ExecStmt(c) PROVE only_ui' = only_ui
  BY <1>5 DEF ExecStmt, CfgSystem, Run, In
<1>6. ASSUME NEW m \in Modules, UserinterfaceStmt(m) PROVE only_ui' = only_ui
  BY <1>6 DEF UserinterfaceStmt, AddUserinterface, In
<1>7. ASSUME NEW m \in Modules, UserinterfaceSsh(m) PROVE only_ui' = only_ui
  BY <1>7 DEF UserinterfaceSsh, AddUserinterface, In
<1>8. CASE OpenModule
  BY <1>8 DEF OpenModule, Open, In
<1>9. CASE CloseModule
  BY <1>9 DEF CloseModule, Close, Run, In
<1>10. ASSUME NEW p \in ModParams, ModParam(p) PROVE only_ui' = only_ui
  BY <1>10 DEF ModParam, In
<1>11. CASE OpenNetwork
  BY <1>11 DEF OpenNetwork, Open, In
<1>12. CASE CloseNetwork
  BY <1>12 DEF CloseNetwork, Close, Run, In
<1>13. ASSUME NEW p \in NetParams, NetParam(p) PROVE only_ui' = only_ui
  BY <1>13 DEF NetParam, In
<1>14. CASE CloseEntry
  BY <1>14 DEF CloseEntry, Close, In
<1>15. ASSUME NEW o \in Options, EntryOption(o) PROVE only_ui' = only_ui
  BY <1>15 DEF EntryOption, In
<1>16. ASSUME NEW negated \in SUBSET Identifiers, NEW listed \in SUBSET Identifiers,
             OpenSection(negated, listed)
      PROVE  only_ui' = only_ui
  BY <1>16 DEF OpenSection
<1>17. CASE CloseSection
  BY <1>17 DEF CloseSection
<1>18. CASE SyntaxError
  BY <1>18 DEF SyntaxError, CfgInit
<1>19. CASE EndOfFile
  BY <1>19 DEF EndOfFile, CfgInit, In
<1>20. CASE UNCHANGED parserVars
  BY <1>20 DEF parserVars
<1> QED BY <1>1, <1>2, <1>3, <1>4, <1>5, <1>6, <1>7, <1>8, <1>9, <1>10, <1>11, <1>12, <1>13,
           <1>14, <1>15, <1>16, <1>17, <1>18, <1>19, <1>20 DEF ParserNext

\* No step of a secondary System Loader touches the system.
LEMMA ParserSecondaryStep ==
  ASSUME ListTypes, SecondaryIsPassive, [ParserNext]_parserVars
  PROVE  SecondaryIsPassive'
<1>m. only_ui' = only_ui
  BY ParserModeStep
<1> SUFFICES ASSUME ~Primary PROVE SecondaryIsPassive'
  BY <1>m DEF SecondaryIsPassive, Primary
<1> USE <1>m DEF SecondaryIsPassive
<1>1. ASSUME NEW name \in Names, DefaultStmt(name) PROVE SecondaryIsPassive'
  BY <1>1 DEF DefaultStmt, In
<1>2. ASSUME NEW name \in Names, OpenEntry(name) PROVE SecondaryIsPassive'
  BY <1>2 DEF OpenEntry, Open, In
<1>3. ASSUME NEW n \in Timeouts, TimeoutStmt(n) PROVE SecondaryIsPassive'
  BY <1>3 DEF TimeoutStmt, In
<1>4. ASSUME NEW p \in Passwords, PasswordStmt(p) PROVE SecondaryIsPassive'
  BY <1>4 DEF PasswordStmt, In
<1>5. ASSUME NEW c \in Commands, ExecStmt(c) PROVE SecondaryIsPassive'
  BY <1>5 DEF ExecStmt, CfgSystem, Run, In
<1>6. ASSUME NEW m \in Modules, UserinterfaceStmt(m) PROVE SecondaryIsPassive'
  BY <1>6 DEF UserinterfaceStmt, AddUserinterface, In, ListTypes
<1>7. ASSUME NEW m \in Modules, UserinterfaceSsh(m) PROVE SecondaryIsPassive'
  BY <1>7 DEF UserinterfaceSsh, AddUserinterface, In, ListTypes
<1>8. CASE OpenModule
  BY <1>8 DEF OpenModule, Open, In
<1>9. CASE CloseModule
  BY <1>9 DEF CloseModule, Close, Run, In
<1>10. ASSUME NEW p \in ModParams, ModParam(p) PROVE SecondaryIsPassive'
  BY <1>10 DEF ModParam, In
<1>11. CASE OpenNetwork
  BY <1>11 DEF OpenNetwork, Open, In
<1>12. CASE CloseNetwork
  BY <1>12 DEF CloseNetwork, Close, Run, In
<1>13. ASSUME NEW p \in NetParams, NetParam(p) PROVE SecondaryIsPassive'
  BY <1>13 DEF NetParam, In
<1>14. CASE CloseEntry
  BY <1>14 DEF CloseEntry, Close, In
<1>15. ASSUME NEW o \in Options, EntryOption(o) PROVE SecondaryIsPassive'
  BY <1>15 DEF EntryOption, In
<1>16. ASSUME NEW negated \in SUBSET Identifiers, NEW listed \in SUBSET Identifiers,
             OpenSection(negated, listed)
      PROVE  SecondaryIsPassive'
  BY <1>16 DEF OpenSection
<1>17. CASE CloseSection
  BY <1>17 DEF CloseSection
<1>18. CASE SyntaxError
  <2>1. ui_list' = <<>> /\ timeout' = 0 /\ commands' = commands
    BY <1>18 DEF SyntaxError, CfgInit
  <2> QED BY <2>1, NoElements
<1>19. CASE EndOfFile
  <2>1. commands' = commands
    BY <1>19 DEF EndOfFile
  <2>2. CASE ui_list' = <<>> /\ timeout' = 0
    BY <2>1, <2>2, NoElements
  <2>3. CASE ui_list' = ui_list /\ timeout' = timeout
    BY <2>1, <2>3
  <2> QED BY <2>2, <2>3, <1>19 DEF EndOfFile, CfgInit
<1>20. CASE UNCHANGED parserVars
  BY <1>20 DEF parserVars
<1> QED BY <1>1, <1>2, <1>3, <1>4, <1>5, <1>6, <1>7, <1>8, <1>9, <1>10, <1>11, <1>12, <1>13,
           <1>14, <1>15, <1>16, <1>17, <1>18, <1>19, <1>20 DEF ParserNext

\* The outcome of reading keeps its meaning.
LEMMA ParserDefaultStep ==
  ASSUME ListTypes, TimeoutHasDefault, [ParserNext]_parserVars
  PROVE  TimeoutHasDefault'
<1> USE DEF TimeoutHasDefault
<1>1. ASSUME NEW name \in Names, DefaultStmt(name) PROVE TimeoutHasDefault'
  BY <1>1 DEF DefaultStmt, In
<1>2. ASSUME NEW name \in Names, OpenEntry(name) PROVE TimeoutHasDefault'
  BY <1>2 DEF OpenEntry, Open, In
<1>3. ASSUME NEW n \in Timeouts, TimeoutStmt(n) PROVE TimeoutHasDefault'
  BY <1>3 DEF TimeoutStmt, In
<1>4. ASSUME NEW p \in Passwords, PasswordStmt(p) PROVE TimeoutHasDefault'
  BY <1>4 DEF PasswordStmt, In
<1>5. ASSUME NEW c \in Commands, ExecStmt(c) PROVE TimeoutHasDefault'
  BY <1>5 DEF ExecStmt, CfgSystem, Run, In
<1>6. ASSUME NEW m \in Modules, UserinterfaceStmt(m) PROVE TimeoutHasDefault'
  BY <1>6 DEF UserinterfaceStmt, AddUserinterface, In
<1>7. ASSUME NEW m \in Modules, UserinterfaceSsh(m) PROVE TimeoutHasDefault'
  BY <1>7 DEF UserinterfaceSsh, AddUserinterface, In
<1>8. CASE OpenModule
  BY <1>8 DEF OpenModule, Open, In
<1>9. CASE CloseModule
  BY <1>9 DEF CloseModule, Close, Run, In
<1>10. ASSUME NEW p \in ModParams, ModParam(p) PROVE TimeoutHasDefault'
  BY <1>10 DEF ModParam, In
<1>11. CASE OpenNetwork
  BY <1>11 DEF OpenNetwork, Open, In
<1>12. CASE CloseNetwork
  BY <1>12 DEF CloseNetwork, Close, Run, In
<1>13. ASSUME NEW p \in NetParams, NetParam(p) PROVE TimeoutHasDefault'
  BY <1>13 DEF NetParam, In
<1>14. CASE CloseEntry
  BY <1>14 DEF CloseEntry, Close, In
<1>15. ASSUME NEW o \in Options, EntryOption(o) PROVE TimeoutHasDefault'
  BY <1>15 DEF EntryOption, In
<1>16. ASSUME NEW negated \in SUBSET Identifiers, NEW listed \in SUBSET Identifiers,
             OpenSection(negated, listed)
      PROVE  TimeoutHasDefault'
  BY <1>16 DEF OpenSection
<1>17. CASE CloseSection
  BY <1>17 DEF CloseSection
<1>18. CASE SyntaxError
  BY <1>18 DEF SyntaxError, CfgInit
<1>19. CASE EndOfFile
  <2>1. CASE Referenced = {} /\ CfgInit
    BY <2>1 DEF CfgInit
  <2>2. CASE /\ \E i \in Referenced : (\A j \in Referenced : i <= j) /\ default' = i
             /\ phase' = "parsed"
             /\ UNCHANGED <<timeout, password, ui_list, bentry_list>>
    <3>1. PICK i \in Referenced : (\A j \in Referenced : i <= j) /\ default' = i
      BY <2>2
    <3>2. Len(bentry_list) \in Nat /\ i \in 0..(Len(bentry_list) - 1)
      BY <3>1 DEF Referenced, ListTypes
    <3>3. boot_default' = boot_default /\ bentry_list' = bentry_list
      BY <2>2, <1>19 DEF EndOfFile
    <3>4. CASE boot_default \in DOMAIN NumberOf
      BY <2>2, <3>1, <3>2, <3>3, <3>4 DEF Referenced
    <3>5. CASE boot_default \notin DOMAIN NumberOf
      <4>1. bentry_list[i + 1].label = boot_default
        BY <3>1, <3>5 DEF Referenced
      <4>2. ASSUME NEW k \in 1..i, bentry_list[k].label = boot_default PROVE FALSE
        <5>1. k - 1 \in 0..(Len(bentry_list) - 1) /\ (k - 1) + 1 = k /\ ~(i <= k - 1)
          BY <3>2
        <5> QED BY <3>1, <3>5, <4>2, <5>1 DEF Referenced
      <4> QED BY <2>2, <3>1, <3>2, <3>3, <3>5, <4>1, <4>2
    <3> QED BY <3>4, <3>5
  <2> QED BY <2>1, <2>2, <1>19 DEF EndOfFile
<1>20. CASE UNCHANGED parserVars
  BY <1>20 DEF parserVars
<1> QED BY <1>1, <1>2, <1>3, <1>4, <1>5, <1>6, <1>7, <1>8, <1>9, <1>10, <1>11, <1>12, <1>13,
           <1>14, <1>15, <1>16, <1>17, <1>18, <1>19, <1>20 DEF ParserNext

\* Initially the invariant of the parser holds (parser_init, cfg_init).
LEMMA ParserInitInv == ParserInit => ParserInv
<1> SUFFICES ASSUME ParserInit PROVE ParserInv
  OBVIOUS
<1>1. SectionsInv
  BY SectionsInitInv DEF ParserInit
<1>2. ListTypes
  BY EmptySeq, EmptyEntryType, TextAssumption DEF ParserInit, ListTypes
<1>3. NoResidue
  BY DEF ParserInit, NoResidue
<1>4. SecondaryIsPassive
  BY NoElements DEF ParserInit, SecondaryIsPassive
<1>5. TimeoutHasDefault
  BY DEF ParserInit, TimeoutHasDefault
<1> QED BY <1>1, <1>2, <1>3, <1>4, <1>5 DEF ParserInv

\* Every reachable state of the parser satisfies the inductive invariant.
THEOREM ParserInvariance == ParserSpec => []ParserInv
<1>1. ParserInv /\ [ParserNext]_parserVars => ParserInv'
  BY ParserSectionsStep, ParserListsStep, ParserResidueStep, ParserSecondaryStep,
     ParserDefaultStep DEF ParserInv
<1> QED BY ParserInitInv, <1>1, PTL DEF ParserSpec

\* Settings never leak from one block into the next one.
THEOREM BlocksAreIndependent == ParserSpec => []NoResidue
BY ParserInvariance, PTL DEF ParserInv

\* Whatever the file says, a secondary System Loader runs no command, has no timeout and
\* starts its own user interface only.
THEOREM SecondaryNeverActs == ParserSpec => []SecondaryIsPassive
BY ParserInvariance, PTL DEF ParserInv

\* A timeout always has the default entry that the default statement refers to.
THEOREM DefaultResolved == ParserSpec => []TimeoutHasDefault
BY ParserInvariance, PTL DEF ParserInv

\* A step inside a section with a false condition, or nested in one, leaves no trace.
LEMMA IgnoredStep ==
  ASSUME SectionsInv, [ParserNext]_parserVars, ~AllTrue, phase' = "parsing"
  PROVE  /\ UNCHANGED <<boot_default, password, ui_list, bentry_list, commands>>
         /\ ctx' = ctx => UNCHANGED <<bentry, modconf, netconf>>
<1> DEFINE Ignored == /\ UNCHANGED <<boot_default, password, ui_list, bentry_list, commands>>
                      /\ ctx' = ctx => UNCHANGED <<bentry, modconf, netconf>>
<1>0. ~Active
  BY InvImpliesActive DEF ActiveMeansAllTrue
<1>1. ASSUME NEW name \in Names, DefaultStmt(name) PROVE Ignored
  BY <1>1, <1>0 DEF DefaultStmt, In
<1>2. ASSUME NEW name \in Names, OpenEntry(name) PROVE Ignored
  BY <1>2, <1>0 DEF OpenEntry, Open, In
<1>3. ASSUME NEW n \in Timeouts, TimeoutStmt(n) PROVE Ignored
  BY <1>3, <1>0 DEF TimeoutStmt, In
<1>4. ASSUME NEW p \in Passwords, PasswordStmt(p) PROVE Ignored
  BY <1>4, <1>0 DEF PasswordStmt, In
<1>5. ASSUME NEW c \in Commands, ExecStmt(c) PROVE Ignored
  BY <1>5, <1>0 DEF ExecStmt, CfgSystem, Run, In
<1>6. ASSUME NEW m \in Modules, UserinterfaceStmt(m) PROVE Ignored
  BY <1>6, <1>0 DEF UserinterfaceStmt, AddUserinterface, In
<1>7. ASSUME NEW m \in Modules, UserinterfaceSsh(m) PROVE Ignored
  BY <1>7, <1>0 DEF UserinterfaceSsh, AddUserinterface, In
<1>8. CASE OpenModule
  BY <1>8, <1>0 DEF OpenModule, Open, In
<1>9. CASE CloseModule
  BY <1>9, <1>0 DEF CloseModule, Close, Run, In
<1>10. ASSUME NEW p \in ModParams, ModParam(p) PROVE Ignored
  BY <1>10, <1>0 DEF ModParam, In
<1>11. CASE OpenNetwork
  BY <1>11, <1>0 DEF OpenNetwork, Open, In
<1>12. CASE CloseNetwork
  BY <1>12, <1>0 DEF CloseNetwork, Close, Run, In
<1>13. ASSUME NEW p \in NetParams, NetParam(p) PROVE Ignored
  BY <1>13, <1>0 DEF NetParam, In
<1>14. CASE CloseEntry
  BY <1>14, <1>0 DEF CloseEntry, Close, In
<1>15. ASSUME NEW o \in Options, EntryOption(o) PROVE Ignored
  BY <1>15, <1>0 DEF EntryOption, In
<1>16. ASSUME NEW negated \in SUBSET Identifiers, NEW listed \in SUBSET Identifiers,
             OpenSection(negated, listed)
      PROVE  Ignored
  BY <1>16, <1>0 DEF OpenSection
<1>17. CASE CloseSection
  BY <1>17, <1>0 DEF CloseSection
<1>18. CASE SyntaxError
  BY <1>18, <1>0 DEF SyntaxError, CfgInit
<1>19. CASE EndOfFile
  BY <1>19, <1>0 DEF EndOfFile, CfgInit, In
<1>20. CASE UNCHANGED parserVars
  BY <1>20, <1>0 DEF parserVars
<1> QED BY <1>1, <1>2, <1>3, <1>4, <1>5, <1>6, <1>7, <1>8, <1>9, <1>10, <1>11, <1>12, <1>13,
           <1>14, <1>15, <1>16, <1>17, <1>18, <1>19, <1>20 DEF ParserNext

\* Ignored text never changes the configuration, runs a command or adds to a block.
THEOREM IgnoredTextIsIgnored == ParserSpec => IgnoredTextLeavesNoTrace
<1>1. ParserInv /\ [ParserNext]_parserVars
      => [~AllTrue /\ phase' = "parsing" =>
            /\ UNCHANGED <<boot_default, password, ui_list, bentry_list, commands>>
            /\ ctx' = ctx => UNCHANGED <<bentry, modconf, netconf>>]_parserVars
  BY IgnoredStep DEF ParserInv
<1> QED BY <1>1, ParserInvariance, PTL DEF ParserSpec, IgnoredTextLeavesNoTrace
=============================================================================
