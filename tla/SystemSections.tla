--------------------------- MODULE SystemSections ---------------------------
(***************************************************************************)
(* Nested 'system' sections of the configuration file.  The parser keeps   *)
(* two integers, the nesting depth and the depth of the outermost inactive *)
(* section, and asks parser_active_system() before every action            *)
(* (core/parser_sysload.c); the conditions are evaluated by the rules      *)
(* system, systemlist and systemid of core/sysload.conf.y.                 *)
(***************************************************************************)
EXTENDS Integers, Sequences

CONSTANTS
  MaxSystemDepth,  \* MAX_SYSTEM_DEPTH
  MaxNesting,      \* bound: sections opened inside one another
  Identifiers,     \* system identifiers a configuration file mentions
  Uuids,           \* those written uuid(...)
  Matching         \* those that name the system we run on

ASSUME DepthAssumption == MaxSystemDepth \in Nat \ {0} /\ MaxNesting \in Nat
ASSUME IdentifierAssumption == Uuids \subseteq Identifiers /\ Matching \subseteq Identifiers

VARIABLES
  system_depth,
  system_first_inactive,
  conds  \* the values of the conditions of the open sections, outermost first

sectionVars == <<system_depth, system_first_inactive, conds>>

SectionsInit ==
  /\ system_depth = 0
  /\ system_first_inactive = MaxSystemDepth
  /\ conds = <<>>

\* parser_active_system() == PA_ACTIVE
Active == system_depth < system_first_inactive

-----------------------------------------------------------------------------
(* system [not(negated)] listed ... {   *)

\* nb_test_mac(), parser_vmguest_test() and parser_lpar_test() look at the system;
\* for uuid the rule returns the identifier itself, which is not the text "true".
SystemId(id) == id \in Matching /\ id \notin Uuids

SystemList(negated, listed) ==
  \/ negated # {} /\ ~(\E id \in negated : SystemId(id))
  \/ \E id \in listed : SystemId(id)

\* Mutant: an inactive section inside an inactive one becomes the first inactive one.
ParserEnterInactive(active) ==
  /\ system_depth' = system_depth + 1
  /\ system_first_inactive' = IF ~active THEN system_depth' ELSE system_first_inactive

\* parser_enter_system(active)
ParserEnterSystem(active) ==
  /\ system_depth' = system_depth + 1
  /\ system_first_inactive' =
       IF system_depth' < system_first_inactive /\ ~active
       THEN system_depth' ELSE system_first_inactive

EnterSystem(negated, listed) ==
  /\ Len(conds) < MaxNesting
  /\ negated \cup listed # {}
  /\ ParserEnterSystem(SystemList(negated, listed))
  /\ conds' = Append(conds, SystemList(negated, listed))

\* parser_exit_system()
ParserExitSystem ==
  /\ system_first_inactive' =
       IF system_first_inactive = system_depth THEN MaxSystemDepth ELSE system_first_inactive
  /\ system_depth' = system_depth - 1

ExitSystem ==
  /\ conds # <<>>
  /\ ParserExitSystem
  /\ conds' = SubSeq(conds, 1, Len(conds) - 1)

SectionsNext ==
  \/ \E negated, listed \in SUBSET Identifiers : EnterSystem(negated, listed)
  \/ ExitSystem

SectionsSpec == SectionsInit /\ [][SectionsNext]_sectionVars

-----------------------------------------------------------------------------
(* Properties *)

\* The depth never becomes negative and the first inactive depth stays within
\* 1..MAX_SYSTEM_DEPTH.
SectionsTypeOK ==
  /\ system_depth \in Nat
  /\ system_first_inactive \in 1..MaxSystemDepth
  /\ conds \in Seq(BOOLEAN)
  /\ Len(conds) <= MaxNesting

AllTrue == \A i \in 1..Len(conds) : conds[i]

\* The two counters answer as the stack of conditions would: text is active exactly
\* when the conditions of all enclosing sections hold, through any sequence of openings
\* and closings, and up to the limit at which MAX_SYSTEM_DEPTH makes all text inactive
\* (parser_active_system, parser_enter_system, parser_exit_system).
ActiveMeansAllTrue == Active <=> AllTrue /\ Len(conds) < MaxSystemDepth
=============================================================================
