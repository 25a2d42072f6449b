------------------------------ MODULE Scanner -------------------------------
(***************************************************************************)
(* The scanner of configuration texts (core/sysload.conf.l) with its start *)
(* conditions and its stack of included files, feeding the grammar         *)
(* (core/sysload.conf.y).  A text is a sequence of lines, a line a         *)
(* sequence of lexemes; the last line of a text may lack its newline.      *)
(* Start condition and include stack are static: they live on from one     *)
(* text to the next.                                                       *)
(*                                                                         *)
(* Lexemes: "key" begins a statement whose text is the rest of the line    *)
(* (URIs and user interfaces too), "word" is a statement without one,      *)
(* "net" a network statement or parameter, "yes{" and "no{" open a system  *)
(* section whose condition holds or does not, "include", "#", "kset=",     *)
(* "knet=", "dev" (a device of kset=), "mod(", ",", ")"; others are        *)
(* identifiers or parts of texts.                                          *)
(***************************************************************************)
EXTENDS SystemSections

CONSTANTS
  Content,       \* the text behind each URI, a function
  Unreliable,    \* the URIs among them that may not be reached
  MaxInclDepth   \* MAX_INCL_DEPTH

MainFile == 999  \* the number in the name of the copy of the configuration

\* The copies of included files are numbered from 0, and the limit (20) is below MainFile.
ASSUME ScannerAssumption == MaxInclDepth \in 1..MainFile

VARIABLES
  mode,     \* the start condition: "INITIAL", "STRMODE", "INCLUDEMODE" or "MODMODE"
  buffer,   \* what is left of the current text
  stack,    \* the including files: what is left of them, and the file included
  temp,     \* the URI whose copy is in /tmp/sysloadparser-<n>.cfg, or "none"
  gone,     \* URIs that cannot be fetched
  expects,  \* the state of the grammar
  busy,     \* "scan", "net" and "waiting": the network is to be enabled, or is being; "none"
  log,      \* history: what the current text has caused so far, in order
  accepted  \* history: for every text parsed, whether it was accepted

scanVars == <<mode, buffer, stack, temp, gone, expects, busy, log, accepted, sectionVars>>

top == Len(stack)

ScannerInit ==
  /\ SectionsInit
  /\ mode = "INITIAL" /\ buffer = <<>> /\ stack = <<>>
  /\ temp = [n \in 0..(MaxInclDepth - 1) \cup {MainFile} |-> "none"]
  /\ gone \in SUBSET Unreliable
  /\ expects = "begin" /\ busy = "none" /\ log = <<>> /\ accepted = <<>>

\* parser_init() and yyparse() for a text; flex keeps its start condition
Parse(text) ==
  /\ busy = "none"
  /\ buffer' = text /\ busy' = "scan" /\ expects' = "begin" /\ log' = <<>>
  /\ system_depth' = 0 /\ system_first_inactive' = MaxSystemDepth /\ conds' = <<>>
  /\ UNCHANGED <<mode, stack, gone, accepted>>

-----------------------------------------------------------------------------
(* The grammar *)

Statements == {"word", "net", "key", "yes{", "no{"}

\* Where a token leads; there is no error recovery
DefinitionMoves ==
  {<<s, t, IF t = "key" THEN "text" ELSE "list">> : s \in {"begin", "list"}, t \in Statements}

Moves ==
  DefinitionMoves \cup
       {<<"begin", "kset=", "params">>, <<"begin", "knet=", "knet">>, <<"knet", "net", "done">>,
        <<"params", "dev", "more">>, <<"params", "net", "more">>, <<"params", "mod(", "mod">>,
        <<"mod", "IDENT", "named">>, <<"named", ")", "more">>, <<"more", ",", "params">>,
        <<"text", "STRING", "list">>, <<"list", "}", "list">>}

Allowed(token) ==
  /\ \E m \in Moves : m[1] = expects /\ m[2] = token
  /\ token = "}" => conds # <<>>

\* The end of the text completes a list of definitions or a kernel argument
Complete == (expects = "list" /\ conds = <<>>) \/ expects \in {"more", "done"}

Goto(token) == expects' = (CHOOSE m \in Moves : m[1] = expects /\ m[2] = token)[3]

\* The actions of the grammar: a statement has its effect in active text, and a network
\* statement keeps the parser until the network is set up.
Token(token, text) ==
  /\ IF Allowed(token)
     THEN /\ Goto(token)
          /\ log' = IF Active /\ token \in {"word", "net", "STRING", "dev", "IDENT"}
                    THEN Append(log, <<token, text>>) ELSE log
          /\ busy' = IF token = "net" /\ Active THEN "net" ELSE busy
          /\ UNCHANGED accepted
     ELSE accepted' = Append(accepted, FALSE) /\ busy' = "none" /\ UNCHANGED <<expects, log>>
  /\ UNCHANGED sectionVars

NoToken == UNCHANGED <<expects, log, busy, accepted, sectionVars>>

-----------------------------------------------------------------------------
(* The rules of the scanner *)

AtEof == buffer # <<>> => Head(buffer).items = <<>> /\ ~Head(buffer).nl
Items == Head(buffer).items

\* The buffer when n lexemes of the line have been matched
Matched(n) == <<[Head(buffer) EXCEPT !.items = SubSeq(@, n + 1, Len(@))]>> \o Tail(buffer)

\* <STRMODE>.*$
RestOfLine ==
  /\ busy = "scan" /\ mode = "STRMODE" /\ ~AtEof /\ Head(buffer).nl
  /\ mode' = "INITIAL" /\ buffer' = Matched(Len(Items))
  /\ Token("STRING", Items)
  /\ UNCHANGED <<stack, temp, gone>>

\* .*$ needs the newline: the rest of the text is echoed
EchoRest ==
  /\ busy = "scan" /\ ~AtEof /\ ~Head(buffer).nl
  /\ mode \in {"STRMODE", "INCLUDEMODE"}
  /\ buffer' = <<>> /\ NoToken
  /\ UNCHANGED <<mode, stack, temp, gone>>

\* Mutant: an include in inactive text is fetched.
IgnoredOnlyTooDeep == top >= MaxInclDepth

\* Mutant: the nesting of includes is not limited.
IgnoredAnyDepth == ~Active

Ignored == top >= MaxInclDepth \/ ~Active

Uri == IF Items = <<>> THEN "" ELSE Items[1]
Fetched(uri) == uri \in DOMAIN Content \ gone

\* Mutant: the copies are numbered from the outside.
LocalNameOuter == IF top = 0 THEN 0 ELSE top - 1

LocalName == top

\* <INCLUDEMODE>.*$ with open_incl_uri()
Include ==
  /\ busy = "scan" /\ mode = "INCLUDEMODE" /\ ~AtEof /\ Head(buffer).nl
  /\ mode' = "INITIAL"
  /\ IF Ignored
     THEN buffer' = Matched(Len(Items)) /\ UNCHANGED <<stack, temp, log>>
     ELSE /\ log' = IF Uri = "" THEN log ELSE Append(log, <<"fetch", <<Uri>>>>)
          /\ IF Fetched(Uri)
             THEN /\ temp' = [temp EXCEPT ![LocalName] = Uri]
                  /\ stack' = Append(stack, [rest |-> Matched(Len(Items)), uri |-> Uri,
                                             file |-> LocalName])
                  /\ buffer' = Content[Uri]
             ELSE buffer' = Matched(Len(Items)) /\ UNCHANGED <<stack, temp>>
  /\ UNCHANGED <<gone, expects, busy, accepted, sectionVars>>

Mode(lexeme) ==
  IF lexeme = "key" THEN "STRMODE" ELSE IF lexeme = "include" THEN "INCLUDEMODE"
  ELSE IF lexeme = "mod(" THEN "MODMODE" ELSE "INITIAL"

Keywords == Statements \cup {"kset=", "knet=", "dev", "mod(", ",", ")", "}"}

\* parser_enter_system()
OpenSection(cond) ==
  /\ busy = "scan" /\ mode = "INITIAL" /\ ~AtEof /\ Items # <<>>
  /\ Items[1] = (IF cond THEN "yes{" ELSE "no{") /\ Allowed(Items[1])
  /\ buffer' = Matched(1) /\ Goto(Items[1])
  /\ ParserEnterSystem(cond) /\ conds' = Append(conds, cond)
  /\ UNCHANGED <<mode, stack, temp, gone, busy, log, accepted>>

\* parser_exit_system()
CloseSection ==
  /\ busy = "scan" /\ mode = "INITIAL" /\ ~AtEof /\ Items # <<>>
  /\ Items[1] = "}" /\ Allowed("}")
  /\ buffer' = Matched(1) /\ Goto("}")
  /\ ExitSystem
  /\ UNCHANGED <<mode, stack, temp, gone, busy, log, accepted>>

\* The other rules for keywords and punctuation, and <INITIAL>{ID}
Lexeme ==
  /\ busy = "scan" /\ mode = "INITIAL" /\ ~AtEof /\ Items # <<>>
  /\ Items[1] \in {"yes{", "no{", "}"} => ~Allowed(Items[1])
  /\ Items[1] = "#" => ~Head(buffer).nl
  /\ buffer' = Matched(1)
  /\ mode' = Mode(Items[1])
  /\ IF Items[1] = "include" THEN NoToken
     ELSE Token(IF Items[1] \in Keywords THEN Items[1]
                ELSE IF Items[1] = "#" THEN "UNRECOGNIZED" ELSE "IDENT", <<Items[1]>>)
  /\ UNCHANGED <<stack, temp, gone>>

\* #.*$
Comment ==
  /\ busy = "scan" /\ mode = "INITIAL" /\ ~AtEof /\ Items # <<>>
  /\ Items[1] = "#" /\ Head(buffer).nl
  /\ buffer' = Matched(Len(Items)) /\ NoToken
  /\ UNCHANGED <<mode, stack, temp, gone>>

\* Mutant: the closing parenthesis does not end the mode.
ModeAfterNever(lexeme) == "MODMODE"

ModeAfter(lexeme) == IF lexeme = ")" THEN "INITIAL" ELSE "MODMODE"

\* In MODMODE every keyword is an identifier, up to the closing parenthesis.
ModLexeme ==
  /\ busy = "scan" /\ mode = "MODMODE" /\ ~AtEof /\ Items # <<>>
  /\ buffer' = Matched(1)
  /\ mode' = ModeAfter(Items[1])
  /\ IF Items[1] = "#" THEN NoToken
     ELSE Token(IF Items[1] \in {",", ")", "}"} THEN Items[1] ELSE "IDENT", <<Items[1]>>)
  /\ UNCHANGED <<stack, temp, gone>>

\* Mutant: the end of the line is matched but not consumed.
NextLineStays == buffer

NextLine == Tail(buffer)

\* \n is a rule of INITIAL only; in MODMODE it is echoed.
Newline ==
  /\ busy = "scan" /\ mode \in {"INITIAL", "MODMODE"} /\ ~AtEof /\ Items = <<>>
  /\ buffer' = NextLine /\ NoToken
  /\ UNCHANGED <<mode, stack, temp, gone>>

\* <<EOF>> of an included file
EofInclude ==
  /\ busy = "scan" /\ AtEof /\ top > 0
  /\ buffer' = stack[top].rest
  /\ stack' = SubSeq(stack, 1, top - 1)
  /\ NoToken
  /\ UNCHANGED <<mode, temp, gone>>

\* <<EOF>> of the text
Eof ==
  /\ busy = "scan" /\ AtEof /\ top = 0
  /\ accepted' = Append(accepted, Complete) /\ busy' = "none"
  /\ UNCHANGED <<mode, buffer, stack, temp, gone, expects, log, sectionVars>>

ScanNext ==
  \/ \E cond \in BOOLEAN : OpenSection(cond)
  \/ CloseSection \/ Lexeme \/ RestOfLine \/ EchoRest \/ Include \/ Comment \/ ModLexeme \/ Newline
  \/ EofInclude \/ Eof
=============================================================================
