----------------------------- MODULE MCStartup ------------------------------
EXTENDS Startup

Line(items) == [items |-> items, nl |-> TRUE]
Cut(items) == [items |-> items, nl |-> FALSE]

\* a includes itself; b has an inactive section with an include and a section around
\* one; c ends without a newline in a text, d in an include
MCContent ==
  [u \in {"a", "b", "c", "d", "m1", "m2", "m3", "m4"} |->
     IF u = "a" THEN <<Line(<<"key", "a1">>), Line(<<"include", "a">>), Line(<<"word">>)>>
     ELSE IF u = "b" THEN <<Line(<<"no{">>), Line(<<"include", "a">>), Line(<<"yes{">>),
                            Line(<<"net">>), Line(<<"}">>), Line(<<"}">>),
                            Line(<<"yes{">>), Line(<<"include", "c">>), Line(<<"}">>)>>
     ELSE IF u = "c" THEN <<Line(<<"#", "word">>), Cut(<<"key", "c1">>)>>
     ELSE IF u = "d" THEN <<Line(<<"word">>), Cut(<<"include", "a">>)>>
     ELSE IF u = "m1" THEN <<Line(<<"net">>), Line(<<"include", "a">>), Line(<<"include", "b">>),
                             Line(<<"key", "end">>)>>
     ELSE IF u = "m2" THEN <<Line(<<"word">>), Line(<<"include", "b">>), Line(<<"include", "d">>),
                             Cut(<<"include", "c">>)>>
     ELSE IF u = "m3" THEN <<Line(<<"word">>), Cut(<<"key", "end">>)>>
     ELSE <<Line(<<"word">>), Cut(<<"#", "end">>)>>]

\* Kernel arguments end without a newline
MCMod == <<Cut(<<"kset=", "mod(", "qeth", ")", ",", "dev">>)>>
MCKset == <<Cut(<<"kset=", "dev", ",", "net">>)>>
MCKnet == <<Cut(<<"knet=", "net">>)>>
MCCutArgs == {<<Cut(<<"kset=", "mod(", "qeth">>)>>, <<Cut(<<"kset=", "dev", ",">>)>>}
MCCmdlines ==
  {<<>>, <<<<MCKnet, MCMod>>>>, <<<<MCMod, MCKset>>>>, <<<<MCKset>>, <<MCKnet>>>>}
  \cup {<<<<MCMod, a>>, <<MCMod>>>> : a \in MCCutArgs}

MCEntry == <<Line(<<"key", "title">>), Line(<<"word">>), Line(<<"key", "kernel">>)>>
MCCutEntries == {<<Line(<<"key", "title">>), Cut(<<"key", "kern">>)>>, <<Cut(<<"key">>)>>,
                 <<Line(<<"key", "title">>), Line(<<"word">>), Cut(<<"jun">>)>>}
MCEntries == {MCEntry} \cup MCCutEntries
MCWhole == {MCMod, MCKset, MCKnet, MCEntry, MCContent["m1"]}

MCNetConfs ==
  {[mode |-> "dhcp", address |-> Missing, nameserver |-> Missing],
   [mode |-> "static", address |-> Given, nameserver |-> Given]}

ASSUME AsDocumentedHere == AsDocumented
=============================================================================
