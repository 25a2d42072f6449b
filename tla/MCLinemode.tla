----------------------------- MODULE MCLinemode -----------------------------
(* Linemode with menus of one and two entries and lines of up to three characters. *)
EXTENDS Linemode

Entry(texts, action, lock, pause) ==
  [f \in Fields |-> IF f = "lock" THEN lock ELSE IF f = "pause" THEN pause
                    ELSE IF f = "action" THEN action
                    ELSE IF f = "label" THEN "label" ELSE IF f \in texts THEN "old" ELSE ""]

\* Every set of texts with the action its last option gave it
AnyEntry == {Entry(texts, a, FALSE, FALSE) : texts \in SUBSET Texts, a \in {"kernel", "insfile", "bootmap"}}
Single == {<<e>> : e \in {x \in AnyEntry : x[x.action] = "old"}}

Few == {Entry({"kernel", "parmfile"}, "kernel", TRUE, FALSE), Entry({"kernel"}, "kernel", FALSE, TRUE),
        Entry({"insfile"}, "insfile", FALSE, FALSE), Entry({"bootmap"}, "bootmap", FALSE, FALSE),
        Entry({}, "halt", TRUE, FALSE)}
Pairs == {<<a, b>> : a, b \in Few}

Chars == {" ", "1", "2", "d", "m"}
AllLines == UNION {[1..n -> Chars] : n \in 0..2} \cup
  {<<"i">>, <<"-", "1">>, <<"d", "-", "1">>, <<"+", "1">>, <<"0">>, <<"x">>, <<"3">>, <<" ", "m", "1">>, <<"2", " ", "d">>}

\* Answers for up to three of the texts of a kernel, or for one of the others
MCAnswers == {a \in [Texts -> {"", " ", "new"}] :
                \/ \A f \in Texts \ {"kernel", "initrd", "parmfile"} : a[f] = ""
                \/ \E g \in {"insfile", "bootmap"} : \A f \in Texts \ {g} : a[f] = ""}

MCMenus == Single \cup Pairs
=============================================================================
