--------------------------- MODULE LinemodeProofs ---------------------------
(***************************************************************************)
(* For menus of any length, any lines and any order of lines, signals and  *)
(* closed terminals: a lock needs its password, the terminal is given back *)
(* with its echo, an entry that is printed is read by the System Loader as *)
(* it was meant, and it is the entry that the line last typed asks for.    *)
(* What a recursive definition does with a sequence is shown by induction  *)
(* over its positions (DataInduction).                                     *)
(***************************************************************************)
EXTENDS Linemode, DataInduction, TLAPS

\* The places where the dialogue works on a selected entry that it may show or boot
PastPassword == {"command", "display", "confirm", "chosen", "print"}
Prompts == {"password", "display", "confirm"}

\* The client knows the locks of the entries in the System Loader.
LocksKnown ==
  /\ menu \in Menus
  /\ Len(bentry_list) = Len(menu)
  /\ \A i \in 1..Len(menu) : bentry_list[i].lock = menu[i].lock

\* Nothing is printed before the end, and behind the password a lock has been opened.
LockByPlace ==
  /\ pc \in PastPassword \/ printed # NoEntry => (menu[selected + 1].lock => authorised)
  /\ printed # NoEntry => pc = "ended"

LockInv == LocksKnown /\ LockByPlace

\* The terminal by the place in the dialogue
EchoByPlace ==
  /\ echo \in {"on", "changed", "off"}
  /\ pc \notin Prompts \cup {"ended"} => echo = "on"
  /\ pc = "ended" => echo = "on" \/ (echo = "changed" /\ printed = NoEntry)
  /\ pc # "ended" => printed = NoEntry

-----------------------------------------------------------------------------
\* The lock of an entry travels through the environment.
LEMMA LockInEnvironment ==
  ASSUME NEW m \in Menus
  PROVE  /\ Len(CfgGetEnv(CfgSetEnv(m), Len(m))) = Len(m)
         /\ \A i \in 1..Len(m) : CfgGetEnv(CfgSetEnv(m), Len(m))[i].lock = m[i].lock
<1> DEFINE env == CfgSetEnv(m)
           list == CfgGetEnv(env, Len(m))
<1>1. Len(m) \in Nat
  BY MenuAssumption
<1>2. "lock" \in Fields
  BY DEF Fields
<1>3. \A i \in 1..Len(m) : <<"lock", i>> \in DOMAIN env /\ env[<<"lock", i>>] = m[i]["lock"]
  BY <1>2 DEF CfgSetEnv
<1> HIDE DEF env
<1>4. \A i \in 1..Len(m) : list[i]["lock"] = m[i]["lock"]
  BY <1>2, <1>3 DEF CfgGetEnv
<1>5. Len(list) = Len(m)
  BY <1>1 DEF CfgGetEnv
<1> QED
  BY <1>4, <1>5 DEF env

\* Every step of the dialogue keeps locked what is locked.
LEMMA LockStep == LockInv /\ [LinemodeNext]_lineVars => LockInv'
<1> SUFFICES ASSUME LockInv, [LinemodeNext]_lineVars PROVE LockInv'
  OBVIOUS
<1> USE DEF LockInv, LocksKnown, LockByPlace, PastPassword
<1>1. ASSUME NEW line \in Lines, ReadSelection(line) PROVE LockInv'
  BY <1>1 DEF ReadSelection
<1>2. CASE ReadNothing \/ HangUp \/ SetTerminal
  BY <1>2 DEF ReadNothing, HangUp, SetTerminal
<1>3. CASE Selection
  <2>1. /\ UNCHANGED <<menu, bentry_list, authorised, printed>> /\ pc = "selection"
        /\ pc' \in {"menu", "password", "command"}
    BY <1>3 DEF Selection, InvalidInput
  <2>2. pc' = "command" => selected' \in 0..(Len(bentry_list) - 1) /\ ~bentry_list[selected' + 1].lock
    BY <1>3 DEF Selection, InvalidInput, InMenu
  <2>3. pc' = "command" => ~menu[selected' + 1].lock
    <3>1. Len(menu) \in Nat
      BY MenuAssumption
    <3> QED
      BY <2>2, <3>1
  <2> QED
    BY <2>1, <2>3
<1>4. ASSUME NEW right \in BOOLEAN, Password(right) PROVE LockInv'
  BY <1>4 DEF Password
<1>5. CASE Display \/ KeyPressed \/ ModifyCrashes \/ Rejected
  BY <1>5 DEF Display, KeyPressed, ModifyCrashes, Rejected
<1>6. ASSUME NEW action, Interactive(action) PROVE LockInv'
  BY <1>6 DEF Interactive
<1>7. CASE Modify
  BY <1>7 DEF Modify
<1>8. ASSUME NEW boot \in BOOLEAN, Confirm(boot) PROVE LockInv'
  BY <1>8 DEF Confirm
<1>9. CASE Accept \/ Pause \/ PrintEntry \/ SigHandler
  BY <1>9 DEF Accept, Pause, PrintEntry, SigHandler
<1>10. ASSUME UNCHANGED lineVars PROVE LockInv'
  BY <1>10 DEF lineVars
<1> QED
  BY <1>1, <1>2, <1>3, <1>4, <1>5, <1>6, <1>7, <1>8, <1>9, <1>10 DEF LinemodeNext

\* A locked entry is displayed, modified or booted only after its password was given for
\* the line that selected it, whatever was typed before and however the menu looks.
THEOREM LocksHold == LinemodeSpec => []LockNeedsPassword
<1>1. LinemodeInit => LockInv
  BY LockInEnvironment DEF LinemodeInit, LockInv, LocksKnown, LockByPlace, PastPassword
<1>2. LockInv => LockNeedsPassword
  BY DEF LockInv, LockByPlace, PastPassword, LockNeedsPassword
<1> QED
  BY <1>1, <1>2, LockStep, PTL DEF LinemodeSpec

-----------------------------------------------------------------------------
\* Every step of the dialogue keeps track of the echo.
LEMMA EchoStep == EchoByPlace /\ [LinemodeNext]_lineVars => EchoByPlace'
<1> SUFFICES ASSUME EchoByPlace, [LinemodeNext]_lineVars PROVE EchoByPlace'
  OBVIOUS
<1> USE DEF EchoByPlace, Prompts
<1>1. ASSUME NEW line \in Lines, ReadSelection(line) PROVE EchoByPlace'
  BY <1>1 DEF ReadSelection
<1>2. CASE ReadNothing \/ HangUp
  BY <1>2 DEF ReadNothing, HangUp
<1>3. CASE Selection
  <2>1. UNCHANGED <<echo, printed>> /\ pc = "selection" /\ pc' \in {"menu", "password", "command"}
    BY <1>3 DEF Selection, InvalidInput
  <2> QED
    BY <2>1
<1>4. CASE SetTerminal
  BY <1>4 DEF SetTerminal
<1>5. ASSUME NEW right \in BOOLEAN, Password(right) PROVE EchoByPlace'
  BY <1>5 DEF Password
<1>6. CASE Display \/ KeyPressed \/ ModifyCrashes \/ Rejected
  BY <1>6 DEF Display, KeyPressed, ModifyCrashes, Rejected
<1>7. ASSUME NEW action, Interactive(action) PROVE EchoByPlace'
  BY <1>7 DEF Interactive
<1>8. CASE Modify
  BY <1>8 DEF Modify
<1>9. ASSUME NEW boot \in BOOLEAN, Confirm(boot) PROVE EchoByPlace'
  BY <1>9 DEF Confirm
<1>10. CASE Accept \/ Pause \/ PrintEntry
  BY <1>10 DEF Accept, Pause, PrintEntry
<1>11. CASE SigHandler
  BY <1>11 DEF SigHandler, ResetTerminal
<1>12. ASSUME UNCHANGED lineVars PROVE EchoByPlace'
  BY <1>12 DEF lineVars
<1> QED
  BY <1>1, <1>2, <1>3, <1>4, <1>5, <1>6, <1>7, <1>8, <1>9, <1>10, <1>11, <1>12 DEF LinemodeNext

\* A client that has ended, by itself or by a signal at any moment, has restored the echo,
\* but for a signal between the change of the attributes and the note of it.
THEOREM EchoComesBack == LinemodeSpec => []TerminalRestored
<1>1. LinemodeInit => EchoByPlace
  BY DEF LinemodeInit, EchoByPlace, Prompts
<1>2. EchoByPlace => TerminalRestored
  BY DEF EchoByPlace, Prompts, TerminalRestored
<1> QED
  BY <1>1, <1>2, EchoStep, PTL DEF LinemodeSpec

-----------------------------------------------------------------------------
(* The elements of a sequence that are in a set *)

\* k holds what has been kept of s after each of its elements.
KeptBy(k, s, T) ==
  /\ k[0] = <<>>
  /\ \A n \in 0..(Len(s) - 1) : k[n + 1] = IF s[n + 1] \in T THEN Append(k[n], s[n + 1]) ELSE k[n]

\* Only(s, T) is what has been kept after the last element.
LEMMA OnlyStepwise ==
  ASSUME NEW X, NEW s \in Seq(X), NEW T
  PROVE  \E k \in [0..Len(s) -> Seq(X)] : Only(s, T) = k[Len(s)] /\ KeptBy(k, s, T)
<1> DEFINE L == Len(s)
           D == [p \in ((0 + 1)..L) \X Seq(X) |->
                   IF s[p[1]] \in T THEN Append(p[2], s[p[1]]) ELSE p[2]]
           Def(g) == g = [n \in 0..L |-> IF n = 0 THEN <<>>
                            ELSE IF s[n] \in T THEN Append(g[n - 1], s[n]) ELSE g[n - 1]]
           kept == CHOOSE g : Def(g)
<1>1. L \in Nat /\ <<>> \in Seq(X) /\ 0 \in Nat /\ 0 <= L
  OBVIOUS
<1>2. D \in [((0 + 1)..L) \X Seq(X) -> Seq(X)]
  OBVIOUS
<1>3. PICK f \in [0..L -> Seq(X)] : Follows(f, 0, L, <<>>, D)
  <2> HIDE DEF L, D
  <2> QED
    BY <1>1, <1>2, IntervalRecursion
<1>5. Def(f)
  <2>1. ASSUME NEW n \in 0..L, n # 0
        PROVE  D[<<n, f[n - 1]>>] = IF s[n] \in T THEN Append(f[n - 1], s[n]) ELSE f[n - 1]
    <3>1. n \in (0 + 1)..L /\ f[n - 1] \in Seq(X)
      BY <2>1
    <3>2. <<n, f[n - 1]>> \in ((0 + 1)..L) \X Seq(X)
      BY <3>1
    <3> QED
      BY <3>2
  <2> HIDE DEF D, L
  <2>2. f[0] = <<>> /\ \A n \in (0 + 1)..L : f[n] = D[<<n, f[n - 1]>>]
    BY <1>3 DEF Follows
  <2>3. DOMAIN f = 0..L /\ f = [n \in DOMAIN f |-> f[n]]
    OBVIOUS
  <2>5. ASSUME NEW n \in 0..L, n # 0 PROVE f[n] = D[<<n, f[n - 1]>>]
    BY <2>2, <2>5
  <2>4. \A n \in 0..L : f[n] = IF n = 0 THEN <<>>
                            ELSE IF s[n] \in T THEN Append(f[n - 1], s[n]) ELSE f[n - 1]
    BY <2>1, <2>2, <2>5, Zenon
  <2> QED
    BY <2>3, <2>4
<1>6. Def(kept)
  <2> HIDE DEF Def
  <2> QED
    BY <1>5
<1>7. Only(s, T) = kept[L]
  BY DEF Only
<1> HIDE DEF kept, D
<1>8. /\ kept[0] = <<>>
      /\ \A n \in 1..L : kept[n] = IF s[n] \in T THEN Append(kept[n - 1], s[n]) ELSE kept[n - 1]
  <2> HIDE DEF L
  <2>1. \A n \in 0..L : kept[n] = IF n = 0 THEN <<>>
                            ELSE IF s[n] \in T THEN Append(kept[n - 1], s[n]) ELSE kept[n - 1]
    BY <1>6, Zenon
  <2>2. 0 \in 0..L /\ \A n \in 1..L : n \in 0..L /\ n # 0
    BY <1>1
  <2> QED
    BY <2>1, <2>2, Zenon
<1>9. \A n \in 0..L : kept[n] \in Seq(X)
  <2> DEFINE S == {n \in 0..L : kept[n] \in Seq(X)}
  <2>1. 0 \in S
    <3>1. kept[0] \in Seq(X)
      BY <1>1, <1>8, Zenon
    <3> QED
      BY <1>1, <3>1
  <2>2. ASSUME NEW n \in 0..(L - 1), n \in S PROVE n + 1 \in S
    <3>1. n + 1 \in 1..L /\ kept[(n + 1) - 1] \in Seq(X) /\ s[n + 1] \in X
      BY <2>2
    <3>2. Append(kept[n], s[n + 1]) \in Seq(X) /\ (n + 1) - 1 = n
      BY <3>1, <2>2
    <3>3. kept[n + 1] = IF s[n + 1] \in T THEN Append(kept[n], s[n + 1]) ELSE kept[n]
      BY <1>8, <3>1, <3>2, Zenon
    <3>4. kept[n + 1] \in Seq(X)
      BY <2>2, <3>2, <3>3, Zenon
    <3> QED
      BY <3>1, <3>4
  <2> HIDE DEF S
  <2>3. \A n \in 0..(L - 1) : n \in S => n + 1 \in S
    BY <2>2
  <2>4. \A n \in 0..L : n \in S
    <3> HIDE DEF L
    <3> QED
      BY <1>1, <2>1, <2>3, IntervalInduction, Zenon
  <2> QED
    BY <2>4 DEF S
<1>10. kept \in [0..L -> Seq(X)]
  BY <1>6, <1>9
<1>11. ASSUME NEW n \in 0..(L - 1)
       PROVE  kept[n + 1] = IF s[n + 1] \in T THEN Append(kept[n], s[n + 1]) ELSE kept[n]
  <2>1. n + 1 \in 1..L /\ (n + 1) - 1 = n
    OBVIOUS
  <2> QED
    BY <1>8, <2>1, Zenon
<1>12. KeptBy(kept, s, T)
  BY <1>8, <1>11, Zenon DEF KeptBy
<1> QED
  BY <1>7, <1>10, <1>12

\* The elements of k are those of s that are in T.
Selects(k, s, T) ==
  /\ \A i \in 1..Len(s) : s[i] \in T => \E j \in 1..Len(k) : k[j] = s[i]
  /\ \A j \in 1..Len(k) : \E i \in 1..Len(s) : s[i] \in T /\ k[j] = s[i]

\* Only(s, T) has the elements of s that are in T, and no others.
LEMMA OnlyMembers ==
  ASSUME NEW X, NEW s \in Seq(X), NEW T
  PROVE  Only(s, T) \in Seq(X) /\ Selects(Only(s, T), s, T)
<1>1. PICK k \in [0..Len(s) -> Seq(X)] : Only(s, T) = k[Len(s)] /\ KeptBy(k, s, T)
  BY OnlyStepwise
<1> DEFINE Has(n) == /\ \A i \in 1..n : s[i] \in T => \E j \in 1..Len(k[n]) : k[n][j] = s[i]
                     /\ \A j \in 1..Len(k[n]) : \E i \in 1..n : s[i] \in T /\ k[n][j] = s[i]
           S == {n \in 0..Len(s) : Has(n)}
<1>2. 0 \in S
  BY <1>1 DEF KeptBy
<1>3. ASSUME NEW n \in 0..(Len(s) - 1), n \in S PROVE n + 1 \in S
  <2>1. Has(n) /\ n + 1 \in 0..Len(s) /\ n + 1 \in 1..Len(s)
    <3>1. Has(n)
      BY <1>3, Zenon
    <3> HIDE DEF Has
    <3> QED
      BY <3>1
  <2>2. k[n + 1] = IF s[n + 1] \in T THEN Append(k[n], s[n + 1]) ELSE k[n]
    BY <1>1, <1>3, Zenon DEF KeptBy
  <2>3. k[n] \in Seq(X)
    BY <2>1
  <2>4. CASE s[n + 1] \in T
    <3>1. k[n + 1] = Append(k[n], s[n + 1])
      BY <2>2, <2>4
    <3>2. /\ Len(k[n + 1]) = Len(k[n]) + 1
          /\ k[n + 1][Len(k[n]) + 1] = s[n + 1]
          /\ \A j \in 1..Len(k[n]) : k[n + 1][j] = k[n][j]
      BY <2>3, <3>1
    <3>3. ASSUME NEW i \in 1..(n + 1), s[i] \in T
          PROVE  \E j \in 1..Len(k[n + 1]) : k[n + 1][j] = s[i]
      <4>1. CASE i = n + 1
        BY <2>3, <3>2, <4>1
      <4>2. CASE i # n + 1
        <5>1. i \in 1..n
          BY <4>2
        <5>2. PICK j \in 1..Len(k[n]) : k[n][j] = s[i]
          BY <2>1, <3>3, <5>1, Zenon
        <5> QED
          BY <2>3, <3>2, <5>2
      <4> QED
        BY <4>1, <4>2
    <3>4. ASSUME NEW j \in 1..Len(k[n + 1])
          PROVE  \E i \in 1..(n + 1) : s[i] \in T /\ k[n + 1][j] = s[i]
      <4>1. CASE j = Len(k[n]) + 1
        BY <2>4, <3>2, <4>1
      <4>2. CASE j # Len(k[n]) + 1
        <5>1. j \in 1..Len(k[n])
          BY <2>3, <3>2, <4>2
        <5>2. PICK i \in 1..n : s[i] \in T /\ k[n][j] = s[i]
          BY <2>1, <5>1
        <5> QED
          BY <3>2, <5>1, <5>2
      <4> QED
        BY <4>1, <4>2
    <3> QED
      BY <2>1, <3>3, <3>4
  <2>5. CASE s[n + 1] \notin T
    <3>1. k[n + 1] = k[n]
      BY <2>2, <2>5
    <3>2. ASSUME NEW i \in 1..(n + 1), s[i] \in T
          PROVE  \E j \in 1..Len(k[n]) : k[n][j] = s[i]
      <4>1. i \in 1..n
        <5>1. i # n + 1
          BY <2>5, <3>2
        <5> QED
          BY <5>1
      <4> QED
        BY <2>1, <3>2, <4>1, Zenon
    <3>3. ASSUME NEW j \in 1..Len(k[n])
          PROVE  \E i \in 1..(n + 1) : s[i] \in T /\ k[n][j] = s[i]
      <4>1. PICK i \in 1..n : s[i] \in T /\ k[n][j] = s[i]
        BY <2>1
      <4> QED
        BY <4>1
    <3>4. Has(n + 1)
      BY <3>1, <3>2, <3>3, Zenon
    <3> QED
      BY <2>1, <3>4
  <2> QED
    BY <2>4, <2>5
<1> HIDE DEF S
<1>4. Len(s) \in Nat /\ 0 \in Nat
  OBVIOUS
<1>5. \A n \in 0..Len(s) : n \in S
  <2>1. \A n \in 0..(Len(s) - 1) : n \in S => n + 1 \in S
    BY <1>3
  <2> QED
    BY <1>2, <1>4, <2>1, IntervalInduction, Zenon
<1>6. Has(Len(s))
  BY <1>4, <1>5 DEF S
<1>7. Selects(k[Len(s)], s, T)
  BY <1>6, Zenon DEF Selects
<1> QED
  BY <1>1, <1>4, <1>7

\* Where they are next to each other, it is that part of s.
LEMMA OnlyOneGroup ==
  ASSUME NEW X, NEW s \in Seq(X), NEW T, NEW a \in 1..(Len(s) + 1), NEW b \in (a - 1)..Len(s),
         \A i \in 1..Len(s) : s[i] \in T <=> i \in a..b
  PROVE  Only(s, T) = SubSeq(s, a, b)
<1>1. PICK k \in [0..Len(s) -> Seq(X)] : Only(s, T) = k[Len(s)] /\ KeptBy(k, s, T)
  BY OnlyStepwise
<1> DEFINE upto(n) == IF n < b THEN n ELSE b
           S == {n \in 0..Len(s) : k[n] = SubSeq(s, a, upto(n))}
<1>2. 0 \in S
  <2>1. SubSeq(s, a, upto(0)) = <<>>
    OBVIOUS
  <2> QED
    BY <1>1, <2>1 DEF KeptBy
<1>3. ASSUME NEW n \in 0..(Len(s) - 1), n \in S PROVE n + 1 \in S
  <2>1. k[n] = SubSeq(s, a, upto(n)) /\ n + 1 \in 0..Len(s) /\ n + 1 \in 1..Len(s)
    BY <1>3
  <2>2. k[n + 1] = IF s[n + 1] \in T THEN Append(k[n], s[n + 1]) ELSE k[n]
    BY <1>1, <1>3, Zenon DEF KeptBy
  <2>4. CASE n + 1 \in a..b
    <3>1. k[n + 1] = Append(SubSeq(s, a, n), s[n + 1])
      <4>1. upto(n) = n /\ s[n + 1] \in T
        BY <2>1, <2>4
      <4> QED
        BY <2>1, <2>2, <4>1, Zenon
    <3>2. Append(SubSeq(s, a, n), s[n + 1]) = SubSeq(s, a, n + 1)
      BY <2>4
    <3> QED
      BY <2>1, <2>4, <3>1, <3>2
  <2>5. CASE n + 1 \notin a..b
    <3>1. k[n + 1] = k[n]
      BY <2>1, <2>2, <2>5
    <3>2. SubSeq(s, a, upto(n)) = SubSeq(s, a, upto(n + 1))
      BY <2>5
    <3> QED
      BY <2>1, <3>1, <3>2
  <2> QED
    BY <2>4, <2>5
<1> HIDE DEF S
<1>4. Len(s) \in Nat /\ 0 \in Nat
  OBVIOUS
<1>5. \A n \in 0..Len(s) : n \in S
  <2>1. \A n \in 0..(Len(s) - 1) : n \in S => n + 1 \in S
    BY <1>3
  <2> QED
    BY <1>2, <1>4, <2>1, IntervalInduction, Zenon
<1>6. k[Len(s)] = SubSeq(s, a, upto(Len(s)))
  BY <1>4, <1>5 DEF S
<1> QED
  BY <1>1, <1>4, <1>6

-----------------------------------------------------------------------------
(* A boot entry printed and read back *)

\* r holds what has been read after each of the options p.
ReadBy(r, p, label) ==
  /\ r[0] = [EmptyEntry EXCEPT !.label = label]
  /\ \A n \in 0..(Len(p) - 1) : r[n + 1] = ParseOption(r[n], p[n + 1])

EntriesOf(label, X) == [label : {label}, opts : SUBSET X, action : ActionOptions]

\* An option leaves an entry an entry.
LEMMA ParseOptionType ==
  ASSUME NEW label, NEW X, NEW e \in EntriesOf(label, X), NEW o \in X
  PROVE  /\ ParseOption(e, o) \in EntriesOf(label, X)
         /\ ParseOption(e, o).opts = IF o \in Terminal THEN e.opts ELSE e.opts \cup {o}
         /\ ParseOption(e, o).action = IF o \in ActionOptions THEN o ELSE e.action
  BY DEF ParseOption, EntriesOf

\* A printed entry is read option by option.
LEMMA ReparsedStepwise ==
  ASSUME NEW entry, NEW X, NEW p \in Seq(X), p = Printed(entry)
  PROVE  \E r \in [0..Len(p) -> EntriesOf(entry.label, X)] :
           Reparsed(entry) = r[Len(p)] /\ ReadBy(r, p, entry.label)
<1> DEFINE L == Len(p)
           V == EntriesOf(entry.label, X)
           c == [EmptyEntry EXCEPT !.label = entry.label]
           D == [q \in ((0 + 1)..L) \X V |-> ParseOption(q[2], p[q[1]])]
           Def(g) == g = [n \in 0..L |-> IF n = 0 THEN c ELSE ParseOption(g[n - 1], p[n])]
           read == CHOOSE g : Def(g)
<1>1. L \in Nat /\ 0 \in Nat /\ 0 <= L /\ c \in V
  <2>1. c \in V
    BY DEF EntriesOf, EmptyEntry, ActionOptions
  <2> QED
    BY <2>1
<1>2. ASSUME NEW v \in V, NEW n \in 1..L PROVE ParseOption(v, p[n]) \in V
  <2>1. p[n] \in X
    OBVIOUS
  <2> QED
    BY <2>1, ParseOptionType
<1>3. D \in [((0 + 1)..L) \X V -> V]
  <2> HIDE DEF V
  <2> QED
    BY <1>2
<1> HIDE DEF c, V
<1>4. PICK f \in [0..L -> V] : Follows(f, 0, L, c, D)
  <2> HIDE DEF L, D
  <2> QED
    BY <1>1, <1>3, IntervalRecursion
<1>5. Def(f)
  <2>1. ASSUME NEW n \in 0..L, n # 0
        PROVE  f[n] = ParseOption(f[n - 1], p[n])
    <3>1. n \in (0 + 1)..L /\ f[n - 1] \in V
      BY <2>1
    <3>2. f[n] = D[<<n, f[n - 1]>>]
      BY <1>4, <3>1 DEF Follows
    <3>3. <<n, f[n - 1]>> \in ((0 + 1)..L) \X V
      BY <3>1
    <3> QED
      BY <3>2, <3>3
  <2>2. f[0] = c
    BY <1>4 DEF Follows
  <2>3. DOMAIN f = 0..L /\ f = [n \in DOMAIN f |-> f[n]]
    OBVIOUS
  <2> HIDE DEF D, L
  <2>4. \A n \in 0..L : f[n] = IF n = 0 THEN c ELSE ParseOption(f[n - 1], p[n])
    BY <2>1, <2>2, Zenon
  <2> QED
    BY <2>3, <2>4
<1>6. Def(read)
  <2> HIDE DEF Def
  <2> QED
    BY <1>5
<1>7. Reparsed(entry) = read[L]
  BY DEF Reparsed, c
<1> HIDE DEF read, D
<1>8. \A n \in 0..L : read[n] = IF n = 0 THEN c ELSE ParseOption(read[n - 1], p[n])
  BY <1>6, Zenon
<1>9. read[0] = c
  BY <1>1, <1>8
<1>10. ASSUME NEW n \in 0..(L - 1) PROVE read[n + 1] = ParseOption(read[n], p[n + 1])
  <2>1. n + 1 \in 0..L /\ (n + 1) - 1 = n /\ n + 1 # 0
    BY <1>1
  <2> QED
    BY <1>8, <2>1, Zenon
<1>11. \A n \in 0..L : read[n] \in V
  <2> DEFINE S == {n \in 0..L : read[n] \in V}
  <2>1. 0 \in S
    BY <1>1, <1>9
  <2>2. ASSUME NEW n \in 0..(L - 1), n \in S PROVE n + 1 \in S
    <3>1. read[n] \in V /\ n + 1 \in 1..L
      BY <2>2
    <3>2. ParseOption(read[n], p[n + 1]) \in V
      BY <1>2, <3>1
    <3> QED
      BY <1>10, <3>1, <3>2
  <2> HIDE DEF S
  <2>3. \A n \in 0..(L - 1) : n \in S => n + 1 \in S
    BY <2>2
  <2>4. \A n \in 0..L : n \in S
    <3> HIDE DEF L
    <3> QED
      BY <1>1, <2>1, <2>3, IntervalInduction, Zenon
  <2> QED
    BY <2>4 DEF S
<1>12. read \in [0..L -> V]
  BY <1>6, <1>11
<1>13. ReadBy(read, p, entry.label)
  BY <1>9, <1>10, Zenon DEF ReadBy, c
<1> QED
  BY <1>7, <1>12, <1>13 DEF V

\* An entry that names one boot method is read back as it was printed.
LEMMA OneMethodSurvives ==
  ASSUME NEW entry, entry.opts \subseteq Texts, OneMethod(entry)
  PROVE  Survives(entry)
<1> DEFINE p == Printed(entry)
           a == entry.action
<1>1. a \in entry.opts /\ a \in {"kernel", "insfile", "bootmap"} /\ a \notin Terminal
      /\ \A o \in entry.opts : o \in ActionOptions => o = a
  BY DEF OneMethod, Methods, ActionOptions, Terminal, Texts, KernelTexts
<1>2. PrintOrder \in Seq(Texts) /\ \A o \in Texts : \E i \in 1..Len(PrintOrder) : PrintOrder[i] = o
  BY DEF PrintOrder, Texts, KernelTexts
<1>3. p = Only(PrintOrder, entry.opts)
  BY <1>1 DEF Printed
<1>4. /\ p \in Seq(Texts)
      /\ \A o \in entry.opts : \E j \in 1..Len(p) : p[j] = o
      /\ \A j \in 1..Len(p) : p[j] \in entry.opts
  <2> HIDE DEF p
  <2>1. p \in Seq(Texts) /\ Selects(p, PrintOrder, entry.opts)
    BY <1>2, <1>3, OnlyMembers
  <2> QED
    BY <1>2, <2>1, Zenon DEF Selects
<1> HIDE DEF p
<1>5. PICK r \in [0..Len(p) -> EntriesOf(entry.label, Texts)] :
        Reparsed(entry) = r[Len(p)] /\ ReadBy(r, p, entry.label)
  BY <1>4, ReparsedStepwise DEF p
<1> DEFINE Read(n) == /\ r[n].opts = {p[i] : i \in 1..n}
                      /\ r[n].action = IF \E i \in 1..n : p[i] = a THEN a ELSE "kernel"
           S == {n \in 0..Len(p) : Read(n)}
<1>6. 0 \in S
  <2>1. r[0] = [EmptyEntry EXCEPT !.label = entry.label]
    BY <1>5, Zenon DEF ReadBy
  <2>2. r[0].opts = {} /\ r[0].action = "kernel"
    BY <2>1 DEF EmptyEntry
  <2>3. r[0].opts = {} /\ r[0].action = "kernel" /\ 1..0 = {}
    BY <2>2
  <2> QED
    BY <1>4, <2>3
<1>7. ASSUME NEW n \in 0..(Len(p) - 1), n \in S PROVE n + 1 \in S
  <2>1. n + 1 \in 1..Len(p) /\ n + 1 \in 0..Len(p) /\ n \in 0..Len(p) /\ Read(n)
        /\ 1..(n + 1) = (1..n) \cup {n + 1}
    BY <1>4, <1>7
  <2>2. p[n + 1] \in entry.opts /\ p[n + 1] \notin Terminal
    BY <1>4, <2>1 DEF Texts, KernelTexts, Terminal
  <2>3. r[n + 1] = ParseOption(r[n], p[n + 1]) /\ r[n] \in EntriesOf(entry.label, Texts)
    BY <1>5, <2>1 DEF ReadBy
  <2>4. /\ r[n + 1].opts = r[n].opts \cup {p[n + 1]}
        /\ r[n + 1].action = IF p[n + 1] \in ActionOptions THEN p[n + 1] ELSE r[n].action
    BY <2>2, <2>3, ParseOptionType
  <2>5. r[n + 1].opts = {p[i] : i \in 1..(n + 1)}
    BY <2>1, <2>4
  <2>6. p[n + 1] \in ActionOptions <=> p[n + 1] = a
    BY <1>1, <2>2 DEF ActionOptions
  <2>7. r[n + 1].action = IF \E i \in 1..(n + 1) : p[i] = a THEN a ELSE "kernel"
    BY <2>1, <2>4, <2>6
  <2> QED
    BY <2>1, <2>5, <2>7
<1> HIDE DEF S
<1>8. Len(p) \in Nat /\ 0 \in Nat
  BY <1>4
<1>9. \A n \in 0..Len(p) : n \in S
  <2>1. \A n \in 0..(Len(p) - 1) : n \in S => n + 1 \in S
    BY <1>7
  <2> QED
    BY <1>6, <1>8, <2>1, IntervalInduction, Zenon
<1>10. Read(Len(p))
  BY <1>8, <1>9 DEF S
<1>11. PICK j \in 1..Len(p) : p[j] = a
  BY <1>1, <1>4
<1>12. Reparsed(entry).action = a
  BY <1>5, <1>10, <1>11
<1>13. Reparsed(entry).opts = entry.opts
  <2>1. {p[i] : i \in 1..Len(p)} = entry.opts
    BY <1>4
  <2> QED
    BY <1>5, <1>10, <2>1
<1>14. p # <<>>
  BY <1>11
<1> QED
  BY <1>12, <1>13, <1>14 DEF Survives, Parses, p, Texts, KernelTexts

-----------------------------------------------------------------------------
(* From the line to the entry *)

Manual == {"i", "m"}

\* Where the entry that is about to be booted comes from
FromTheMenu ==
  /\ manual = "no" /\ ComputeSelection(input).cmd = "" /\ ~IsBlank(input) /\ InMenu(input)
  /\ bentry = menu[Chosen(input) + 1]
ByHand == manual # "no" /\ ComputeSelection(input).cmd \in Manual

\* The dialogue, place by place: the entries are those of the System Loader, the line
\* selects one of them, and only i and m lead to an entry that is not.
DialogueInv ==
  /\ menu \in Menus /\ boot_default \in Defaults /\ bentry_list = menu
  /\ typed \in Lines \cup {<<>>} /\ (~eof => input = typed)
  /\ pc \in {"selection", "password", "command", "display"} => manual = "no"
  /\ pc \in {"password", "command", "display"} =>
       /\ command = ComputeSelection(input).cmd /\ ~IsBlank(input) /\ InMenu(input)
       /\ bentry = menu[Chosen(input) + 1]
  /\ pc = "confirm" => ByHand
  /\ pc \in {"chosen", "print"} \/ printed # NoEntry => FromTheMenu \/ ByHand
  /\ printed # NoEntry => pc = "ended" /\ printed = bentry

\* An entry of the menu has no text made of blanks, and a modified one loses those.
NoBlankTexts ==
  /\ DOMAIN bentry = Fields
  /\ manual = "no" => \A f \in KernelTexts : bentry[f] # " "
  /\ manual = "modified" => \A f \in Texts : bentry[f] # " "

\* The clients read the entries as they are in the System Loader.
LEMMA MenuInEnvironment ==
  ASSUME NEW m \in Menus
  PROVE  CfgGetEnv(CfgSetEnv(m), Len(m)) = m
<1> DEFINE env == CfgSetEnv(m)
<1>1. /\ Len(m) \in Nat \ {0} /\ m = [i \in 1..Len(m) |-> m[i]]
      /\ \A i \in 1..Len(m) : m[i] = [f \in Fields |-> m[i][f]]
  BY MenuAssumption
<1>2. \A i \in 1..Len(m), f \in Fields : <<f, i>> \in DOMAIN env /\ env[<<f, i>>] = m[i][f]
  BY DEF CfgSetEnv
<1> HIDE DEF env
<1>3. ASSUME NEW i \in 1..Len(m)
      PROVE  [f \in Fields |-> IF <<f, i>> \in DOMAIN env THEN env[<<f, i>>] ELSE Cleared("")[f]] = m[i]
  <2>1. \A f \in Fields : (IF <<f, i>> \in DOMAIN env THEN env[<<f, i>>] ELSE Cleared("")[f]) = m[i][f]
    BY <1>2
  <2>2. m[i] = [f \in Fields |-> m[i][f]]
    BY <1>1
  <2> QED
    BY <2>1, <2>2
<1>4. CfgGetEnv(env, Len(m)) = [i \in 1..Len(m) |-> m[i]]
  BY <1>3 DEF CfgGetEnv
<1> QED
  BY <1>1, <1>4 DEF env

\* Every step of the dialogue keeps to its places.
LEMMA DialogueStep == DialogueInv /\ [LinemodeNext]_lineVars => DialogueInv'
<1> SUFFICES ASSUME DialogueInv, [LinemodeNext]_lineVars PROVE DialogueInv'
  OBVIOUS
<1> USE DEF DialogueInv, FromTheMenu, ByHand, Manual
<1>1. ASSUME NEW line \in Lines, ReadSelection(line) PROVE DialogueInv'
  BY <1>1 DEF ReadSelection
<1>2. CASE ReadNothing
  BY <1>2 DEF ReadNothing
<1>3. CASE HangUp
  BY <1>3 DEF HangUp, InMenu, Chosen
<1>4. CASE Selection
  BY <1>4 DEF Selection, InvalidInput, InMenu, Chosen
<1>5. CASE SetTerminal
  BY <1>5 DEF SetTerminal, InMenu, Chosen
<1>6. ASSUME NEW right \in BOOLEAN, Password(right) PROVE DialogueInv'
  BY <1>6 DEF Password, InMenu, Chosen
<1>7. CASE Display \/ KeyPressed
  BY <1>7 DEF Display, KeyPressed, InMenu, Chosen
<1>8. ASSUME NEW action, Interactive(action) PROVE DialogueInv'
  BY <1>8 DEF Interactive
<1>9. CASE Modify
  BY <1>9 DEF Modify
<1>10. CASE ModifyCrashes \/ Rejected
  BY <1>10 DEF ModifyCrashes, Rejected
<1>11. ASSUME NEW boot \in BOOLEAN, Confirm(boot) PROVE DialogueInv'
  BY <1>11 DEF Confirm
<1>12. CASE Accept \/ Pause
  BY <1>12 DEF Accept, Pause, InMenu, Chosen
<1>13. CASE PrintEntry \/ SigHandler
  BY <1>13 DEF PrintEntry, SigHandler, InMenu, Chosen
<1>14. ASSUME UNCHANGED lineVars PROVE DialogueInv'
  BY <1>14 DEF lineVars, InMenu, Chosen
<1> QED
  BY <1>1, <1>2, <1>3, <1>4, <1>5, <1>6, <1>7, <1>8, <1>9, <1>10, <1>11, <1>12, <1>13, <1>14
  DEF LinemodeNext

\* What is typed for a text is empty, blanks or a new text.
LEMMA AnswerTexts ==
  ASSUME NEW text \in Answers, NEW f \in KernelTexts, NEW old, old # " "
  PROVE  AssignInput(text[f], old) # " "
<1>1. text[f] \in {"", " ", "new"}
  BY MenuAssumption DEF Texts
<1> QED
  BY <1>1 DEF AssignInput

\* No step of the dialogue leaves blanks as a text, but for an entry that is typed as a whole.
LEMMA BlankStep ==
  DialogueInv /\ NoBlankTexts /\ [LinemodeNext]_lineVars => NoBlankTexts'
<1> SUFFICES ASSUME DialogueInv, NoBlankTexts, [LinemodeNext]_lineVars PROVE NoBlankTexts'
  OBVIOUS
<1>1. ASSUME NEW i \in 1..Len(menu)
      PROVE  DOMAIN bentry_list[i] = Fields /\ \A f \in KernelTexts : bentry_list[i][f] # " "
  BY <1>1, MenuAssumption DEF DialogueInv
<1>2. Len(bentry_list) \in 1..Len(menu)
  <2>1. bentry_list = menu /\ menu \in Menus
    BY DEF DialogueInv
  <2>2. Len(menu) \in Nat \ {0}
    BY <2>1, MenuAssumption
  <2> QED
    BY <2>1, <2>2
<1>3. ASSUME NEW line \in Lines, ReadSelection(line) PROVE NoBlankTexts'
  BY <1>1, <1>2, <1>3 DEF ReadSelection, NoBlankTexts
<1>4. CASE ReadNothing
  BY <1>1, <1>2, <1>4 DEF ReadNothing, NoBlankTexts
<1>5. CASE Selection
  <2>1. UNCHANGED manual /\ manual = "no"
    BY <1>5 DEF Selection, DialogueInv
  <2>2. CASE UNCHANGED bentry
    BY <2>1, <2>2 DEF NoBlankTexts
  <2>3. CASE bentry' # bentry
    <3>1. selected' + 1 \in 1..Len(menu) /\ bentry' = bentry_list[selected' + 1]
      <4>1. InMenu(input) /\ selected' = Chosen(input) /\ bentry' = bentry_list[selected' + 1]
        BY <1>5, <2>3 DEF Selection, InvalidInput
      <4> QED
        BY <1>2, <4>1 DEF InMenu, DialogueInv
    <3> QED
      BY <1>1, <2>1, <3>1 DEF NoBlankTexts
  <2> QED
    BY <2>2, <2>3
<1>6. CASE HangUp \/ SetTerminal
  BY <1>6 DEF HangUp, SetTerminal, NoBlankTexts
<1>7. ASSUME NEW right \in BOOLEAN, Password(right) PROVE NoBlankTexts'
  BY <1>7 DEF Password, NoBlankTexts
<1>8. CASE Display \/ KeyPressed \/ ModifyCrashes \/ Rejected
  BY <1>8 DEF Display, KeyPressed, ModifyCrashes, Rejected, NoBlankTexts
<1>9. ASSUME NEW action, Interactive(action) PROVE NoBlankTexts'
  BY <1>9 DEF Interactive, GetManBoot, NoBlankTexts
<1>10. CASE Modify
  <2>1. PICK text \in Answers :
          bentry' = [f \in Fields |-> IF f \in KernelTexts THEN AssignInput(text[f], bentry[f])
                                      ELSE GetManBoot("kernel", text)[f]]
    BY <1>10 DEF Modify
  <2>2. manual = "no" /\ manual' = "modified"
    BY <1>10 DEF Modify, DialogueInv
  <2>3. ASSUME NEW f \in KernelTexts PROVE bentry'[f] # " "
    <3>1. bentry'[f] = AssignInput(text[f], bentry[f])
      BY <2>1 DEF Fields, Texts
    <3> QED
      BY <2>2, <3>1, AnswerTexts DEF NoBlankTexts
  <2>4. ASSUME NEW f \in {"insfile", "bootmap"} PROVE bentry'[f] # " "
    <3>1. bentry'[f] = GetManBoot("kernel", text)[f]
      BY <2>1 DEF Fields, Texts, KernelTexts
    <3>2. GetManBoot("kernel", text)[f] = "NULL"
      BY DEF GetManBoot, Asked, KernelTexts, NoEntry, Cleared, Fields, Texts
    <3> QED
      BY <3>1, <3>2
  <2>5. DOMAIN bentry' = Fields
    BY <2>1
  <2> QED
    BY <2>2, <2>3, <2>4, <2>5 DEF NoBlankTexts, Texts
<1>11. ASSUME NEW boot \in BOOLEAN, Confirm(boot) PROVE NoBlankTexts'
  <2>1. /\ DOMAIN bentry = Fields
        /\ bentry' = IF boot THEN [bentry EXCEPT !.label = "manual_label"] ELSE bentry
    BY <1>11 DEF Confirm, NoBlankTexts
  <2>2. DOMAIN bentry' = Fields /\ \A f \in Texts : bentry'[f] = bentry[f]
    BY <2>1 DEF Texts, KernelTexts, Fields
  <2>3. UNCHANGED manual
    BY <1>11 DEF Confirm
  <2> QED
    BY <2>2, <2>3 DEF NoBlankTexts, Texts
<1>12. CASE Accept \/ Pause \/ PrintEntry \/ SigHandler
  BY <1>12 DEF Accept, Pause, PrintEntry, SigHandler, NoBlankTexts
<1>13. ASSUME UNCHANGED lineVars PROVE NoBlankTexts'
  BY <1>13 DEF lineVars, NoBlankTexts
<1> QED
  BY <1>3, <1>4, <1>5, <1>6, <1>7, <1>8, <1>9, <1>10, <1>11, <1>12, <1>13 DEF LinemodeNext

\* The dialogue begins at the menu with the entries of the System Loader.
LEMMA DialogueInit == LinemodeInit => DialogueInv /\ NoBlankTexts
<1> SUFFICES ASSUME LinemodeInit PROVE DialogueInv /\ NoBlankTexts
  OBVIOUS
<1>1. bentry_list = menu
  BY MenuInEnvironment DEF LinemodeInit
<1>2. DOMAIN NoEntry = Fields /\ \A f \in KernelTexts : NoEntry[f] = "NULL"
  BY DEF NoEntry, Cleared, Fields, Texts, KernelTexts
<1> QED
  BY <1>1, <1>2 DEF LinemodeInit, DialogueInv, NoBlankTexts

\* Every entry with exactly one boot method that the dialogue prints reaches the loader
\* with that method and all its texts, whatever the configuration and the lines typed, and
\* one that was modified by hand has no text made of blanks.
THEOREM PrintedSurvives == LinemodeSpec => []PrintedEntrySurvives
<1>1. DialogueInv /\ NoBlankTexts => PrintedEntrySurvives
  <2> SUFFICES ASSUME DialogueInv, NoBlankTexts, printed # NoEntry
               PROVE  /\ OneMethod(AsEntry(printed)) => Survives(AsEntry(printed))
                      /\ manual = "modified" => \A f \in Texts : printed[f] # " "
    BY DEF PrintedEntrySurvives
  <2>1. printed = bentry
    BY DEF DialogueInv
  <2>2. AsEntry(printed).opts \subseteq Texts
    BY DEF AsEntry
  <2>3. OneMethod(AsEntry(printed)) => Survives(AsEntry(printed))
    BY <2>2, OneMethodSurvives
  <2> QED
    BY <2>1, <2>3 DEF NoBlankTexts
<1> QED
  BY <1>1, DialogueInit, DialogueStep, BlankStep, PTL DEF LinemodeSpec

-----------------------------------------------------------------------------
(* What a line says *)

\* strspn() is the length of the longest prefix.
LEMMA StrspnIsPrefix ==
  ASSUME NEW s \in Seq(STRING), NEW chars
  PROVE  /\ Strspn(s, chars) \in 0..Len(s)
         /\ \A i \in 1..Strspn(s, chars) : s[i] \in chars
         /\ Strspn(s, chars) < Len(s) => s[Strspn(s, chars) + 1] \notin chars
<1> DEFINE Stop(n) == n = Len(s) \/ s[n + 1] \notin chars
           T == {n \in 0..Len(s) : Stop(n)}
           Good(n) == (\A i \in 1..n : s[i] \in chars) /\ (n = Len(s) \/ s[n + 1] \notin chars)
<1>1. T \subseteq Nat /\ Len(s) \in T
  OBVIOUS
<1>2. PICK n \in T : \A m \in T : n <= m
  <2> HIDE DEF T
  <2> QED
    BY <1>1, LeastNatural
<1>3. \A i \in 1..n : s[i] \in chars
  <2> TAKE i \in 1..n
  <2>1. i - 1 \in 0..Len(s) /\ i - 1 < n /\ n \in Nat
    BY <1>1
  <2>2. (i - 1) + 1 = i
    OBVIOUS
  <2>3. i - 1 \notin T
    <3> HIDE DEF T
    <3> QED
      BY <1>1, <1>2, <2>1
  <2> QED
    BY <2>1, <2>2, <2>3
<1>4. n \in 0..Len(s) /\ Good(n)
  BY <1>3
<1>5. Strspn(s, chars) \in 0..Len(s) /\ Good(Strspn(s, chars))
  <2>1. \E m \in 0..Len(s) : Good(m)
    BY <1>4, Zenon
  <2>2. Strspn(s, chars) = CHOOSE m \in 0..Len(s) : Good(m)
    BY DEF Strspn
  <2> HIDE DEF Good
  <2> QED
    BY <2>1, <2>2, Zenon
<1> QED
  BY <1>5

\* The first n characters of s are in chars, and t is the rest of it.
Splits(s, chars, n, t) ==
  /\ n \in 0..Len(s) /\ \A i \in 1..n : s[i] \in chars
  /\ n < Len(s) => s[n + 1] \notin chars /\ FirstOf(t) = s[n + 1]
  /\ t \in Seq(STRING) /\ Len(t) = Len(s) - n /\ \A i \in 1..Len(t) : t[i] = s[n + i]

\* strspn() splits a line into the characters it passes over and the rest.
LEMMA PrefixSplits ==
  ASSUME NEW s \in Seq(STRING), NEW chars
  PROVE  Splits(s, chars, Strspn(s, chars), From(s, Strspn(s, chars) + 1))
<1> DEFINE n == Strspn(s, chars)
           t == From(s, n + 1)
<1>1. /\ n \in 0..Len(s) /\ \A i \in 1..n : s[i] \in chars
      /\ n < Len(s) => s[n + 1] \notin chars
  BY StrspnIsPrefix
<1> HIDE DEF n
<1>2. t \in Seq(STRING) /\ Len(t) = Len(s) - n /\ \A i \in 1..Len(t) : t[i] = s[n + i]
  BY <1>1 DEF From
<1> HIDE DEF t
<1>3. ASSUME n < Len(s) PROVE FirstOf(t) = s[n + 1]
  <2>1. t # <<>> /\ t[1] = s[n + 1]
    BY <1>1, <1>2, <1>3
  <2> QED
    BY <2>1, Zenon DEF FirstOf
<1> QED
  BY <1>1, <1>2, <1>3 DEF n, t, Splits

\* There is no first character of nothing.
LEMMA FirstOfNothing ==
  ASSUME NEW t \in Seq(STRING), Len(t) = 0
  PROVE  FirstOf(t) = ""
<1>1. t = <<>>
  OBVIOUS
<1> QED
  BY <1>1, Zenon DEF FirstOf

\* A digit is none of the other characters of a selection.
LEMMA DigitFacts ==
  /\ DOMAIN Digits = {"0", "1", "2", "3"}
  /\ \A d \in DOMAIN Digits : Digits[d] \in Nat
  /\ {" ", "", "+", "-", "i", "m"} \cap DOMAIN Digits = {}
<1>1. DOMAIN Digits = {"0", "1", "2", "3"}
  BY DEF Digits
<1>2. \A d \in DOMAIN Digits : Digits[d] \in Nat
  BY DEF Digits
<1>3. {" ", "", "+", "-", "i", "m"} \cap DOMAIN Digits = {}
  BY <1>1
<1> QED
  BY <1>1, <1>2, <1>3

\* v holds the number read after each of the first d characters of s.
NumberBy(v, s, d) ==
  v[0] = 0 /\ \A n \in 0..(d - 1) : v[n + 1] = 10 * v[n] + Digits[s[n + 1]]

\* A number without a sign is read digit by digit.
LEMMA NumberStepwise ==
  ASSUME NEW s \in Seq(STRING), FirstOf(s) \notin {"+", "-"},
         NEW d, d = Strspn(s, DOMAIN Digits)
  PROVE  \E v \in [0..d -> Nat] : Number(s) = v[d] /\ NumberBy(v, s, d)
<1> DEFINE D == [p \in ((0 + 1)..d) \X Nat |-> 10 * p[2] + Digits[s[p[1]]]]
           Def(g) == g = [n \in 0..d |-> IF n = 0 THEN 0 ELSE 10 * g[n - 1] + Digits[s[n]]]
           value == CHOOSE g : Def(g)
<1>1. d \in Nat /\ 0 \in Nat /\ 0 <= d /\ \A i \in 1..d : Digits[s[i]] \in Nat
  BY StrspnIsPrefix, DigitFacts
<1>2. D \in [((0 + 1)..d) \X Nat -> Nat]
  BY <1>1
<1>3. PICK f \in [0..d -> Nat] : Follows(f, 0, d, 0, D)
  <2> HIDE DEF D
  <2> QED
    BY <1>1, <1>2, IntervalRecursion
<1>4. Def(f)
  <2>1. ASSUME NEW n \in 0..d, n # 0 PROVE f[n] = 10 * f[n - 1] + Digits[s[n]]
    <3>1. n \in (0 + 1)..d /\ f[n - 1] \in Nat
      BY <1>1, <2>1
    <3>2. f[n] = D[<<n, f[n - 1]>>]
      BY <1>3, <3>1 DEF Follows
    <3>3. <<n, f[n - 1]>> \in ((0 + 1)..d) \X Nat
      BY <3>1
    <3> QED
      BY <3>2, <3>3
  <2>2. f[0] = 0
    BY <1>3 DEF Follows
  <2>3. DOMAIN f = 0..d /\ f = [n \in DOMAIN f |-> f[n]]
    OBVIOUS
  <2>4. \A n \in 0..d : f[n] = IF n = 0 THEN 0 ELSE 10 * f[n - 1] + Digits[s[n]]
    BY <2>1, <2>2, Zenon
  <2> HIDE DEF D
  <2> QED
    BY <2>3, <2>4
<1>5. Def(value)
  <2> HIDE DEF Def
  <2> QED
    BY <1>4
<1>6. Number(s) = value[d]
  BY DEF Number, Unsigned
<1> HIDE DEF value, D
<1>7. \A n \in 0..d : value[n] = IF n = 0 THEN 0 ELSE 10 * value[n - 1] + Digits[s[n]]
  BY <1>5, Zenon
<1>8. value[0] = 0
  BY <1>1, <1>7
<1>9. ASSUME NEW n \in 0..(d - 1) PROVE value[n + 1] = 10 * value[n] + Digits[s[n + 1]]
  <2>1. n + 1 \in 0..d /\ (n + 1) - 1 = n /\ n + 1 # 0
    BY <1>1
  <2> QED
    BY <1>7, <2>1, Zenon
<1>10. \A n \in 0..d : value[n] \in Nat
  <2> DEFINE S == {n \in 0..d : value[n] \in Nat}
  <2>1. 0 \in S
    BY <1>1, <1>8
  <2>2. ASSUME NEW n \in 0..(d - 1), n \in S PROVE n + 1 \in S
    BY <1>1, <1>9, <2>2
  <2> HIDE DEF S
  <2>3. \A n \in 0..(d - 1) : n \in S => n + 1 \in S
    BY <2>2
  <2>4. \A n \in 0..d : n \in S
    BY <1>1, <2>1, <2>3, IntervalInduction, Zenon
  <2> QED
    BY <2>4 DEF S
<1>11. value \in [0..d -> Nat]
  BY <1>5, <1>10
<1>12. NumberBy(value, s, d)
  BY <1>8, <1>9, Zenon DEF NumberBy
<1> QED
  BY <1>6, <1>11, <1>12

\* An i or m that is taken for the command is the letter of the line.
LEMMA CommandIsLetter ==
  ASSUME NEW line \in Seq(STRING), Plain(line), ComputeSelection(line).cmd \in Manual
  PROVE  Letter(line) = ComputeSelection(line).cmd
<1> DEFINE Blank == {" "}
           b == Strspn(line, Blank)
           s == SkipBlanks(line)
           cmd == ComputeSelection(line).cmd
           d == Strspn(s, DOMAIN Digits)
           t == From(s, d + 1)
           e == Strspn(t, Blank)
           u == SkipBlanks(t)
           T == {line[i] : i \in 1..Len(line)} \ ({" "} \cup DOMAIN Digits)
<1>1. cmd # "" /\ cmd # " " /\ cmd \notin DOMAIN Digits
  BY DigitFacts DEF Manual
<1>2. Splits(line, Blank, b, s)
  BY PrefixSplits DEF SkipBlanks
<1>3. IsNumber(s) => cmd = FirstOf(u)
  BY DEF ComputeSelection
<1>4. ~IsNumber(s) => cmd = FirstOf(s)
  BY DEF ComputeSelection
<1> HIDE DEF Blank, b, s, cmd
<1>5. ASSUME IsNumber(s) PROVE \E i \in 1..Len(s) : cmd = s[i]
  <2>1. Splits(s, DOMAIN Digits, d, t)
    BY <1>2, PrefixSplits DEF Splits
  <2> HIDE DEF d, t
  <2>2. Splits(t, Blank, e, u)
    BY <2>1, PrefixSplits DEF Splits, SkipBlanks, Blank
  <2> HIDE DEF e, u
  <2>3. e < Len(t)
    <3>1. ASSUME ~(e < Len(t)) PROVE Len(u) = 0 /\ u \in Seq(STRING)
      <4>1. t \in Seq(STRING) /\ e \in 0..Len(t) /\ u \in Seq(STRING) /\ Len(u) = Len(t) - e
        BY <2>1, <2>2, Zenon DEF Splits
      <4> QED
        BY <3>1, <4>1
    <3>2. FirstOf(u) # ""
      BY <1>1, <1>3, <1>5, Zenon
    <3> QED
      BY <3>1, <3>2, FirstOfNothing, Zenon
  <2>4. FirstOf(u) = t[e + 1]
    BY <2>2, <2>3 DEF Splits
  <2>5. e + 1 \in 1..Len(t) /\ d + (e + 1) \in 1..Len(s)
    BY <2>1, <2>2, <2>3, <1>2 DEF Splits
  <2>6. t[e + 1] = s[d + (e + 1)]
    BY <2>1, <2>5, Zenon DEF Splits
  <2> QED
    BY <1>3, <1>5, <2>4, <2>5, <2>6, Zenon
<1>6. ASSUME ~IsNumber(s) PROVE \E i \in 1..Len(s) : cmd = s[i]
  <2>1. s \in Seq(STRING)
    BY <1>2 DEF Splits
  <2>2. s # <<>> /\ cmd = s[1]
    BY <1>1, <1>4, <1>6, Zenon DEF FirstOf
  <2>3. 1 \in 1..Len(s)
    BY <2>1, <2>2
  <2> QED
    BY <2>2, <2>3
<1>7. \E i \in 1..Len(line) : line[i] = cmd
  <2>1. PICK i \in 1..Len(s) : cmd = s[i]
    BY <1>5, <1>6, Zenon
  <2>2. b + i \in 1..Len(line) /\ s[i] = line[b + i]
    BY <1>2 DEF Splits
  <2> QED
    BY <2>1, <2>2
<1>8. cmd \in T
  BY <1>1, <1>7, Zenon
<1>9. Signs(line) \in Seq(STRING) /\ Selects(Signs(line), line, T)
  <2>1. Signs(line) = Only(line, T)
    BY DEF Signs
  <2> HIDE DEF T
  <2> QED
    BY <2>1, OnlyMembers
<1> HIDE DEF T
<1>10. \E j \in 1..Len(Signs(line)) : Signs(line)[j] = cmd
  BY <1>7, <1>8, <1>9, Zenon DEF Selects
<1>11. Len(Signs(line)) <= 1
  BY Zenon DEF Plain
<1>12. Signs(line)[1] = cmd /\ Signs(line) # <<>>
  BY <1>9, <1>10, <1>11
<1> QED
  BY <1>12, Zenon DEF Letter, FirstOf, cmd

\* s is blanks, d digits after b characters, and blanks.
BlanksAround(s, b, d) ==
  /\ b \in 0..Len(s) /\ d \in 0..(Len(s) - b)
  /\ \A i \in 1..Len(s) : i \in (b + 1)..(b + d) => s[i] \in DOMAIN Digits
  /\ \A i \in 1..Len(s) : i \notin (b + 1)..(b + d) => s[i] \in {" "}

\* There is no letter in the line, and its figures are d after b characters.
OnlyFigures(line, b, d) ==
  /\ Letter(line) = ""
  /\ Figures(line) \in Seq(STRING) /\ Len(Figures(line)) = d
  /\ \A i \in 1..d : Figures(line)[i] = line[b + i]

\* What such a line says at a glance
LEMMA GlanceAtNumber ==
  ASSUME NEW line \in Seq(STRING), NEW b, NEW d, BlanksAround(line, b, d)
  PROVE  OnlyFigures(line, b, d)
<1> DEFINE T == {line[i] : i \in 1..Len(line)} \ ({" "} \cup DOMAIN Digits)
<1>1. \A i \in 1..Len(line) : line[i] \notin T
  BY Zenon DEF BlanksAround
<1>2. Signs(line) = Only(line, T)
  BY DEF Signs
<1> HIDE DEF T
<1>3. Signs(line) \in Seq(STRING) /\ Selects(Signs(line), line, T)
  BY <1>2, OnlyMembers
<1>4. \A j \in 1..Len(Signs(line)) : FALSE
  BY <1>1, <1>3, Zenon DEF Selects
<1>5. Len(Signs(line)) = 0
  BY <1>3, <1>4
<1>6. Letter(line) = ""
  BY <1>3, <1>5, FirstOfNothing, Zenon DEF Letter
<1>7. \A i \in 1..Len(line) : line[i] \in DOMAIN Digits <=> i \in (b + 1)..(b + d)
  BY DigitFacts, Zenon DEF BlanksAround
<1>8. b \in 0..Len(line) /\ d \in 0..(Len(line) - b)
  BY DEF BlanksAround
<1>9. b + 1 \in 1..(Len(line) + 1) /\ b + d \in (b + 1 - 1)..Len(line)
  BY <1>8
<1>10. Figures(line) = SubSeq(line, b + 1, b + d)
  <2> DEFINE D == DOMAIN Digits
             first == b + 1
             last == b + d
  <2>1. Figures(line) = Only(line, D)
    BY DEF Figures
  <2>2. \A i \in 1..Len(line) : line[i] \in D <=> i \in first..last
    BY <1>7
  <2>3. first \in 1..(Len(line) + 1) /\ last \in (first - 1)..Len(line)
    BY <1>8
  <2> HIDE DEF D, first, last
  <2>4. Only(line, D) = SubSeq(line, first, last)
    BY <2>2, <2>3, OnlyOneGroup
  <2> QED
    BY <2>1, <2>4 DEF first, last
<1>11. /\ Figures(line) \in Seq(STRING) /\ Len(Figures(line)) = d
       /\ \A i \in 1..d : Figures(line)[i] = line[b + i]
  BY <1>8, <1>10
<1> QED
  BY <1>6, <1>11, Zenon DEF OnlyFigures

\* Digits that agree up to the end of the number are the same number.
LEMMA SameNumber ==
  ASSUME NEW s \in Seq(STRING), NEW f \in Seq(STRING), NEW d,
         d = Strspn(s, DOMAIN Digits), d # 0, Len(f) = d, \A i \in 1..d : f[i] = s[i]
  PROVE  Number(s) = Number(f) /\ Number(f) \in Nat
<1>1. /\ d \in 0..Len(s) /\ \A i \in 1..d : s[i] \in DOMAIN Digits
  BY StrspnIsPrefix
<1>2. Strspn(f, DOMAIN Digits) = d
  <2> DEFINE n == Strspn(f, DOMAIN Digits)
  <2>1. n \in 0..d /\ (n < d => f[n + 1] \notin DOMAIN Digits)
    BY StrspnIsPrefix
  <2> HIDE DEF n
  <2>2. ASSUME n < d PROVE FALSE
    <3>1. n + 1 \in 1..d
      BY <1>1, <2>1, <2>2
    <3> QED
      BY <1>1, <2>1, <2>2, <3>1
  <2>3. n = d
    BY <1>1, <2>1, <2>2
  <2> QED
    BY <2>3 DEF n
<1>3. FirstOf(f) \notin {"+", "-"} /\ FirstOf(s) \notin {"+", "-"}
  <2>1. f # <<>> /\ s # <<>> /\ f[1] = s[1] /\ s[1] \in DOMAIN Digits
    BY <1>1
  <2>2. FirstOf(f) = s[1] /\ FirstOf(s) = s[1]
    BY <2>1, Zenon DEF FirstOf
  <2> QED
    BY <2>1, <2>2, DigitFacts, Zenon
<1>4. PICK v \in [0..d -> Nat] : Number(s) = v[d] /\ NumberBy(v, s, d)
  BY <1>3, NumberStepwise
<1>5. PICK w \in [0..d -> Nat] : Number(f) = w[d] /\ NumberBy(w, f, d)
  BY <1>2, <1>3, NumberStepwise
<1> DEFINE S == {n \in 0..d : v[n] = w[n]}
<1>6. 0 \in S
  BY <1>1, <1>4, <1>5 DEF NumberBy
<1>7. ASSUME NEW n \in 0..(d - 1), n \in S PROVE n + 1 \in S
  <2>1. n + 1 \in 1..d /\ n + 1 \in 0..d /\ v[n] = w[n]
    BY <1>1, <1>7
  <2>2. v[n + 1] = 10 * v[n] + Digits[s[n + 1]] /\ w[n + 1] = 10 * w[n] + Digits[f[n + 1]]
    BY <1>4, <1>5, Zenon DEF NumberBy
  <2>3. f[n + 1] = s[n + 1]
    BY <2>1
  <2>4. v[n + 1] = w[n + 1]
    BY <2>1, <2>2, <2>3, Zenon
  <2> QED
    BY <2>1, <2>4
<1> HIDE DEF S
<1>8. d \in Nat /\ 0 \in Nat /\ d \in 0..d
  BY <1>1
<1>9. d \in S
  <2>1. \A n \in 0..(d - 1) : n \in S => n + 1 \in S
    BY <1>7
  <2>2. \A n \in 0..d : n \in S
    BY <1>6, <1>8, <2>1, IntervalInduction, Zenon
  <2> QED
    BY <1>8, <2>2
<1> QED
  BY <1>4, <1>5, <1>8, <1>9 DEF S

\* No character is the end of the string, and no command stands in the line.
IsLine(line) == \A i \in 1..Len(line) : line[i] # ""
NoCommand(line) == ComputeSelection(line).cmd = ""

\* A line that is answered by a number without a command is that number between blanks.
LEMMA NumberAlone ==
  ASSUME NEW line \in Seq(STRING), IsLine(line), ~IsBlank(line), NoCommand(line)
  PROVE  /\ Letter(line) = ""
         /\ ComputeSelection(line).selection = Number(Figures(line))
         /\ Number(Figures(line)) \in Nat
<1> DEFINE Blank == {" "}
           b == Strspn(line, Blank)
           s == SkipBlanks(line)
           cmd == ComputeSelection(line).cmd
           selection == ComputeSelection(line).selection
           d == Strspn(s, DOMAIN Digits)
           t == From(s, d + 1)
           e == Strspn(t, Blank)
           u == SkipBlanks(t)
           Char(c) == c # ""
           Sign == {"+", "-"}
<1>1. Splits(line, Blank, b, s) /\ b # Len(line)
  BY PrefixSplits DEF SkipBlanks, IsBlank
<1>2. IsNumber(s) => cmd = FirstOf(u) /\ selection = Number(s)
  BY DEF ComputeSelection
<1>3. ~IsNumber(s) => cmd = FirstOf(s)
  BY DEF ComputeSelection
<1>4. (FirstOf(s) \notin Sign /\ IsNumber(s)) => FirstOf(s) \in DOMAIN Digits
  BY Zenon DEF IsNumber, Unsigned
<1>5. Sign \cap DOMAIN Digits = {} /\ Blank \cap DOMAIN Digits = {}
  BY DigitFacts
<1>6. \A i \in 1..Len(line) : Char(line[i])
  BY DEF IsLine
<1>7. ~Char(cmd)
  BY DEF NoCommand
<1> HIDE DEF Blank, b, s, cmd, selection, Char, Sign
<1>8. Splits(s, DOMAIN Digits, d, t)
  BY <1>1, PrefixSplits DEF Splits
<1> HIDE DEF d, t
<1>9. Splits(t, Blank, e, u)
  BY <1>8, PrefixSplits DEF Splits, SkipBlanks, Blank
<1> HIDE DEF e, u
<1>10. FirstOf(s) = line[b + 1] /\ b + 1 \in 1..Len(line) /\ b \in 0..Len(line)
       /\ line[b + 1] \notin Blank /\ s # <<>> /\ s[1] = FirstOf(s)
  <2>1. b < Len(line) /\ Len(s) # 0
    BY <1>1 DEF Splits
  <2>2. 1 \in 1..Len(s) /\ s # <<>>
    BY <1>1, <2>1 DEF Splits
  <2> QED
    BY <1>1, <2>1, <2>2 DEF Splits
<1>11. IsNumber(s)
  BY <1>3, <1>6, <1>7, <1>10, Zenon
<1>12. e = Len(t)
  <2>1. ASSUME e # Len(t) PROVE FALSE
    <3>1. e + 1 \in 1..Len(t) /\ FirstOf(u) = t[e + 1]
      BY <1>8, <1>9, <2>1 DEF Splits
    <3>2. d + (e + 1) \in 1..Len(s) /\ b + (d + (e + 1)) \in 1..Len(line)
      <4>1. /\ b \in 0..Len(line) /\ Len(s) = Len(line) - b
            /\ d \in 0..Len(s) /\ Len(t) = Len(s) - d
        BY <1>1, <1>8, Zenon DEF Splits
      <4> QED
        BY <3>1, <4>1
    <3>3. t[e + 1] = line[b + (d + (e + 1))]
      BY <1>1, <1>8, <3>1, <3>2 DEF Splits
    <3> QED
      BY <1>2, <1>6, <1>7, <1>11, <3>1, <3>2, <3>3, Zenon
  <2> QED
    BY <2>1
<1>13. BlanksAround(line, b, d)
  <2>1. b \in 0..Len(line) /\ d \in 0..(Len(line) - b) /\ Len(s) = Len(line) - b
        /\ Len(t) = Len(s) - d
    BY <1>1, <1>8 DEF Splits
  <2>2. ASSUME NEW i \in 1..Len(line), i \in (b + 1)..(b + d) PROVE line[i] \in DOMAIN Digits
    <3>1. i - b \in 1..d /\ i - b \in 1..Len(s) /\ b + (i - b) = i
      BY <2>1, <2>2
    <3> QED
      BY <1>1, <1>8, <3>1 DEF Splits
  <2>3. ASSUME NEW i \in 1..Len(line), i > b + d PROVE line[i] \in Blank
    <3>1. /\ i - b - d \in 1..Len(t) /\ d + (i - b - d) = i - b /\ i - b \in 1..Len(s)
          /\ b + (i - b) = i
      BY <2>1, <2>3
    <3>2. t[i - b - d] \in Blank
      BY <1>9, <1>12, <3>1 DEF Splits
    <3> QED
      BY <1>1, <1>8, <3>1, <3>2 DEF Splits
  <2>4. ASSUME NEW i \in 1..Len(line), i <= b PROVE line[i] \in Blank
    BY <1>1, <2>1, <2>4 DEF Splits
  <2>5. ASSUME NEW i \in 1..Len(line), i \notin (b + 1)..(b + d) PROVE line[i] \in Blank
    <3>1. i <= b \/ i > b + d
      BY <2>1, <2>5
    <3> QED
      BY <2>3, <2>4, <3>1
  <2> QED
    BY <2>1, <2>2, <2>5, Zenon DEF BlanksAround, Blank
<1>14. FirstOf(s) \notin Sign
  <2>1. ASSUME FirstOf(s) \in Sign PROVE FALSE
    <3>1. d = 0
      <4>1. ASSUME d # 0 PROVE FALSE
        <5>1. s[1] \in DOMAIN Digits
          BY <1>8, <4>1 DEF Splits
        <5> QED
          BY <1>5, <1>10, <2>1, <5>1
      <4> QED
        BY <4>1
    <3>2. 1 \in 1..Len(t) /\ t[1] = s[1]
      <4>1. s \in Seq(STRING) /\ Len(s) # 0
        BY <1>1, <1>10 DEF Splits
      <4> QED
        BY <1>8, <3>1, <4>1 DEF Splits
    <3>3. t[1] \in Blank
      BY <1>9, <1>12, <3>2 DEF Splits
    <3> QED
      BY <1>10, <3>2, <3>3
  <2> QED
    BY <2>1
<1>15. d # 0
  <2>1. s[1] \in DOMAIN Digits /\ Len(s) # 0 /\ s \in Seq(STRING)
    BY <1>1, <1>4, <1>10, <1>11, <1>14 DEF Splits
  <2> QED
    BY <1>8, <2>1 DEF Splits
<1>16. OnlyFigures(line, b, d)
  BY <1>13, GlanceAtNumber, Zenon
<1>17. \A i \in 1..d : Figures(line)[i] = s[i]
  <2> TAKE i \in 1..d
  <2>1. i \in 1..Len(s)
    BY <1>1, <1>8 DEF Splits
  <2>2. s[i] = line[b + i]
    BY <1>1, <2>1 DEF Splits
  <2> QED
    BY <1>16, <2>2, Zenon DEF OnlyFigures
<1>18. Number(s) = Number(Figures(line)) /\ Number(Figures(line)) \in Nat
  <2>1. s \in Seq(STRING) /\ d = Strspn(s, DOMAIN Digits)
    BY <1>1 DEF Splits, d
  <2>2. Figures(line) \in Seq(STRING) /\ Len(Figures(line)) = d
    BY <1>16, Zenon DEF OnlyFigures
  <2> QED
    BY <1>15, <1>17, <2>1, <2>2, SameNumber
<1> QED
  BY <1>2, <1>11, <1>16, <1>18, Zenon DEF selection, OnlyFigures

\* With the terminal open the dialogue stays at the line last typed, so an entry from the
\* menu is the one whose number stands in it, or the default, as it is in the configuration
\* of the System Loader, and a letter i or m leads to a manual entry, whatever the lines.
THEOREM TypedIsBooted == LinemodeSpec => []BootsWhatWasTyped
<1>1. DialogueInv => BootsWhatWasTyped
  <2> DEFINE n == Number(Figures(typed))
             Goal == /\ manual = "no" <=> Letter(typed) \notin {"i", "m"}
                     /\ manual = "no" => /\ Letter(typed) = ""
                                         /\ printed = menu[IF n = 0 THEN boot_default + 1 ELSE n]
  <2> SUFFICES ASSUME DialogueInv, printed # NoEntry, ~eof, Plain(typed) PROVE Goal
    BY DEF BootsWhatWasTyped
  <2>1. input = typed /\ printed = bentry /\ bentry_list = menu /\ (FromTheMenu \/ ByHand)
    BY Zenon DEF DialogueInv
  <2>2. typed \in Seq(STRING) /\ IsLine(typed)
    <3>1. CASE typed \in Lines
      BY <3>1, LineAssumption, Zenon DEF IsLine
    <3>2. CASE typed = <<>>
      <4>1. typed \in Seq(STRING) /\ 1..Len(typed) = {}
        BY <3>2
      <4> QED
        BY <4>1, Zenon DEF IsLine
    <3> QED
      BY <3>1, <3>2, Zenon DEF DialogueInv
  <2>3. CASE FromTheMenu
    <3>1. NoCommand(typed) /\ ~IsBlank(typed) /\ manual = "no"
      BY <2>1, <2>3, Zenon DEF FromTheMenu, NoCommand
    <3>2. Letter(typed) = "" /\ ComputeSelection(typed).selection = n /\ n \in Nat
      BY <2>2, <3>1, NumberAlone, Zenon
    <3>3. printed = menu[Chosen(typed) + 1]
      BY <2>1, <2>3, Zenon DEF FromTheMenu
    <3>4. Chosen(typed) = IF n # 0 THEN n - 1 ELSE boot_default
      BY <3>2, Zenon DEF Chosen
    <3> HIDE DEF n
    <3>5. Chosen(typed) + 1 = IF n = 0 THEN boot_default + 1 ELSE n
      <4>1. n \in Nat
        BY <3>2, Zenon
      <4> QED
        BY <3>4, <4>1
    <3>6. printed = menu[IF n = 0 THEN boot_default + 1 ELSE n]
      BY <3>3, <3>5, Zenon
    <3>7. "" \notin {"i", "m"}
      OBVIOUS
    <3> QED
      BY <3>1, <3>2, <3>6, <3>7, Zenon
  <2>4. CASE ByHand
    <3>1. manual # "no" /\ ComputeSelection(typed).cmd \in Manual
      BY <2>1, <2>4, Zenon DEF ByHand
    <3>2. Letter(typed) \in {"i", "m"}
      BY <2>2, <3>1, CommandIsLetter, Zenon DEF Manual
    <3> QED
      BY <3>1, <3>2, Zenon
  <2> QED
    BY <2>1, <2>3, <2>4
<1> QED
  BY <1>1, DialogueInit, DialogueStep, PTL DEF LinemodeSpec
=============================================================================
