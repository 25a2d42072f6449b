----------------------------- MODULE MCBootmap -----------------------------
(* Disks of six blocks: 0 and 1 hold segment tables, 4 that of the stage 3 loader. *)
EXTENDS BootmapReference

Ptr(b, c) == [block |-> b, count |-> c, sized |-> TRUE]
Unsized == [block |-> 2, count |-> 0, sized |-> FALSE]

NoPointers == [i \in 0..1 |-> NullPtr]
Stage3Table == [i \in 0..1 |-> IF i = 0 THEN Ptr(5, 0) ELSE NullPtr]

DiskWith(t0, t1, c, psw, len) ==
  [type |-> "scsi", signed |-> TRUE, table |-> Ptr(3, 0), magic |-> TRUE, opt |-> "ipl",
   programs |-> [n \in 0..1 |-> IF n = 0 THEN Ptr(3, 0) ELSE NullPtr],
   comps |-> c,
   ptrs |-> [b \in 0..5 |-> IF b = 0 THEN t0 ELSE IF b = 1 THEN t1
                            ELSE IF b = 4 THEN Stage3Table ELSE NoPointers],
   params |-> [b \in 0..5 |-> [psw |-> psw, initrd |-> 2, len |-> len, parm |-> 3]]]

Load(a, ptr) == [type |-> "load", addr |-> a, seg |-> ptr]
Execute(a) == [type |-> "execute", addr |-> a, seg |-> NullPtr]

\* Every content of the two segment tables, reached as one table or as two
AnyPtr == {NullPtr, Ptr(0, 1), Ptr(1, 0), Ptr(2, 0), Ptr(2, 1), Ptr(5, 1)}
ChainedDisks ==
  {DiskWith(t0, t1, <<Load(1, Ptr(0, n)), Load(2, Ptr(1, 0)), Load(3, Ptr(4, 0)),
                       Load(9, Ptr(4, 0)), Execute(8)>>, 1, 1) :
     t0, t1 \in [0..1 -> AnyPtr], n \in 0..1}

\* Every component table of up to three entries
Entries == {Load(a, s) : a \in 1..2, s \in {Ptr(0, 0), Ptr(4, 0)}} \cup {Execute(7), Execute(8)}
T(a, b) == [i \in 0..1 |-> IF i = 0 THEN a ELSE b]
TableDisks ==
  {DiskWith(T(Ptr(2, 1), NullPtr), NoPointers, c, psw, len) :
     c \in UNION {[1..n -> Entries] : n \in 1..3}, psw \in {1}, len \in {1, 3}}

OtherDisks ==
  LET d == DiskWith(T(Ptr(2, 1), NullPtr), NoPointers, <<Load(1, Ptr(4, 0)), Execute(8)>>, 1, 1)
  IN {[d EXCEPT !.type = "eckd"], [d EXCEPT !.type = "other"], [d EXCEPT !.signed = FALSE],
      [d EXCEPT !.magic = FALSE], [d EXCEPT !.opt = "dump"], [d EXCEPT !.table = Ptr(6, 0)],
      [d EXCEPT !.programs[0] = Unsized]}

MCDisks == ChainedDisks \cup TableDisks \cup OtherDisks
MCGarbage == {Load(1, Ptr(2, 0)), Execute(8)}
=============================================================================
