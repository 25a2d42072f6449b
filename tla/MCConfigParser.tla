--------------------------- MODULE MCConfigParser ---------------------------
(* ConfigParser on small sets of statements and texts. *)
EXTENDS ConfigParser

\* The texts made of digits
MCNumberOf == [d \in {"0", "1"} |-> IF d = "0" THEN 0 ELSE 1]
=============================================================================
