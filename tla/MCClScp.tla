------------------------------ MODULE MCClScp -------------------------------
\* Constants of ClScp for TLC
EXTENDS ClScp

UpTo(n, chars) == UNION {[1..k -> chars] : k \in 0..n}

MCMeanings ==
  {m \in [user : {Null} \cup UpTo(1, {"a", "@"}),
          pw : {Null, <<>>} \cup UpTo(2, {"a", ":", "/"}),
          host : UpTo(1, {"a"}), port : {Null, <<"a">>},
          path : UpTo(2, {"a", ":", "/"})] :
     m.user = Null => m.pw = Null}
=============================================================================
