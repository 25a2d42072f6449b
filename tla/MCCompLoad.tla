----------------------------- MODULE MCCompLoad -----------------------------
EXTENDS CompLoad

\* "dasd://...", "x+1:", ":x", "1x:", "a/b:c", "abc"
MCUris == {<<"alpha", "alpha", "colon", "other">>, <<"alpha", "mark", "digit", "colon">>,
           <<"colon", "alpha">>, <<"digit", "alpha", "colon">>,
           <<"alpha", "other", "alpha", "colon", "alpha">>, <<"alpha", "alpha">>}
=============================================================================
