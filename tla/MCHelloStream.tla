--------------------------- MODULE MCHelloStream ---------------------------
EXTENDS HelloStream

Plain(kinds) == [kind : kinds, force : {FALSE}]
Forced(kinds) == [kind : kinds, force : {TRUE}]

MCEvery == Plain(Kinds) \cup Forced({"multisplit", "multidisorder", "fake_ttl", "fake_badseq"})

MCFarBack == -20
=============================================================================
