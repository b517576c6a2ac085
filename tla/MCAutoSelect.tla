---------------------------- MODULE MCAutoSelect ----------------------------
(***************************************************************************)
(* A session on a small machine: two addresses of Discord the resolver     *)
(* knows, one it does not, and one of somebody else.                       *)
(***************************************************************************)
EXTENDS AutoSelect, TLC, FiniteSets

CONSTANTS split, split2, ttl, syndata, frag,
          d1, d2, d3, foreign

MCAddrs == {d1, d2, d3, foreign}
MCDiscordAddrs == {d1, d2, d3}
MCSeeds == {d2}
MCOneAnswer == {<<d1>>}
MCTwoAnswers == {<<d1, d2>>}

MCKinds == split :> "multisplit" @@ split2 :> "multisplit" @@ ttl :> "fake_ttl" @@
           syndata :> "syndata" @@ frag :> "ipfrag2"
MCKind == [c \in Candidates |-> MCKinds[c]]

\* Any injective order will do; the model values are listed worst first.
MCRanks == split2 :> 5 @@ frag :> 4 @@ syndata :> 3 @@ split :> 2 @@ ttl :> 1
MCRank == [c \in Candidates |-> MCRanks[c]]

App(kind, dst, sni) ==
    {[kind |-> kind, src |-> s, dst |-> dst, sni |-> sni, own |-> FALSE] : s \in Ports}

\* Known and unknown addresses of Discord, and another program's server.
MCAppTcp == App("syn", d1, "none") \cup App("hello", d3, "discord")
            \cup App("hello", foreign, "other")
MCAppMixed == App("hello", d1, "discord") \cup App("udp", d1, "none")
              \cup App("udp", foreign, "none") \cup App("record", d1, "none")
MCAppHello == App("hello", d3, "discord")

PortSymmetry == Permutations(Ports)

=============================================================================
