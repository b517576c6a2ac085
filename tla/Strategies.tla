----------------------------- MODULE Strategies -----------------------------
(***************************************************************************)
(* What a strategy candidate does to one outbound packet.                  *)
(*                                                                         *)
(* The byte-level work of dpiveil/strategies/ is abstracted to the one     *)
(* question the session and the selection depend on: does the packet leave *)
(* altered.  A packet is reduced to what the tests of the code tell apart: *)
(*   "syn"     an initial SYN without data                                 *)
(*   "hello"   a complete TLS ClientHello                                  *)
(*   "record"  a TCP payload that starts a TLS record (0x16) but does not  *)
(*             parse as a ClientHello                                      *)
(*   "udp"     an outbound datagram to port 443                            *)
(* its local port, its destination and the kind of its server name.        *)
(***************************************************************************)
EXTENDS Naturals

CONSTANTS
    Candidates,     \* the candidates of the profile
    Kind,           \* Kind[c]: the canonical kind of candidate c
    Inert,          \* candidates whose split position lies outside every packet
    Addrs,          \* remote addresses
    Ports           \* local TCP/UDP ports

TcpKinds == {"multisplit", "multidisorder", "fake_ttl", "fake_badseq", "syndata"}
UdpKinds == {"ipfrag2"}

ASSUME CandidatesAssumption ==
    /\ Kind \in [Candidates -> TcpKinds \cup UdpKinds]
    /\ Inert \subseteq Candidates

\* "dotted" is a Discord name with a trailing dot; "none" an absent or unparsed one.
ServerNames == {"discord", "dotted", "other", "none"}

\* own marks the packets of the program's own probe sockets; no code reads it.
Packet == [kind : {"syn", "hello", "record", "udp"}, src : Ports, dst : Addrs,
           sni : ServerNames, own : BOOLEAN]

Transport(c) == IF Kind[c] \in UdpKinds THEN "udp" ELSE "tcp"

\* SessionStrategy._matches_active_domain and advanced._matches_domain drop a
\* trailing dot; ZapretCompatStrategy._matches_target does not.
MatchesActiveDomain(sni) == sni \in {"discord", "dotted"}
MatchesTarget(sni) == sni = "discord"

\* multisplit and multidisorder: process wants a matching ClientHello,
\* process_forced any payload that starts a TLS record.
SplitAlters(c, p, force) ==
    /\ Kind[c] \in {"multisplit", "multidisorder"}
    /\ c \notin Inert
    /\ IF force THEN p.kind \in {"hello", "record"}
                ELSE p.kind = "hello" /\ MatchesTarget(p.sni)

\* fake_ttl needs the parsed server name, so process_forced passes the packet on.
FakeTtlAlters(c, p, force) ==
    /\ Kind[c] = "fake_ttl"
    /\ ~force
    /\ p.kind = "hello"
    /\ MatchesTarget(p.sni)

FakeBadSeqAlters(c, p, force) ==
    /\ Kind[c] = "fake_badseq"
    /\ p.kind = "hello"
    /\ force \/ MatchesActiveDomain(p.sni)

SynDataAlters(c, p) == Kind[c] = "syndata" /\ p.kind = "syn"

IPFragment2Alters(c, p) == Kind[c] = "ipfrag2" /\ c \notin Inert /\ p.kind = "udp"

\* CandidateStrategy.process(packet, force_ip): is the output not the packet itself?
Alters(c, p, force) ==
    \/ SplitAlters(c, p, force)
    \/ FakeTtlAlters(c, p, force)
    \/ FakeBadSeqAlters(c, p, force)
    \/ SynDataAlters(c, p)
    \/ IPFragment2Alters(c, p)

=============================================================================
