----------------------------- MODULE HelloStream -----------------------------
(***************************************************************************)
(* What the TCP strategies do to a connection: a client sends a stream     *)
(* that begins with a TLS ClientHello, the strategy cuts, swaps or doubles *)
(* its segments, the network loses, repeats and reorders them, and the     *)
(* server puts them together again.  One connection, one strategy.         *)
(*                                                                         *)
(* The byte at position i of the client's stream is i, so no two bytes are *)
(* equal and a byte in the wrong place shows; Decoy is the letter the fake *)
(* host name is made of.  The client's TCP, the network and the server are *)
(* no code of the repository.                                              *)
(***************************************************************************)
EXTENDS Integers, Sequences

CONSTANTS
    Strategies,     \* what a connection may be treated with: [kind, force]
    SplitPos,       \* split_pos of a candidate, first_chunk_size in manual mode
    FakeTtl,        \* fake_ttl
    BadSeqIncrement,\* badseq_increment
    HelloLen,       \* bytes of the ClientHello
    NameAt, NameLen,\* where its host name begins and how long it is
    StreamLen,      \* bytes of the whole stream
    RecordBytes,    \* the positions of the bytes that are 0x16, whatever they mean there
    Msses,          \* how many bytes a client may put into a segment
    SeqSpace,       \* 2^32
    Isn,            \* sequence number of the first byte
    Window,         \* bytes the server accepts beyond what it has
    Distance,       \* hops to the server
    FullTtl,        \* the TTL the client sends with
    Decoy, None

Kinds == {"multisplit", "multidisorder", "fake_ttl", "fake_badseq", "sni", "sni_reverse", "fixed"}

ASSUME StreamAssumption ==
    /\ Strategies \subseteq [kind : Kinds, force : BOOLEAN]
    /\ \A n \in {SplitPos, FakeTtl, HelloLen, NameLen, StreamLen, SeqSpace, Window,
                 Distance, FullTtl} : n \in Nat \ {0}
    /\ Msses \subseteq Nat \ {0}
    /\ BadSeqIncrement \in Int /\ NameAt \in Nat /\ Isn \in 0 .. SeqSpace - 1
    /\ NameAt + NameLen <= HelloLen /\ HelloLen <= StreamLen
    /\ 0 \in RecordBytes /\ RecordBytes \subseteq 0 .. StreamLen - 1
    /\ StreamLen + Window < SeqSpace
    /\ Distance <= FullTtl

ASSUME SentinelAssumption == None \notin (0 .. StreamLen - 1) \cup {Decoy}

\* What the two decoys are made for: one dies on the way, the other lies outside
\* of what the server accepts, from the first byte to the last.
ASSUME DecoyAssumption ==
    \A s \in Strategies :
        /\ s.kind = "fake_ttl" => FakeTtl < Distance
        /\ s.kind = "fake_badseq" =>
               /\ StreamLen + Window < BadSeqIncrement % SeqSpace
               /\ (BadSeqIncrement % SeqSpace) + StreamLen <= SeqSpace

\* The server's window takes the first segment of a divided name.
ASSUME WindowAssumption == NameAt < Window

VARIABLES
    strategy,       \* the strategy of this connection
    mss,            \* the most bytes its client puts into a segment
    flight,         \* segments in the network
    acked,          \* what the client knows to have arrived
    received        \* received[i]: the byte the server has at position i

vars == <<strategy, mss, flight, acked, received>>

Bytes == (0 .. StreamLen - 1) \cup {Decoy}
Places == 0 .. StreamLen + Window

\* The byte the server waits for.
RcvNxt == CHOOSE i \in Places : /\ received[i] = None \/ i = StreamLen + Window
                               /\ \A j \in 0 .. i - 1 : received[j] # None

TypeOK ==
    /\ strategy \in Strategies /\ mss \in Msses
    /\ \A s \in flight : /\ s.seq \in 0 .. SeqSpace - 1
                         /\ s.data \in Seq(Bytes) \ {<<>>}
                         /\ s.ttl \in {FakeTtl, FullTtl}
    /\ acked \in 0 .. RcvNxt
    /\ received \in [Places -> Bytes \cup {None}]

Init ==
    /\ strategy \in Strategies /\ mss \in Msses
    /\ flight = {}
    /\ acked = 0
    /\ received = [i \in Places |-> None]

-----------------------------------------------------------------------------
(* process and process_forced.                                             *)

\* Mutated Seq32: the sequence number is not reduced.
Seq32Unbounded(n) == n

\* & 0xFFFFFFFF
Seq32(n) == n % SeqSpace

Segment(n, data) == [seq |-> Seq32(n), data |-> data, ttl |-> FullTtl]

\* The first byte is 0x16: a handshake record may begin here, or it is any byte a
\* segment happens to begin with.
StartsRecord(s) == s.data[1] \in RecordBytes

\* is_tls_client_hello: the record begins here and is complete.
IsHello(s) == s.data[1] = 0 /\ Len(s.data) >= HelloLen

\* Mutated Split: the second segment has the sequence number of the first.
SplitInPlace(s, at) ==
    IF 0 < at /\ at < Len(s.data)
      THEN {Segment(s.seq, SubSeq(s.data, 1, at)),
            Segment(s.seq, SubSeq(s.data, at + 1, Len(s.data)))}
      ELSE {s}

\* _split, and the end of TLSClientHelloFragmentStrategy.process: a set, for the
\* network keeps no order; nothing is split outside the payload.
Split(s, at) ==
    IF 0 < at /\ at < Len(s.data)
      THEN {Segment(s.seq, SubSeq(s.data, 1, at)),
            Segment(s.seq + at, SubSeq(s.data, at + 1, Len(s.data)))}
      ELSE {s}

\* The payload with the host name replaced.
Renamed(data) ==
    [i \in 1 .. Len(data) |-> IF data[i] \in NameAt .. NameAt + NameLen - 1 THEN Decoy ELSE data[i]]

FakeTtlDecoy(s) == [s EXCEPT !.data = Renamed(@), !.ttl = FakeTtl]
FakeBadSeqDecoy(s) == [Segment(s.seq + BadSeqIncrement, Renamed(s.data)) EXCEPT !.ttl = s.ttl]

\* Mutated WithDecoy: the packet itself is not sent.
WithDecoyOnly(decoy, s) == {decoy}

\* yield fake; yield packet
WithDecoy(decoy, s) == {decoy, s}

\* Mutated SniSplitAt: the cut is made before the name.
SniSplitAtStart == NameAt

\* split_at = info.sni_offset + 1, or first_chunk_size for a name of one letter.
SniSplitAt == IF NameLen > 1 THEN NameAt + 1 ELSE SplitPos

\* process goes by the parsed ClientHello; process_forced of the split modes by the
\* record type, and that of fake_ttl passes everything.
Taken(s) ==
    IF strategy.force /\ strategy.kind \in {"multisplit", "multidisorder"}
      THEN StartsRecord(s) /\ Len(s.data) >= 2
      ELSE IsHello(s) /\ ~(strategy.force /\ strategy.kind = "fake_ttl")

Outputs(s) ==
    IF ~Taken(s) THEN {s}
    ELSE CASE strategy.kind = "fake_ttl" -> WithDecoy(FakeTtlDecoy(s), s)
           [] strategy.kind = "fake_badseq" -> WithDecoy(FakeBadSeqDecoy(s), s)
           [] strategy.kind \in {"sni", "sni_reverse"} -> Split(s, SniSplitAt)
           [] OTHER -> Split(s, SplitPos)

-----------------------------------------------------------------------------
(* The client, the network and the server.                                 *)

\* The client puts what begins at one byte into a segment, the hello alone or with
\* what comes after it, and the strategy makes its packets of that.
TransmitFrom(from) ==
    \E end \in {HelloLen, StreamLen} :
        LET to == IF end < from + mss THEN end ELSE from + mss
            s  == [seq |-> (Isn + from) % SeqSpace, data |-> [i \in 1 .. to - from |-> from + i - 1],
                   ttl |-> FullTtl]
        IN  /\ from < to
            /\ flight' = flight \cup Outputs(s)
            /\ UNCHANGED <<strategy, mss, acked, received>>

\* It sends, or sends again, what follows an acknowledged byte or a full segment.
Transmit == \E from \in {acked} \cup {k \in acked .. StreamLen - 1 : k % mss = 0} : TransmitFrom(from)

\* Lost on the way, or never sent: divert.send failed.
Lose(s) ==
    /\ flight' = flight \ {s}
    /\ UNCHANGED <<strategy, mss, acked, received>>

\* Where the server puts the i-th byte of a segment: not before what it waits for.
Place(s, i) == RcvNxt + ((s.seq + i - 1 - Isn - RcvNxt) % SeqSpace)

\* The bytes of a segment that lie in its window.
Fits(s) == {i \in DOMAIN s.data : Place(s, i) < RcvNxt + Window /\ Place(s, i) \in Places}

\* The server takes the bytes of its window it does not have yet. The segment may
\* come again later.
Deliver(s) ==
    /\ s.ttl >= Distance
    /\ received' = [p \in Places |->
                       IF received[p] = None /\ \E i \in Fits(s) : Place(s, i) = p
                       THEN s.data[CHOOSE i \in Fits(s) : Place(s, i) = p] ELSE received[p]]
    /\ UNCHANGED <<strategy, mss, flight, acked>>

Acknowledge == acked' = RcvNxt /\ UNCHANGED <<strategy, mss, flight, received>>

Next ==
    \/ Transmit
    \/ \E s \in flight : Lose(s) \/ Deliver(s)
    \/ Acknowledge

Spec == Init /\ [][Next]_vars

\* The client sends the first byte it misses an acknowledgement for again and
\* again, and what is sent for ever arrives.
FairSpec ==
    /\ Spec
    /\ WF_vars(TransmitFrom(acked) /\ flight' # flight)
    /\ WF_vars(Acknowledge)
    /\ \A n \in 0 .. StreamLen - 1 :
         SF_vars(\E s \in flight : s.seq = (Isn + n) % SeqSpace /\ Deliver(s))

-----------------------------------------------------------------------------
(* Properties.                                                             *)

\* Whatever is cut, swapped, doubled, lost and sent again, the server never has
\* a byte the client did not put there: a decoy does not reach its window
\* ("a decoy TLS ClientHello which the server rejects by sequence").
StreamIntact == \A i \in Places : received[i] # None => received[i] = i

\* With a cut inside the name no segment ever carries the whole of it, not even
\* one sent again after a part was acknowledged ("Neither TCP segment carries the
\* complete hostname by itself"). A ClientHello of several segments is not taken,
\* and a name of one letter cannot be cut.
HostnameSplit ==
    strategy.kind \in {"sni", "sni_reverse"} /\ HelloLen <= mss /\ NameLen > 1 =>
        \A s \in flight :
            ~(\A i \in NameAt .. NameAt + NameLen - 1 : \E k \in DOMAIN s.data : s.data[k] = i)

\* A connection under a strategy still gets through.
StreamArrives == <>(RcvNxt = StreamLen)

=============================================================================
