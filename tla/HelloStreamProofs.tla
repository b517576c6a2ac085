-------------------------- MODULE HelloStreamProofs --------------------------
(***************************************************************************)
(* Theorems about HelloStream, for any ClientHello, any cut, any segment   *)
(* sizes, any sequence space and any window.                               *)
(***************************************************************************)
EXTENDS HelloStream, SequenceTheorems, WellFoundedInduction, TLAPS

-----------------------------------------------------------------------------
(* Sequence numbers.                                                       *)

LEMMA Sizes ==
    /\ SplitPos \in Nat \ {0} /\ HelloLen \in Nat \ {0} /\ NameLen \in Nat \ {0}
    /\ StreamLen \in Nat \ {0} /\ SeqSpace \in Nat \ {0} /\ Window \in Nat \ {0}
    /\ FakeTtl \in Nat /\ FullTtl \in Nat /\ Distance \in Nat
    /\ BadSeqIncrement \in Int /\ NameAt \in Nat /\ Isn \in 0 .. SeqSpace - 1
    /\ NameAt + NameLen <= HelloLen /\ HelloLen <= StreamLen
    /\ StreamLen + Window < SeqSpace
BY StreamAssumption

LEMMA ModRange == ASSUME NEW a \in Int PROVE a % SeqSpace \in 0 .. SeqSpace - 1
BY Sizes

LEMMA ModSmall == ASSUME NEW a \in 0 .. SeqSpace - 1 PROVE a % SeqSpace = a
BY Sizes

LEMMA ModUnique ==
    ASSUME NEW a \in Int, NEW k \in Int, NEW r \in 0 .. SeqSpace - 1, a = (k * SeqSpace) + r
    PROVE  a % SeqSpace = r
BY Sizes

LEMMA ModDivides ==
    ASSUME NEW a \in Int
    PROVE  \E k \in Int : a = (k * SeqSpace) + (a % SeqSpace)
<1>1. SeqSpace \in Nat \ {0} BY Sizes
<1>2. a \div SeqSpace \in Int /\ a = ((a \div SeqSpace) * SeqSpace) + (a % SeqSpace) BY <1>1
<1> QED BY <1>2

\* Sums may be reduced at any point.
LEMMA ModAdd ==
    ASSUME NEW a \in Int, NEW b \in Int
    PROVE  ((a % SeqSpace) + b) % SeqSpace = (a + b) % SeqSpace
<1>1. SeqSpace \in Nat \ {0} BY Sizes
<1> DEFINE r == a % SeqSpace
           m == (r + b) % SeqSpace
<1>2. r \in 0 .. SeqSpace - 1 BY ModRange
<1>3. m \in 0 .. SeqSpace - 1 BY <1>1, <1>2, ModRange
<1>4. PICK k \in Int : a = (k * SeqSpace) + r BY ModDivides
<1>5. PICK l \in Int : r + b = (l * SeqSpace) + m
  <2>1. r + b \in Int BY <1>1, <1>2
  <2> HIDE DEF r
  <2> QED BY <2>1, ModDivides
<1> HIDE DEF r, m
<1>6. a + b = ((k * SeqSpace) + (l * SeqSpace)) + m BY <1>1, <1>2, <1>3, <1>4, <1>5
<1>7. (k * SeqSpace) + (l * SeqSpace) = (k + l) * SeqSpace BY <1>1
<1>8. (a + b) % SeqSpace = m BY <1>3, <1>6, <1>7, ModUnique
<1> QED BY <1>8 DEF r, m

LEMMA ModBelow ==
    ASSUME NEW a \in Int, - SeqSpace <= a, a < 0
    PROVE  a % SeqSpace = a + SeqSpace
<1>1. SeqSpace \in Nat \ {0} BY Sizes
<1>2. a + SeqSpace \in 0 .. SeqSpace - 1 BY <1>1
<1>3. a = ((-1) * SeqSpace) + (a + SeqSpace) BY <1>1
<1> QED BY <1>2, <1>3, ModUnique

-----------------------------------------------------------------------------
(* What the server waits for.                                              *)

LEMMA Least ==
    ASSUME NEW T \in SUBSET Nat, T # {}
    PROVE  \E x \in T : \A y \in T : x <= y
<1>1. PICK x \in T : \A y \in T : <<y, x>> \notin OpToRel(<, Nat)
  BY NatLessThanWellFounded, WFMin
<1>2. \A y \in T : y \in Nat /\ x \in Nat OBVIOUS
<1>3. \A y \in T : ~(y < x) BY <1>1, <1>2 DEF OpToRel
<1> QED BY <1>2, <1>3

FirstMissing(bytes) ==
    CHOOSE i \in Places : /\ bytes[i] = None \/ i = StreamLen + Window
                          /\ \A j \in 0 .. i - 1 : bytes[j] # None

LEMMA Missing ==
    ASSUME NEW bytes
    PROVE  /\ FirstMissing(bytes) \in Places
           /\ bytes[FirstMissing(bytes)] = None \/ FirstMissing(bytes) = StreamLen + Window
           /\ \A j \in 0 .. FirstMissing(bytes) - 1 : bytes[j] # None
<1> DEFINE T == {i \in Places : bytes[i] = None \/ i = StreamLen + Window}
<1>1. StreamLen + Window \in Nat BY Sizes
<1>2. T \in SUBSET Nat /\ StreamLen + Window \in T BY <1>1 DEF Places
<1>3. PICK i \in T : \A j \in T : i <= j BY <1>2, Least
<1>4. \A j \in 0 .. i - 1 : j \in Places /\ j \notin T BY <1>1, <1>2, <1>3 DEF Places
<1>5. \A j \in 0 .. i - 1 : bytes[j] # None BY <1>4
<1>6. i \in Places /\ (bytes[i] = None \/ i = StreamLen + Window) OBVIOUS
<1> QED BY <1>5, <1>6 DEF FirstMissing

\* It never waits for an earlier byte than before.
LEMMA MissingGrows ==
    ASSUME NEW old, NEW new, \A p \in Places : old[p] # None => new[p] # None
    PROVE  FirstMissing(old) <= FirstMissing(new)
<1> DEFINE i == FirstMissing(old)
           j == FirstMissing(new)
<1>1. /\ i \in Places /\ \A p \in 0 .. i - 1 : old[p] # None
      /\ j \in Places /\ (new[j] = None \/ j = StreamLen + Window)
  BY Missing
<1>2. StreamLen + Window \in Nat BY Sizes
<1> SUFFICES i <= j OBVIOUS
<1> HIDE DEF i, j
<1>3. i \in Nat /\ i <= StreamLen + Window /\ j \in Nat BY <1>1, <1>2 DEF Places
<1>4. CASE j < i
  <2>1. j \in 0 .. i - 1 BY <1>3, <1>4
  <2>2. new[j] # None BY <1>1, <2>1
  <2>3. j = StreamLen + Window BY <1>1, <2>2
  <2> QED BY <1>2, <1>3, <1>4, <2>3
<1> QED BY <1>3, <1>4

LEMMA NextByte == RcvNxt = FirstMissing(received) /\ RcvNxt' = FirstMissing(received')
BY DEF RcvNxt, FirstMissing

-----------------------------------------------------------------------------
(* Segments of the stream, and what the strategies make of them.           *)

Piece(from, n) == [seq |-> Seq32(Isn + from), data |-> [i \in 1 .. n |-> from + i - 1],
                   ttl |-> FullTtl]

\* n bytes of the stream begin at from.
Within(from, n) == from \in Nat /\ n \in Nat \ {0} /\ from + n <= StreamLen

LEMMA PieceParts ==
    ASSUME NEW from, NEW n, Within(from, n)
    PROVE  LET s == Piece(from, n)
           IN  /\ s.seq \in 0 .. SeqSpace - 1 /\ s.ttl = FullTtl
               /\ s.data \in Seq(Bytes) /\ Len(s.data) = n
               /\ DOMAIN s.data = 1 .. n
               /\ \A i \in 1 .. n : /\ s.data[i] = from + i - 1
                                    /\ s.data[i] \in 0 .. StreamLen - 1
<1>1. Isn + from \in Int BY Sizes DEF Within
<1>2. Seq32(Isn + from) \in 0 .. SeqSpace - 1 BY <1>1, ModRange DEF Seq32
<1>3. \A i \in 1 .. n : from + i - 1 \in 0 .. StreamLen - 1 BY Sizes DEF Within
<1>4. [i \in 1 .. n |-> from + i - 1] \in Seq(Bytes)
  <2>1. \A i \in 1 .. n : from + i - 1 \in Bytes BY <1>3 DEF Bytes
  <2> QED BY <2>1 DEF Within
<1>5. Len([i \in 1 .. n |-> from + i - 1]) = n BY DEF Within
<1> QED BY <1>2, <1>3, <1>4, <1>5 DEF Piece

\* A segment made of a number counted from another segment's.
LEMMA Renumbered ==
    ASSUME NEW a \in Int, NEW b \in Int
    PROVE  Seq32(Seq32(a) + b) = Seq32(a + b) /\ Seq32(Seq32(a)) = Seq32(a)
<1>1. Seq32(Seq32(a) + b) = Seq32(a + b) BY ModAdd DEF Seq32
<1>2. Seq32(a) \in 0 .. SeqSpace - 1 BY ModRange DEF Seq32
<1>3. Seq32(Seq32(a)) = Seq32(a) BY <1>2, ModSmall DEF Seq32
<1> QED BY <1>1, <1>3

LEMMA CutData ==
    ASSUME NEW from \in Nat, NEW n \in Nat, NEW lo \in 1 .. n, NEW hi \in lo .. n
    PROVE  SubSeq([i \in 1 .. n |-> from + i - 1], lo, hi)
               = [i \in 1 .. hi - lo + 1 |-> (from + lo - 1) + i - 1]
<1> DEFINE d == [i \in 1 .. n |-> from + i - 1]
           e == SubSeq(d, lo, hi)
<1>1. \A i \in lo .. hi : d[i] \in Nat OBVIOUS
<1>2. /\ e \in Seq(Nat) /\ Len(e) = hi - lo + 1
      /\ \A i \in 1 .. hi - lo + 1 : e[i] = d[lo + i - 1]
  <2> HIDE DEF d
  <2>1. lo \in Int /\ hi \in Int /\ lo <= hi OBVIOUS
  <2> QED BY <1>1, <2>1, SubSeqProperties
<1>3. \A i \in 1 .. hi - lo + 1 : d[lo + i - 1] = (from + lo - 1) + i - 1 OBVIOUS
<1> HIDE DEF e, d
<1>4. e = [i \in 1 .. hi - lo + 1 |-> e[i]] BY <1>2
<1>5. e = [i \in 1 .. hi - lo + 1 |-> (from + lo - 1) + i - 1] BY <1>2, <1>3, <1>4
<1> QED BY <1>5 DEF e, d

\* Split cuts a piece of the stream into two that meet, or leaves it alone.
LEMMA SplitPieces ==
    ASSUME NEW from, NEW n, Within(from, n), NEW at \in Int
    PROVE  Split(Piece(from, n), at) =
               IF 0 < at /\ at < n THEN {Piece(from, at), Piece(from + at, n - at)}
                                   ELSE {Piece(from, n)}
<1> DEFINE s == Piece(from, n)
           d == [i \in 1 .. n |-> from + i - 1]
<1>1. Len(s.data) = n /\ s.data = d /\ s.seq = Seq32(Isn + from) BY PieceParts DEF Piece
<1>2. CASE 0 < at /\ at < n
  <2>1. from \in Nat /\ n \in Nat /\ at \in 1 .. n /\ at + 1 \in 1 .. n BY <1>2 DEF Within
  <2>2. SubSeq(d, 1, at) = [i \in 1 .. at |-> from + i - 1]
    <3>1. SubSeq(d, 1, at) = [i \in 1 .. at - 1 + 1 |-> (from + 1 - 1) + i - 1]
      BY <2>1, CutData
    <3> QED BY <2>1, <3>1
  <2>3. SubSeq(d, at + 1, n) = [i \in 1 .. n - at |-> (from + at) + i - 1]
    <3>1. SubSeq(d, at + 1, n) = [i \in 1 .. n - (at + 1) + 1 |-> (from + (at + 1) - 1) + i - 1]
      BY <2>1, CutData
    <3> QED BY <2>1, <3>1
  <2>4. Isn + from \in Int /\ (Isn + from) + at = Isn + (from + at) BY <2>1, Sizes
  <2>5. Seq32(s.seq) = Seq32(Isn + from) /\ Seq32(s.seq + at) = Seq32(Isn + (from + at))
    BY <1>1, <2>1, <2>4, Renumbered
  <2>6. Segment(s.seq, SubSeq(d, 1, at)) = Piece(from, at) BY <2>2, <2>5 DEF Segment, Piece
  <2>7. Segment(s.seq + at, SubSeq(d, at + 1, n)) = Piece(from + at, n - at)
    BY <2>3, <2>5 DEF Segment, Piece
  <2> HIDE DEF s, d
  <2> QED BY <1>1, <1>2, <2>6, <2>7 DEF Split, s
<1>3. CASE ~(0 < at /\ at < n) BY <1>1, <1>3 DEF Split
<1> QED BY <1>2, <1>3

Genuine(t) == \E from, n \in 0 .. StreamLen : Within(from, n) /\ t = Piece(from, n)

LEMMA PieceGenuine == ASSUME NEW from, NEW n, Within(from, n) PROVE Genuine(Piece(from, n))
<1>1. from \in 0 .. StreamLen /\ n \in 0 .. StreamLen BY Sizes DEF Within
<1> QED BY <1>1 DEF Genuine

\* A decoy that keeps its number and one that does not.
LEMMA DecoyParts ==
    ASSUME NEW from, NEW n, Within(from, n),
           NEW t \in {FakeTtlDecoy(Piece(from, n)), FakeBadSeqDecoy(Piece(from, n))}
    PROVE  /\ t.data \in Seq(Bytes) /\ Len(t.data) = n /\ DOMAIN t.data = 1 .. n
           /\ t.seq \in 0 .. SeqSpace - 1
           /\ t = FakeTtlDecoy(Piece(from, n)) => t.ttl = FakeTtl
           /\ t = FakeBadSeqDecoy(Piece(from, n)) =>
                  t.ttl = FullTtl /\ t.seq = Seq32(Isn + from + BadSeqIncrement)
<1> DEFINE s == Piece(from, n)
           d == Renamed(s.data)
<1>1. /\ s.seq \in 0 .. SeqSpace - 1 /\ s.ttl = FullTtl /\ Len(s.data) = n
      /\ \A i \in 1 .. n : s.data[i] \in 0 .. StreamLen - 1
      /\ s.seq = Seq32(Isn + from)
  BY PieceParts DEF Piece
<1>2. n \in Nat /\ from \in Nat BY DEF Within
<1>3. s = [seq |-> s.seq, data |-> s.data, ttl |-> s.ttl] BY DEF Piece
<1>4. d \in Seq(Bytes) /\ Len(d) = n /\ DOMAIN d = 1 .. n
  <2> HIDE DEF s
  <2>1. \A i \in 1 .. n :
            (IF s.data[i] \in NameAt .. NameAt + NameLen - 1 THEN Decoy ELSE s.data[i]) \in Bytes
    BY <1>1 DEF Bytes
  <2> QED BY <1>1, <1>2, <2>1 DEF Renamed
<1>5. Seq32(s.seq + BadSeqIncrement) = Seq32(Isn + from + BadSeqIncrement)
      /\ Seq32(s.seq + BadSeqIncrement) \in 0 .. SeqSpace - 1
  <2>1. Isn + from \in Int /\ BadSeqIncrement \in Int BY <1>2, Sizes
  <2>2. Isn + from + BadSeqIncrement \in Int BY <2>1
  <2> HIDE DEF s
  <2> QED BY <1>1, <2>1, <2>2, Renumbered, ModRange DEF Seq32
<1>6. CASE t = FakeTtlDecoy(s)
  <2> HIDE DEF s, d
  <2>1. t = [seq |-> s.seq, data |-> d, ttl |-> FakeTtl] BY <1>3, <1>6 DEF FakeTtlDecoy, d
  <2>2. CASE t = FakeBadSeqDecoy(s)
    <3>1. t = [seq |-> Seq32(s.seq + BadSeqIncrement), data |-> d, ttl |-> s.ttl]
      BY <2>2 DEF FakeBadSeqDecoy, Segment, d
    <3> QED BY <1>1, <1>4, <1>5, <2>1, <3>1 DEF s
  <2>3. CASE t # FakeBadSeqDecoy(s) BY <1>1, <1>4, <2>1, <2>3 DEF s
  <2> QED BY <2>2, <2>3
<1>7. CASE t = FakeBadSeqDecoy(s) /\ t # FakeTtlDecoy(s)
  <2> HIDE DEF s, d
  <2>1. t = [seq |-> Seq32(s.seq + BadSeqIncrement), data |-> d, ttl |-> s.ttl]
    BY <1>7 DEF FakeBadSeqDecoy, Segment, d
  <2> QED BY <1>1, <1>4, <1>5, <1>7, <2>1 DEF s
<1> QED BY <1>6, <1>7

\* Every output is a piece of the stream, or a decoy of the strategy's kind; that of
\* fake_badseq is made of a segment that begins the stream.
LEMMA OutputForms ==
    ASSUME NEW from, NEW n, Within(from, n), NEW t \in Outputs(Piece(from, n))
    PROVE  \/ Genuine(t)
           \/ strategy.kind = "fake_ttl" /\ t = FakeTtlDecoy(Piece(from, n))
           \/ strategy.kind = "fake_badseq" /\ from = 0 /\ t = FakeBadSeqDecoy(Piece(from, n))
<1> DEFINE s == Piece(from, n)
<1>1. Genuine(s) BY PieceGenuine
<1>2. SplitPos \in Int /\ SniSplitAt \in Int BY Sizes DEF SniSplitAt
<1>3. \A at \in Int : \A u \in Split(s, at) : Genuine(u)
  <2> SUFFICES ASSUME NEW at \in Int, NEW u \in Split(s, at) PROVE Genuine(u) OBVIOUS
  <2>1. CASE 0 < at /\ at < n
    <3>1. u \in {Piece(from, at), Piece(from + at, n - at)} BY <2>1, SplitPieces
    <3>2. Within(from, at) /\ Within(from + at, n - at) BY <2>1, Sizes DEF Within
    <3> QED BY <3>1, <3>2, PieceGenuine
  <2>2. CASE ~(0 < at /\ at < n) BY <1>1, <2>2, SplitPieces
  <2> QED BY <2>1, <2>2
<1>4. strategy.kind = "fake_badseq" /\ Taken(s) => from = 0
  <2>1. IsHello(s) => s.data[1] = 0 BY DEF IsHello
  <2>2. s.data[1] = from
    <3>1. s.data[1] = from + 1 - 1 BY PieceParts DEF Within
    <3> QED BY <3>1 DEF Within
  <2> QED BY <2>1, <2>2 DEF Taken
<1> HIDE DEF s
<1> QED BY <1>1, <1>2, <1>3, <1>4 DEF Outputs, WithDecoy, s

LEMMA Transmitted ==
    ASSUME NEW from \in Nat, mss \in Nat \ {0}, TransmitFrom(from)
    PROVE  \E n \in Nat : /\ Within(from, n)
                          /\ flight' = flight \cup Outputs(Piece(from, n))
                          /\ HelloLen <= mss /\ from = 0 => HelloLen <= n
<1>1. PICK end \in {HelloLen, StreamLen} :
          LET to == IF end < from + mss THEN end ELSE from + mss
          IN  /\ from < to
              /\ flight' = flight \cup Outputs([seq |-> (Isn + from) % SeqSpace,
                               data |-> [i \in 1 .. to - from |-> from + i - 1], ttl |-> FullTtl])
  BY DEF TransmitFrom
<1> DEFINE to == IF end < from + mss THEN end ELSE from + mss
<1>2. end \in Nat /\ HelloLen <= end /\ end <= StreamLen BY Sizes
<1>3. from < to /\ to \in Nat /\ to <= end BY <1>1, <1>2
<1>4. flight' = flight \cup Outputs(Piece(from, to - from)) BY <1>1 DEF Piece, Seq32
<1>5. Within(from, to - from) BY <1>2, <1>3, Sizes DEF Within
<1>6. HelloLen <= mss /\ from = 0 => HelloLen <= to - from BY <1>2, Sizes
<1>7. to - from \in Nat BY <1>3
<1> QED BY <1>4, <1>5, <1>6, <1>7

\* A packet has a byte of the stream where it belongs, and the client's TTL.
Carries(t, p) ==
    /\ t.ttl = FullTtl
    /\ \E i \in DOMAIN t.data : t.data[i] = p /\ t.seq = Seq32(Isn + p - (i - 1))

LEMMA PieceCarries ==
    ASSUME NEW from, NEW n, Within(from, n), NEW p \in from .. from + n - 1
    PROVE  Carries(Piece(from, n), p)
<1> DEFINE s == Piece(from, n)
           i == p - from + 1
<1>1. from \in Nat /\ n \in Nat /\ Isn \in Int BY Sizes DEF Within
<1>2. i \in 1 .. n /\ from + i - 1 = p /\ Isn + p - (i - 1) = Isn + from BY <1>1
<1>3. /\ s.ttl = FullTtl /\ DOMAIN s.data = 1 .. n /\ s.seq = Seq32(Isn + from)
      /\ \A k \in 1 .. n : s.data[k] = from + k - 1
  BY PieceParts DEF Piece
<1> HIDE DEF s, i
<1> QED BY <1>2, <1>3 DEF Carries, s

\* No strategy drops a byte: what process or process_forced makes of a segment has each
\* one, where it belongs and with a TTL that reaches the server, so that sending again
\* suffices.
THEOREM NothingDropped ==
    ASSUME NEW from, NEW n, Within(from, n), NEW p \in from .. from + n - 1
    PROVE  \E t \in Outputs(Piece(from, n)) : Carries(t, p)
<1> DEFINE s == Piece(from, n)
<1>1. Carries(s, p) BY PieceCarries
<1>2. SplitPos \in Int /\ SniSplitAt \in Int BY Sizes DEF SniSplitAt
<1>3. \A at \in Int : \E t \in Split(s, at) : Carries(t, p)
  <2> SUFFICES ASSUME NEW at \in Int PROVE \E t \in Split(s, at) : Carries(t, p) OBVIOUS
  <2>1. CASE 0 < at /\ at < n
    <3>1. Split(s, at) = {Piece(from, at), Piece(from + at, n - at)} BY <2>1, SplitPieces
    <3>2. /\ Within(from, at) /\ Within(from + at, n - at)
          /\ p \in from .. from + at - 1 \/ p \in from + at .. (from + at) + (n - at) - 1
      BY <2>1, Sizes DEF Within
    <3>3. Carries(Piece(from, at), p) \/ Carries(Piece(from + at, n - at), p)
      BY <3>2, PieceCarries
    <3> HIDE DEF s
    <3> QED BY <3>1, <3>3
  <2>2. CASE ~(0 < at /\ at < n)
    <3>1. Split(s, at) = {s} BY <2>2, SplitPieces
    <3> QED BY <1>1, <3>1
  <2> QED BY <2>1, <2>2
<1> HIDE DEF s
<1>4. s \in {s} /\ \A d : s \in WithDecoy(d, s) BY DEF WithDecoy
<1> QED BY <1>1, <1>2, <1>3, <1>4 DEF Outputs, s

-----------------------------------------------------------------------------
(* The types.                                                              *)

LEMMA TypeInit == Init => TypeOK
<1> SUFFICES ASSUME Init PROVE TypeOK OBVIOUS
<1>1. 0 \in 0 .. RcvNxt
  <2>1. RcvNxt \in Places BY Missing, NextByte
  <2> QED BY <2>1, Sizes DEF Places
<1> QED BY <1>1 DEF Init, TypeOK

LEMMA TypeTransmit == TypeOK /\ Transmit => TypeOK'
<1> SUFFICES ASSUME TypeOK, Transmit PROVE TypeOK' OBVIOUS
<1>1. RcvNxt \in Places /\ mss \in Nat \ {0} BY Missing, NextByte, StreamAssumption DEF TypeOK
<1>2. acked \in Nat BY <1>1, Sizes DEF TypeOK, Places
<1>3. PICK from \in Nat : TransmitFrom(from) BY <1>2, Sizes DEF Transmit
<1>4. PICK n \in Nat : Within(from, n) /\ flight' = flight \cup Outputs(Piece(from, n))
  BY <1>1, <1>3, Transmitted
<1>5. UNCHANGED <<strategy, mss, acked, received>> BY <1>3 DEF TransmitFrom
<1>6. RcvNxt' = RcvNxt BY <1>5, NextByte
<1>7. ASSUME NEW t \in Outputs(Piece(from, n))
      PROVE  /\ t.seq \in 0 .. SeqSpace - 1 /\ t.data \in Seq(Bytes) \ {<<>>}
             /\ t.ttl \in {FakeTtl, FullTtl}
  <2>1. CASE Genuine(t)
    <3>1. PICK f, m \in 0 .. StreamLen : Within(f, m) /\ t = Piece(f, m) BY <2>1 DEF Genuine
    <3>2. /\ t.seq \in 0 .. SeqSpace - 1 /\ t.ttl = FullTtl
          /\ t.data \in Seq(Bytes) /\ Len(t.data) = m
      BY <3>1, PieceParts
    <3>3. t.data # <<>> BY <3>1, <3>2 DEF Within
    <3> QED BY <3>2, <3>3
  <2>2. CASE t \in {FakeTtlDecoy(Piece(from, n)), FakeBadSeqDecoy(Piece(from, n))}
    <3>1. /\ t.data \in Seq(Bytes) /\ Len(t.data) = n /\ t.seq \in 0 .. SeqSpace - 1
          /\ t.ttl \in {FakeTtl, FullTtl}
      BY <1>4, <2>2, DecoyParts
    <3>2. t.data # <<>> BY <1>4, <3>1 DEF Within
    <3> QED BY <3>1, <3>2
  <2> QED BY <1>4, <2>1, <2>2, OutputForms
<1> QED BY <1>4, <1>5, <1>6, <1>7 DEF TypeOK

LEMMA TypeDeliver == ASSUME TypeOK, NEW s \in flight, Deliver(s) PROVE TypeOK'
<1>1. s.data \in Seq(Bytes) BY DEF TypeOK
<1>2. ASSUME NEW p \in Places PROVE received'[p] \in Bytes \cup {None}
  <2>1. CASE received[p] = None /\ \E i \in Fits(s) : Place(s, i) = p
    <3> DEFINE i == CHOOSE i \in Fits(s) : Place(s, i) = p
    <3>1. received'[p] = s.data[i] BY <2>1 DEF Deliver
    <3>2. i \in DOMAIN s.data BY <2>1 DEF Fits
    <3> HIDE DEF i
    <3> QED BY <1>1, <3>1, <3>2
  <2>2. CASE ~(received[p] = None /\ \E i \in Fits(s) : Place(s, i) = p)
    <3>1. received'[p] = received[p] BY <2>2 DEF Deliver
    <3> QED BY <3>1 DEF TypeOK
  <2> QED BY <2>1, <2>2
<1>3. received' \in [Places -> Bytes \cup {None}] BY <1>2 DEF Deliver
<1>4. \A p \in Places : received[p] # None => received'[p] # None BY DEF Deliver
<1>5. RcvNxt <= RcvNxt' BY <1>4, MissingGrows, NextByte
<1>6. RcvNxt \in Nat /\ RcvNxt' \in Nat BY Missing, NextByte DEF Places
<1>7. acked' \in 0 .. RcvNxt' BY <1>5, <1>6 DEF Deliver, TypeOK
<1> QED BY <1>3, <1>7 DEF Deliver, TypeOK

LEMMA TypeStep == TypeOK /\ [Next]_vars => TypeOK'
<1> SUFFICES ASSUME TypeOK, [Next]_vars PROVE TypeOK' OBVIOUS
<1>1. CASE Transmit BY <1>1, TypeTransmit
<1>2. ASSUME NEW s \in flight, Lose(s) PROVE TypeOK'
  <2>1. RcvNxt' = RcvNxt BY <1>2, NextByte DEF Lose
  <2> QED BY <1>2, <2>1 DEF Lose, TypeOK
<1>3. ASSUME NEW s \in flight, Deliver(s) PROVE TypeOK' BY <1>3, TypeDeliver
<1>4. CASE Acknowledge
  <2>1. RcvNxt' = RcvNxt BY <1>4, NextByte DEF Acknowledge
  <2>2. RcvNxt \in Nat BY Missing, NextByte DEF Places
  <2> QED BY <1>4, <2>1, <2>2 DEF Acknowledge, TypeOK
<1>5. CASE UNCHANGED vars
  <2>1. RcvNxt' = RcvNxt BY <1>5, NextByte DEF vars
  <2> QED BY <1>5, <2>1 DEF vars, TypeOK
<1> QED BY <1>1, <1>2, <1>3, <1>4, <1>5 DEF Next

\* Every packet the strategies make has a sequence number of 32 bits and data, and the
\* server never waits for less than it acknowledged.
THEOREM TypeCorrect == Spec => []TypeOK
BY TypeInit, TypeStep, PTL DEF Spec

-----------------------------------------------------------------------------
(* The server's window.                                                    *)

\* A byte of the stream goes where it belongs, or beyond every place if the server
\* is past it.
LEMMA PlaceTrue ==
    ASSUME NEW from, NEW n, Within(from, n), NEW i \in 1 .. n
    PROVE  Place(Piece(from, n), i) =
               IF RcvNxt <= from + i - 1 THEN from + i - 1 ELSE from + i - 1 + SeqSpace
<1> DEFINE q == from + i - 1
           b == i - 1 - Isn - RcvNxt
<1>1. RcvNxt \in Nat /\ RcvNxt <= StreamLen + Window BY Missing, NextByte, Sizes DEF Places
<1>2. /\ from \in Nat /\ i \in Nat /\ q \in Nat /\ q < StreamLen /\ q = from + i - 1
      /\ Isn \in Nat /\ SeqSpace \in Nat /\ StreamLen + Window < SeqSpace /\ StreamLen \in Nat
      /\ Window \in Nat
  BY Sizes DEF Within
<1>3. Isn + from \in Int /\ b \in Int /\ (Isn + from) + b = q - RcvNxt BY <1>1, <1>2
<1>4. Piece(from, n).seq = (Isn + from) % SeqSpace BY DEF Piece, Seq32
<1>5. (Isn + from) % SeqSpace \in Int BY <1>3, ModRange, Sizes
<1>6. Place(Piece(from, n), i) = RcvNxt + ((((Isn + from) % SeqSpace) + b) % SeqSpace)
  <2> DEFINE a == (Isn + from) % SeqSpace
  <2>1. a \in Int /\ Piece(from, n).seq = a BY <1>4, <1>5
  <2> HIDE DEF a
  <2>2. a + i - 1 - Isn - RcvNxt = a + b BY <1>1, <1>2, <2>1
  <2>3. Place(Piece(from, n), i) = RcvNxt + ((a + b) % SeqSpace) BY <2>1, <2>2 DEF Place
  <2> QED BY <2>3 DEF a
<1> HIDE DEF b, q
<1>7. Place(Piece(from, n), i) = RcvNxt + ((q - RcvNxt) % SeqSpace) BY <1>3, <1>6, ModAdd
<1>8. CASE RcvNxt <= q
  <2>1. q - RcvNxt \in 0 .. SeqSpace - 1 BY <1>1, <1>2, <1>8
  <2>2. (q - RcvNxt) % SeqSpace = q - RcvNxt BY <2>1, ModSmall
  <2> QED BY <1>1, <1>2, <1>7, <1>8, <2>2
<1>9. CASE ~(RcvNxt <= q)
  <2>1. q - RcvNxt \in Int /\ - SeqSpace <= q - RcvNxt /\ q - RcvNxt < 0 BY <1>1, <1>2, <1>9
  <2>2. (q - RcvNxt) % SeqSpace = q - RcvNxt + SeqSpace BY <2>1, ModBelow
  <2> QED BY <1>1, <1>2, <1>7, <1>9, <2>2
<1> QED BY <1>8, <1>9

LEMMA FitsTrue ==
    ASSUME NEW from, NEW n, Within(from, n)
    PROVE  Fits(Piece(from, n)) =
               {i \in 1 .. n : RcvNxt <= from + i - 1 /\ from + i - 1 < RcvNxt + Window}
           /\ \A i \in Fits(Piece(from, n)) : Place(Piece(from, n), i) = from + i - 1
<1> DEFINE s == Piece(from, n)
<1>1. DOMAIN s.data = 1 .. n BY PieceParts
<1>2. RcvNxt \in Nat BY Missing, NextByte DEF Places
<1> HIDE DEF s
<1>3. ASSUME NEW i \in 1 .. n
      PROVE  /\ i \in Fits(s) <=> RcvNxt <= from + i - 1 /\ from + i - 1 < RcvNxt + Window
             /\ i \in Fits(s) => Place(s, i) = from + i - 1
  <2>1. Place(s, i) = IF RcvNxt <= from + i - 1 THEN from + i - 1 ELSE from + i - 1 + SeqSpace
    BY PlaceTrue DEF s
  <2>2. from + i - 1 \in 0 .. StreamLen - 1 /\ from + i - 1 + SeqSpace \notin Places
        /\ from + i - 1 \in Places
    BY Sizes DEF Places, Within
  <2> QED BY <1>1, <1>2, <2>1, <2>2 DEF Fits
<1>4. Fits(s) \subseteq 1 .. n BY <1>1 DEF Fits
<1> QED BY <1>3, <1>4 DEF s

\* What a piece of the stream changes at the server.
LEMMA PieceDelivered ==
    ASSUME NEW from, NEW n, Within(from, n), Deliver(Piece(from, n))
    PROVE  \A p \in Places :
               IF /\ received[p] = None /\ from <= p /\ p < from + n
                  /\ RcvNxt <= p /\ p < RcvNxt + Window
               THEN received'[p] = p ELSE received'[p] = received[p]
<1> DEFINE s == Piece(from, n)
<1>1. \A i \in 1 .. n : s.data[i] = from + i - 1 BY PieceParts
<1>2. /\ Fits(s) = {i \in 1 .. n : RcvNxt <= from + i - 1 /\ from + i - 1 < RcvNxt + Window}
      /\ \A i \in Fits(s) : Place(s, i) = from + i - 1
  BY FitsTrue
<1>3. Deliver(s) OBVIOUS
<1> HIDE DEF s
<1> SUFFICES ASSUME NEW p \in Places
             PROVE  IF /\ received[p] = None /\ from <= p /\ p < from + n
                       /\ RcvNxt <= p /\ p < RcvNxt + Window
                    THEN received'[p] = p ELSE received'[p] = received[p]
  BY DEF s
<1>4. p \in Nat /\ from \in Nat /\ n \in Nat BY DEF Places, Within
<1>5. (\E i \in Fits(s) : Place(s, i) = p) <=>
          from <= p /\ p < from + n /\ RcvNxt <= p /\ p < RcvNxt + Window
  <2>1. ASSUME NEW i \in Fits(s), Place(s, i) = p
        PROVE  from <= p /\ p < from + n /\ RcvNxt <= p /\ p < RcvNxt + Window
    BY <1>2, <1>4, <2>1
  <2>2. ASSUME from <= p, p < from + n, RcvNxt <= p, p < RcvNxt + Window
        PROVE  \E i \in Fits(s) : Place(s, i) = p
    <3>1. p - from + 1 \in 1 .. n /\ from + (p - from + 1) - 1 = p BY <1>4, <2>2
    <3>2. p - from + 1 \in Fits(s) BY <1>2, <2>2, <3>1
    <3> QED BY <1>2, <3>1, <3>2
  <2> QED BY <2>1, <2>2
<1>6. CASE received[p] = None /\ \E i \in Fits(s) : Place(s, i) = p
  <2> DEFINE i == CHOOSE i \in Fits(s) : Place(s, i) = p
  <2>1. i \in Fits(s) /\ Place(s, i) = p BY <1>6
  <2>2. received'[p] = s.data[i] BY <1>3, <1>6 DEF Deliver
  <2> HIDE DEF i
  <2>3. s.data[i] = p BY <1>1, <1>2, <2>1
  <2> QED BY <1>5, <1>6, <2>2, <2>3
<1>7. CASE ~(received[p] = None /\ \E i \in Fits(s) : Place(s, i) = p)
  <2>1. received'[p] = received[p] BY <1>3, <1>7 DEF Deliver
  <2> QED BY <1>5, <1>7, <2>1
<1> QED BY <1>6, <1>7

\* The decoy of fake_badseq lies outside of every window.
Astray(t) ==
    /\ strategy.kind = "fake_badseq"
    /\ t.seq = Seq32(Isn + BadSeqIncrement)
    /\ DOMAIN t.data \subseteq 1 .. StreamLen

LEMMA AstrayMisses ==
    ASSUME strategy \in Strategies, NEW t, Astray(t)
    PROVE  Fits(t) = {}
<1> SUFFICES ASSUME NEW i \in 1 .. StreamLen PROVE Place(t, i) \notin Places
  BY DEF Fits, Astray
<1> DEFINE bad == BadSeqIncrement % SeqSpace
           a == (Isn + BadSeqIncrement) % SeqSpace
           b == i - 1 - Isn - RcvNxt
<1>1. RcvNxt \in Nat /\ RcvNxt <= StreamLen + Window BY Missing, NextByte, Sizes DEF Places
<1>2. /\ Isn \in Nat /\ BadSeqIncrement \in Int /\ SeqSpace \in Nat /\ StreamLen \in Nat
      /\ Window \in Nat /\ i \in Nat /\ 1 <= i /\ i <= StreamLen
  BY Sizes
<1>3. bad \in Nat /\ StreamLen + Window < bad /\ bad + StreamLen <= SeqSpace
  <2>1. bad \in 0 .. SeqSpace - 1 BY <1>2, ModRange
  <2> QED BY <2>1, DecoyAssumption DEF Astray
<1>4. Isn + BadSeqIncrement \in Int /\ b \in Int BY <1>1, <1>2
<1>5. a \in Int /\ t.seq = a BY <1>4, ModRange, Sizes DEF Astray, Seq32
<1>6. (a + b) % SeqSpace = ((Isn + BadSeqIncrement) + b) % SeqSpace BY <1>4, ModAdd
<1>7. (Isn + BadSeqIncrement) + b = BadSeqIncrement + (i - 1 - RcvNxt) BY <1>1, <1>2
<1>8. i - 1 - RcvNxt \in Int BY <1>1, <1>2
<1>9. (bad + (i - 1 - RcvNxt)) % SeqSpace = (BadSeqIncrement + (i - 1 - RcvNxt)) % SeqSpace
  BY <1>2, <1>8, ModAdd
<1> HIDE DEF bad, a
<1>10. bad + (i - 1 - RcvNxt) \in 0 .. SeqSpace - 1 BY <1>1, <1>2, <1>3
<1>11. (bad + (i - 1 - RcvNxt)) % SeqSpace = bad + (i - 1 - RcvNxt) BY <1>10, ModSmall
<1>12. t.seq + i - 1 - Isn - RcvNxt = a + b BY <1>1, <1>2, <1>5
<1> HIDE DEF b
<1>13. Place(t, i) = RcvNxt + (bad + (i - 1 - RcvNxt))
  BY <1>6, <1>7, <1>9, <1>11, <1>12 DEF Place
<1>14. Place(t, i) > StreamLen + Window BY <1>1, <1>2, <1>3, <1>13
<1> QED BY <1>1, <1>2, <1>3, <1>13, <1>14 DEF Places

-----------------------------------------------------------------------------
(* The stream arrives as it was sent.                                      *)

\* All that can reach the server's window is the client's own.
FlightInv == \A t \in flight : Genuine(t) \/ t.ttl < Distance \/ Astray(t)

StreamInv == TypeOK /\ FlightInv /\ StreamIntact

LEMMA StreamInit == Init => StreamInv
<1> SUFFICES ASSUME Init PROVE StreamInv OBVIOUS
<1>1. FlightInv /\ StreamIntact BY DEF Init, FlightInv, StreamIntact
<1> QED BY <1>1, TypeInit DEF StreamInv

LEMMA StreamTransmit == StreamInv /\ Transmit => FlightInv' /\ StreamIntact'
<1> SUFFICES ASSUME StreamInv, Transmit PROVE FlightInv' /\ StreamIntact' OBVIOUS
<1>1. RcvNxt \in Places /\ mss \in Nat \ {0} /\ strategy \in Strategies
  BY Missing, NextByte, StreamAssumption DEF StreamInv, TypeOK
<1>2. acked \in Nat BY <1>1, Sizes DEF StreamInv, TypeOK, Places
<1>3. PICK from \in Nat : TransmitFrom(from) BY <1>2, Sizes DEF Transmit
<1>4. PICK n \in Nat : Within(from, n) /\ flight' = flight \cup Outputs(Piece(from, n))
  BY <1>1, <1>3, Transmitted
<1>5. UNCHANGED <<strategy, mss, acked, received>> BY <1>3 DEF TransmitFrom
<1>6. ASSUME NEW t \in Outputs(Piece(from, n)) PROVE Genuine(t) \/ t.ttl < Distance \/ Astray(t)
  <2>1. CASE strategy.kind = "fake_ttl" /\ t = FakeTtlDecoy(Piece(from, n))
    <3>1. t.ttl = FakeTtl BY <1>4, <2>1, DecoyParts
    <3> QED BY <1>1, <2>1, <3>1, DecoyAssumption
  <2>2. CASE strategy.kind = "fake_badseq" /\ from = 0 /\ t = FakeBadSeqDecoy(Piece(from, n))
    <3>1. t.seq = Seq32(Isn + 0 + BadSeqIncrement) /\ DOMAIN t.data = 1 .. n
      BY <1>4, <2>2, DecoyParts
    <3>2. Isn + 0 + BadSeqIncrement = Isn + BadSeqIncrement /\ 1 .. n \subseteq 1 .. StreamLen
      BY <1>4, Sizes DEF Within
    <3> QED BY <2>2, <3>1, <3>2 DEF Astray
  <2> QED BY <1>4, <2>1, <2>2, OutputForms
<1>7. FlightInv' BY <1>4, <1>5, <1>6 DEF StreamInv, FlightInv, Genuine, Astray
<1> QED BY <1>5, <1>7 DEF StreamInv, StreamIntact

LEMMA StreamDeliver == ASSUME StreamInv, NEW s \in flight, Deliver(s) PROVE StreamIntact'
<1>1. CASE Genuine(s)
  <2>1. PICK from, n \in 0 .. StreamLen : Within(from, n) /\ s = Piece(from, n)
    BY <1>1 DEF Genuine
  <2>2. \A p \in Places : received'[p] = p \/ received'[p] = received[p]
    BY <2>1, PieceDelivered
  <2> QED BY <2>2 DEF StreamInv, StreamIntact
<1>2. CASE s.ttl < Distance
  <2>1. s.ttl \in Nat /\ Distance \in Nat BY Sizes DEF StreamInv, TypeOK
  <2> QED BY <1>2, <2>1 DEF Deliver
<1>3. CASE Astray(s)
  <2>1. Fits(s) = {} BY <1>3, AstrayMisses DEF StreamInv, TypeOK
  <2>2. \A p \in Places : received'[p] = received[p] BY <2>1 DEF Deliver
  <2> QED BY <2>2 DEF StreamInv, StreamIntact
<1> QED BY <1>1, <1>2, <1>3 DEF StreamInv, FlightInv

LEMMA StreamStep == StreamInv /\ [Next]_vars => StreamInv'
<1> SUFFICES ASSUME StreamInv, [Next]_vars PROVE StreamInv' OBVIOUS
<1>1. TypeOK' BY TypeStep DEF StreamInv
<1>2. CASE Transmit BY <1>1, <1>2, StreamTransmit DEF StreamInv
<1>3. ASSUME NEW s \in flight, Lose(s) PROVE StreamInv'
  BY <1>1, <1>3 DEF Lose, StreamInv, FlightInv, StreamIntact, Genuine, Astray
<1>4. ASSUME NEW s \in flight, Deliver(s) PROVE StreamInv'
  <2>1. StreamIntact' BY <1>4, StreamDeliver
  <2>2. UNCHANGED <<strategy, flight>> BY <1>4 DEF Deliver
  <2> QED BY <1>1, <2>1, <2>2 DEF StreamInv, FlightInv, Genuine, Astray
<1>5. CASE Acknowledge
  BY <1>1, <1>5 DEF Acknowledge, StreamInv, FlightInv, StreamIntact, Genuine, Astray
<1>6. CASE UNCHANGED vars
  BY <1>1, <1>6 DEF vars, StreamInv, FlightInv, StreamIntact, Genuine, Astray
<1> QED BY <1>2, <1>3, <1>4, <1>5, <1>6 DEF Next

\* The server never has a byte the client did not put there, whatever the strategy
\* makes of the segments and the network of what it makes.
THEOREM StreamSafe == Spec => []StreamIntact
<1>1. StreamInv => StreamIntact BY DEF StreamInv
<1> QED BY <1>1, StreamInit, StreamStep, PTL DEF Spec

-----------------------------------------------------------------------------
(* The name is divided.                                                    *)

\* What carries the first byte ends in the name, and nothing else begins before.
Divided(t) ==
    \E from, n \in 0 .. StreamLen :
        /\ Within(from, n) /\ t = Piece(from, n)
        /\ (from = 0 /\ n = NameAt + 1) \/ NameAt < from

\* The server has the first segment or nothing of it, so the client never begins
\* inside.
Dividing == strategy.kind \in {"sni", "sni_reverse"} /\ HelloLen <= mss /\ NameLen > 1

SplitInv ==
    Dividing =>
        /\ \A t \in flight : Divided(t)
        /\ \/ \A p \in 0 .. NameAt : received[p] = None
           \/ \A p \in 0 .. NameAt : received[p] # None
        /\ acked = 0 \/ NameAt < acked

LEMMA SplitInit == Init => SplitInv
<1>1. \A p \in 0 .. NameAt : p \in Places BY Sizes DEF Places
<1> QED BY <1>1 DEF Init, SplitInv

\* A segment that begins the stream has the whole ClientHello and is cut; one that
\* begins after the first byte of the name passes.
LEMMA OutputsDivided ==
    ASSUME NEW from, NEW n, Within(from, n), Dividing,
           (from = 0 /\ HelloLen <= n) \/ NameAt < from,
           NEW t \in Outputs(Piece(from, n))
    PROVE  Divided(t)
<1> DEFINE s == Piece(from, n)
<1>1. /\ from \in 0 .. StreamLen /\ n \in 0 .. StreamLen /\ n \in Nat \ {0} /\ from \in Nat
      /\ HelloLen \in Nat /\ NameAt + 1 \in Nat /\ NameAt + 1 \in Int
      /\ 0 < NameAt + 1 /\ NameAt + 1 < HelloLen
      /\ SniSplitAt = NameAt + 1
  BY Sizes DEF Within, SniSplitAt, Dividing
<1>2. Len(s.data) = n /\ s.data[1] = from
  <2>1. Len(s.data) = n /\ s.data[1] = from + 1 - 1 BY <1>1, PieceParts
  <2> QED BY <1>1, <2>1
<1> HIDE DEF s
<1>3. Taken(s) <=> from = 0 /\ n >= HelloLen BY <1>2 DEF Taken, IsHello, Dividing
<1>4. Outputs(s) = IF Taken(s) THEN Split(s, NameAt + 1) ELSE {s}
  BY <1>1 DEF Outputs, Dividing
<1>5. CASE from = 0 /\ HelloLen <= n
  <2>1. Split(s, NameAt + 1) =
            IF 0 < NameAt + 1 /\ NameAt + 1 < n
              THEN {Piece(from, NameAt + 1), Piece(from + (NameAt + 1), n - (NameAt + 1))}
              ELSE {Piece(from, n)}
    BY <1>1, SplitPieces DEF s
  <2>2. t \in {Piece(0, NameAt + 1), Piece(NameAt + 1, n - (NameAt + 1))}
    BY <1>1, <1>3, <1>4, <1>5, <2>1 DEF s
  <2>3. /\ Within(0, NameAt + 1) /\ NameAt + 1 \in 0 .. StreamLen /\ 0 \in 0 .. StreamLen
        /\ Within(NameAt + 1, n - (NameAt + 1)) /\ n - (NameAt + 1) \in 0 .. StreamLen
        /\ NameAt < NameAt + 1
    BY <1>1, <1>5, Sizes DEF Within
  <2>4. CASE t = Piece(0, NameAt + 1) BY <2>3, <2>4 DEF Divided
  <2>5. CASE t = Piece(NameAt + 1, n - (NameAt + 1)) BY <2>3, <2>5 DEF Divided
  <2> QED BY <2>2, <2>4, <2>5
<1>6. CASE NameAt < from
  <2>1. from # 0 BY <1>6, Sizes
  <2>2. t = Piece(from, n) BY <1>3, <1>4, <2>1 DEF s
  <2> QED BY <1>1, <1>6, <2>2 DEF Divided
<1> QED BY <1>5, <1>6

LEMMA SplitTransmit == TypeOK /\ SplitInv /\ Transmit => SplitInv'
<1> SUFFICES ASSUME TypeOK, SplitInv, Transmit, Dividing PROVE SplitInv'
  <2>1. Transmit => UNCHANGED <<strategy, mss>> BY DEF Transmit, TransmitFrom
  <2> QED BY <2>1 DEF SplitInv, Dividing
<1>1. RcvNxt \in Places /\ mss \in Nat \ {0} BY Missing, NextByte, StreamAssumption DEF TypeOK
<1>2. acked \in Nat BY <1>1, Sizes DEF TypeOK, Places
<1>3. PICK from \in {acked} \cup {k \in acked .. StreamLen - 1 : k % mss = 0} : TransmitFrom(from)
  BY DEF Transmit
<1>4. from \in Nat BY <1>2, Sizes
<1>5. PICK n \in Nat : /\ Within(from, n) /\ flight' = flight \cup Outputs(Piece(from, n))
                       /\ HelloLen <= mss /\ from = 0 => HelloLen <= n
  BY <1>1, <1>3, <1>4, Transmitted
<1>6. UNCHANGED <<strategy, mss, acked, received>> BY <1>3 DEF TransmitFrom
\* A full segment is longer than the ClientHello.
<1>7. from = 0 \/ NameAt < from
  <2>1. CASE from = acked BY <2>1 DEF SplitInv
  <2>2. CASE from % mss = 0 /\ from # 0
    <3>1. from >= mss
      <4>1. CASE from < mss
        <5>1. from % mss = from BY <1>1, <1>4, <4>1
        <5> QED BY <2>2, <5>1
      <4> QED BY <1>1, <1>4, <4>1
    <3> QED BY <1>1, <1>4, <3>1, Sizes DEF Dividing
  <2> QED BY <1>3, <2>1, <2>2
<1>8. \A t \in Outputs(Piece(from, n)) : Divided(t) BY <1>5, <1>7, OutputsDivided DEF Dividing
<1>9. \A t \in flight' : Divided(t)' BY <1>5, <1>8 DEF SplitInv, Divided
<1> QED BY <1>6, <1>9 DEF SplitInv

LEMMA SplitDeliver == ASSUME TypeOK, SplitInv, NEW s \in flight, Deliver(s) PROVE SplitInv'
<1> SUFFICES ASSUME Dividing PROVE SplitInv'
  <2>1. UNCHANGED <<strategy, mss>> BY DEF Deliver
  <2> QED BY <2>1 DEF SplitInv, Dividing
<1>1. UNCHANGED <<strategy, mss, flight, acked>> BY DEF Deliver
<1>2. PICK from, n \in 0 .. StreamLen :
          /\ Within(from, n) /\ s = Piece(from, n)
          /\ (from = 0 /\ n = NameAt + 1) \/ NameAt < from
  BY DEF SplitInv, Divided
<1>3. \A p \in Places :
          IF /\ received[p] = None /\ from <= p /\ p < from + n
             /\ RcvNxt <= p /\ p < RcvNxt + Window
          THEN received'[p] = p ELSE received'[p] = received[p]
  BY <1>2, PieceDelivered
<1>4. \A p \in 0 .. NameAt : p \in Places /\ p # None /\ p \in Nat
  <2>1. \A p \in 0 .. NameAt : p \in 0 .. StreamLen - 1 BY Sizes
  <2> QED BY <2>1, Sizes, SentinelAssumption DEF Places
<1>5. (\A p \in 0 .. NameAt : received'[p] = None) \/ (\A p \in 0 .. NameAt : received'[p] # None)
  <2>1. CASE NameAt < from
    <3>1. \A p \in 0 .. NameAt : ~(from <= p) BY <1>2, <2>1, Sizes
    <3>2. \A p \in 0 .. NameAt : received'[p] = received[p] BY <1>3, <1>4, <3>1
    <3> QED BY <3>2 DEF SplitInv
  <2>2. CASE from = 0 /\ n = NameAt + 1 /\ \A p \in 0 .. NameAt : received[p] = None
    <3>1. RcvNxt = 0
      <4>1. RcvNxt \in Nat /\ \A j \in 0 .. RcvNxt - 1 : received[j] # None
        BY Missing, NextByte DEF Places
      <4>2. received[0] = None BY <2>2, Sizes
      <4> QED BY <4>1, <4>2
    <3>2. \A p \in 0 .. NameAt : /\ from <= p /\ p < from + n
                                 /\ RcvNxt <= p /\ p < RcvNxt + Window
      BY <2>2, <3>1, Sizes, WindowAssumption
    <3>3. \A p \in 0 .. NameAt : received'[p] = p BY <1>3, <1>4, <2>2, <3>2
    <3> QED BY <1>4, <3>3
  <2>3. CASE \A p \in 0 .. NameAt : received[p] # None
    <3>1. \A p \in 0 .. NameAt : received'[p] = received[p] BY <1>3, <1>4, <2>3
    <3> QED BY <2>3, <3>1
  <2> QED BY <1>2, <2>1, <2>2, <2>3 DEF SplitInv
<1> QED BY <1>1, <1>5 DEF SplitInv, Divided

LEMMA SplitStep == TypeOK /\ SplitInv /\ [Next]_vars => SplitInv'
<1> SUFFICES ASSUME TypeOK, SplitInv, [Next]_vars PROVE SplitInv' OBVIOUS
<1>1. CASE Transmit BY <1>1, SplitTransmit
<1>2. ASSUME NEW s \in flight, Lose(s) PROVE SplitInv'
  BY <1>2 DEF Lose, SplitInv, Dividing, Divided
<1>3. ASSUME NEW s \in flight, Deliver(s) PROVE SplitInv' BY <1>3, SplitDeliver
<1>4. CASE Acknowledge
  <2>1. /\ RcvNxt \in Nat
        /\ received[RcvNxt] = None \/ RcvNxt = StreamLen + Window
        /\ \A j \in 0 .. RcvNxt - 1 : received[j] # None
    BY Missing, NextByte DEF Places
  <2>2. CASE \A p \in 0 .. NameAt : received[p] = None
    <3>1. received[0] = None BY <2>2, Sizes
    <3>2. RcvNxt = 0 BY <2>1, <3>1
    <3> QED BY <1>4, <3>2 DEF Acknowledge, SplitInv, Dividing, Divided
  <2>3. CASE \A p \in 0 .. NameAt : received[p] # None
    <3>1. NameAt < RcvNxt BY <2>1, <2>3, Sizes
    <3> QED BY <1>4, <3>1 DEF Acknowledge, SplitInv, Dividing, Divided
  <2>4. CASE ~Dividing BY <1>4, <2>4 DEF Acknowledge, SplitInv, Dividing
  <2> QED BY <2>2, <2>3, <2>4 DEF SplitInv
<1>5. CASE UNCHANGED vars BY <1>5 DEF vars, SplitInv, Dividing, Divided
<1> QED BY <1>1, <1>2, <1>3, <1>4, <1>5 DEF Next

\* With a cut inside the name no segment carries the whole of it, however often the
\* client sends again.
THEOREM NameDivided == Spec => []HostnameSplit
<1>1. SplitInv => HostnameSplit
  <2> SUFFICES ASSUME SplitInv, Dividing, NEW t \in flight,
                      \A i \in NameAt .. NameAt + NameLen - 1 : \E k \in DOMAIN t.data : t.data[k] = i
               PROVE  FALSE
    BY DEF HostnameSplit, Dividing
  <2>1. PICK from, n \in 0 .. StreamLen :
            /\ Within(from, n) /\ t = Piece(from, n)
            /\ (from = 0 /\ n = NameAt + 1) \/ NameAt < from
    BY DEF SplitInv, Divided
  <2>2. DOMAIN t.data = 1 .. n /\ \A k \in 1 .. n : t.data[k] = from + k - 1
    <3>1. Within(from, n) BY <2>1
    <3>2. /\ DOMAIN Piece(from, n).data = 1 .. n
          /\ \A k \in 1 .. n : Piece(from, n).data[k] = from + k - 1
      BY <3>1, PieceParts
    <3> QED BY <2>1, <3>2
  <2>3. NameAt \in NameAt .. NameAt + NameLen - 1 /\ NameAt + 1 \in NameAt .. NameAt + NameLen - 1
    BY Sizes DEF Dividing
  <2>4. PICK k \in 1 .. n : from + k - 1 = NameAt BY <2>2, <2>3
  <2>5. PICK l \in 1 .. n : from + l - 1 = NameAt + 1 BY <2>2, <2>3
  <2> QED BY <2>1, <2>4, <2>5, Sizes
<1> QED BY <1>1, TypeInit, TypeStep, SplitInit, SplitStep, PTL DEF Spec

=============================================================================
