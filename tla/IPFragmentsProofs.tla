--------------------------- MODULE IPFragmentsProofs ---------------------------
(***************************************************************************)
(* Cutting keeps a datagram whole, for every position, size and earlier    *)
(* fragmentation: the packets sent are in place and leave no gap.          *)
(***************************************************************************)
EXTENDS IPFragments, TLAPS

\* A packet of a datagram of n bytes that lies where it belongs.
Placed(f, n) ==
    /\ f.from = Begin(f)
    /\ End(f) <= n
    /\ ~f.more => End(f) = n

\* A set of packets has the last one, and every byte.
Covers(fs, n) ==
    /\ \E last \in fs : ~last.more
    /\ \A b \in 0 .. n - 1 : \E f \in fs : b \in Begin(f) .. End(f) - 1

Of(i) == {f \in sent : f.id = i}

Inv ==
    /\ TypeOK
    /\ flight \subseteq sent /\ got \subseteq sent
    /\ \A f \in sent : Placed(f, size[f.id])
    /\ \A i \in Ids : size[i] # 0 => Covers(Of(i), size[i])

\* What the strategy makes of a packet in its place is in place, and covers it.
LEMMA FragmentsPlaced ==
    ASSUME NEW p \in IPPacket, NEW n \in Nat, n <= 65515, Placed(p, n)
    PROVE  /\ Fragments(p) \subseteq IPPacket
           /\ \A f \in Fragments(p) : Placed(f, n) /\ f.id = p.id
  <1>1. CASE ~IsCut(p) BY <1>1 DEF Fragments
  <1>2. CASE IsCut(p)
    <2>1. /\ p.off \in Nat /\ p.off < 8192 /\ p.more \in BOOLEAN /\ p.from \in Nat /\ p.len \in Nat
          /\ p.id \in Ids
      BY DEF IPPacket
    <2>2. 8 * (Position \div 8) = Position /\ Position \in Nat \ {0}
      BY FragmentAssumption
    <2>3. p.off + Position \div 8 \in Nat /\ p.off + Position \div 8 < 8192
      BY <1>2, <2>1, <2>2 DEF Placed, End, IsCut
    <2>4. (p.off + Position \div 8) % 8192 = p.off + Position \div 8 BY <2>3
    <2>5. First(p) = [id |-> p.id, off |-> p.off, more |-> TRUE, from |-> p.from, len |-> Position]
      BY DEF First, Part
    <2>6. Second(p) = [id |-> p.id, off |-> p.off + Position \div 8, more |-> p.more,
                       from |-> p.from + Position, len |-> p.len - Position]
      BY <2>4 DEF Second, SecondOff, Part
    <2>7. First(p) \in IPPacket /\ Placed(First(p), n)
      BY <1>2, <2>1, <2>2, <2>5 DEF Placed, Begin, End, IsCut, IPPacket
    <2>8. Second(p) \in IPPacket
      BY <1>2, <2>1, <2>2, <2>3, <2>6 DEF IsCut, IPPacket
    <2>9. Placed(Second(p), n)
      <3> DEFINE o == p.off + Position \div 8
      <3>1. 8 * o = 8 * p.off + Position BY <2>1, <2>2
      <3>2. o \in Nat /\ o < 8192 BY <2>3
      <3> HIDE DEF o
      <3>3. Second(p) = [id |-> p.id, off |-> o, more |-> p.more,
                         from |-> p.from + Position, len |-> p.len - Position]
        BY <2>6 DEF o
      <3>4. QED BY <1>2, <2>1, <2>2, <3>1, <3>2, <3>3 DEF Placed, Begin, End, IsCut
    <2>10. First(p).id = p.id /\ Second(p).id = p.id BY <2>5, <2>6
    <2>11. Fragments(p) = {First(p), Second(p)} BY <1>2 DEF Fragments
    <2>12. QED BY <2>7, <2>8, <2>9, <2>10, <2>11
  <1>3. QED BY <1>1, <1>2

LEMMA FragmentsCover ==
    ASSUME NEW p \in IPPacket, NEW n \in Nat, n <= 65515, Placed(p, n)
    PROVE  /\ \A b \in Begin(p) .. End(p) - 1 : \E f \in Fragments(p) : b \in Begin(f) .. End(f) - 1
           /\ ~p.more => \E f \in Fragments(p) : ~f.more
  <1>1. CASE ~IsCut(p) BY <1>1 DEF Fragments
  <1>2. CASE IsCut(p)
    <2>1. p.off \in Nat /\ p.off < 8192 /\ p.from \in Nat /\ p.len \in Nat BY DEF IPPacket
    <2>2. 8 * (Position \div 8) = Position /\ Position \in Nat \ {0}
      BY FragmentAssumption
    <2>3. p.off + Position \div 8 \in Nat /\ p.off + Position \div 8 < 8192
      BY <1>2, <2>1, <2>2 DEF Placed, End, IsCut
    <2>4. (p.off + Position \div 8) % 8192 = p.off + Position \div 8 BY <2>3
    <2>5. First(p).off = p.off /\ First(p).len = Position BY DEF First, Part
    <2>6. /\ Second(p).off = p.off + Position \div 8 /\ Second(p).len = p.len - Position
          /\ Second(p).more = p.more
      BY <2>4 DEF Second, SecondOff, Part
    <2>7. Begin(First(p)) = 8 * p.off /\ End(First(p)) = 8 * p.off + Position
      BY <2>5 DEF Begin, End
    <2>8. Begin(Second(p)) = 8 * p.off + Position /\ End(Second(p)) = 8 * p.off + p.len
      <3>1. 8 * (p.off + Position \div 8) = 8 * p.off + Position BY <2>1, <2>2
      <3>2. Position + (p.len - Position) = p.len BY <2>1, <2>2
      <3>3. QED BY <2>1, <2>2, <2>6, <3>1, <3>2 DEF Begin, End
    <2>9. First(p) \in Fragments(p) /\ Second(p) \in Fragments(p) BY <1>2 DEF Fragments
    <2>10. ASSUME NEW b \in Begin(p) .. End(p) - 1
           PROVE  \E f \in Fragments(p) : b \in Begin(f) .. End(f) - 1
      <3>1. b \in 8 * p.off .. 8 * p.off + p.len - 1
        BY <2>1 DEF Begin, End
      <3>2. CASE b < 8 * p.off + Position
        <4>1. b \in Begin(First(p)) .. End(First(p)) - 1 BY <2>1, <2>2, <2>7, <3>1, <3>2
        <4>2. QED BY <2>9, <4>1
      <3>3. CASE ~(b < 8 * p.off + Position)
        <4>1. b \in Begin(Second(p)) .. End(Second(p)) - 1 BY <2>1, <2>2, <2>8, <3>1, <3>3
        <4>2. QED BY <2>9, <4>1
      <3>4. QED BY <3>2, <3>3
    <2>11. QED BY <2>6, <2>9, <2>10
  <1>3. QED BY <1>1, <1>2

\* What the sender's stack makes of a datagram.
LEMMA PiecesPlaced ==
    ASSUME NEW i \in Ids, NEW n \in Sizes, NEW cut \in Cuts(n)
    PROVE  /\ Pieces(i, n, cut) \subseteq IPPacket
           /\ \A p \in Pieces(i, n, cut) : Placed(p, n) /\ p.id = i
           /\ Covers(Pieces(i, n, cut), n)
  <1>1. n \in Nat /\ 8 <= n /\ n <= 65515 BY FragmentAssumption
  <1>2. CASE cut = 0
    <2> DEFINE p == [id |-> i, off |-> 0, more |-> FALSE, from |-> 0, len |-> n]
    <2>1. Pieces(i, n, cut) = {p} BY <1>2 DEF Pieces
    <2>2. p \in IPPacket /\ Placed(p, n) /\ p.id = i /\ Begin(p) = 0 /\ End(p) = n /\ ~p.more
      BY <1>1 DEF IPPacket, Placed, Begin, End
    <2> HIDE DEF p
    <2>3. QED BY <2>1, <2>2 DEF Covers
  <1>3. CASE cut # 0
    <2>1. PICK k \in 1 .. (n - 1) \div 8 : cut = 8 * k BY <1>3 DEF Cuts
    <2>2. k \in Nat /\ 1 <= k /\ k < 8192 /\ cut \div 8 = k /\ 8 * k < n BY <1>1, <2>1
    <2> DEFINE p == [id |-> i, off |-> 0, more |-> TRUE, from |-> 0, len |-> cut]
               q == [id |-> i, off |-> cut \div 8, more |-> FALSE, from |-> cut, len |-> n - cut]
    <2>3. Pieces(i, n, cut) = {p, q} BY <1>3 DEF Pieces
    <2>4. p \in IPPacket /\ Placed(p, n) /\ p.id = i /\ Begin(p) = 0 /\ End(p) = cut
      BY <1>1, <2>1, <2>2 DEF IPPacket, Placed, Begin, End
    <2>5. /\ q \in IPPacket /\ Placed(q, n) /\ q.id = i /\ Begin(q) = cut /\ End(q) = n
          /\ ~q.more
      BY <1>1, <2>1, <2>2 DEF IPPacket, Placed, Begin, End
    <2> HIDE DEF p, q
    <2>6. cut \in Nat BY <2>1, <2>2
    <2>7. QED BY <1>1, <2>3, <2>4, <2>5, <2>6 DEF Covers
  <1>4. QED BY <1>2, <1>3

LEMMA TreatedMembers ==
    ASSUME NEW pieces, NEW taken
    PROVE  \A f : f \in Treated(pieces, taken) <=> (\/ \E p \in taken : f \in Fragments(p)
                                                  \/ f \in pieces \ taken)
  BY DEF Treated

LEMMA InitInv == Init => Inv
  BY DEF Init, Inv, TypeOK

LEMMA SendInv ==
    ASSUME Inv, NEW i \in Ids, NEW n \in Sizes, NEW cut \in Cuts(n), Send(i, n, cut)
    PROVE  Inv'
  <1> DEFINE pieces == Pieces(i, n, cut)
  <1>1. PICK taken \in SUBSET pieces : /\ sent' = sent \cup Treated(pieces, taken)
                                       /\ flight' = flight \cup Treated(pieces, taken)
    BY DEF Send
  <1> DEFINE out == Treated(pieces, taken)
  <1>2. sent' = sent \cup out /\ flight' = flight \cup out BY <1>1
  <1>3. n \in Nat /\ 8 <= n /\ n <= 65515 BY FragmentAssumption
  <1>4. /\ pieces \subseteq IPPacket
        /\ \A p \in pieces : Placed(p, n) /\ p.id = i
        /\ Covers(pieces, n)
    BY PiecesPlaced
  <1> HIDE DEF pieces
  <1>17. \A f : f \in out <=> (\/ \E p \in taken : f \in Fragments(p)
                              \/ f \in pieces \ taken)
    BY TreatedMembers
  <1> HIDE DEF out
  <1>5. out \subseteq IPPacket /\ \A f \in out : Placed(f, n) /\ f.id = i
    <2>1. ASSUME NEW f \in out PROVE f \in IPPacket /\ Placed(f, n) /\ f.id = i
      <3>1. CASE f \in pieces \ taken BY <1>4, <3>1
      <3>2. CASE \E p \in taken : f \in Fragments(p)
        <4>1. PICK p \in taken : f \in Fragments(p) BY <3>2
        <4>2. p \in IPPacket /\ Placed(p, n) /\ p.id = i BY <1>4
        <4>3. n \in Nat /\ n <= 65515 BY <1>3
        <4>4. QED BY <4>1, <4>2, <4>3, FragmentsPlaced
      <3>3. QED BY <1>17, <3>1, <3>2
    <2>2. QED BY <2>1
  <1>6. Covers(out, n)
    <2>1. ASSUME NEW p \in pieces
          PROVE  /\ \A b \in Begin(p) .. End(p) - 1 : \E f \in out : b \in Begin(f) .. End(f) - 1
                 /\ ~p.more => \E f \in out : ~f.more
      <3>1. CASE p \in taken
        <4>1. Fragments(p) \subseteq out BY <1>17, <3>1
        <4>2. n \in Nat /\ n <= 65515 /\ p \in IPPacket /\ Placed(p, n) BY <1>3, <1>4
        <4>3. QED BY <4>1, <4>2, FragmentsCover
      <3>2. CASE p \notin taken
        <4>1. p \in out BY <1>17, <3>2
        <4>2. QED BY <4>1
      <3>3. QED BY <3>1, <3>2
    <2>2. QED BY <1>4, <2>1 DEF Covers
  <1>7. size' = [size EXCEPT ![i] = n] /\ got' = got /\ size[i] = 0 BY DEF Send
  <1>8. TypeOK' BY <1>2, <1>5, <1>7 DEF Inv, TypeOK
  <1>9. size'[i] = n /\ \A j \in Ids \ {i} : size'[j] = size[j] BY <1>7 DEF Inv, TypeOK
  <1>10. \A f \in sent : f.id # i
    <2>1. ASSUME NEW f \in sent, f.id = i PROVE FALSE
      <3>1. f \in IPPacket /\ Placed(f, 0) BY <1>7, <2>1 DEF Inv, TypeOK
      <3>2. f.off \in Nat /\ f.len \in Nat \ {0} BY <3>1 DEF IPPacket
      <3>3. 8 * f.off + f.len <= 0 BY <3>1 DEF Placed, End
      <3>4. QED BY <3>2, <3>3
    <2>2. QED BY <2>1
  <1>11. \A f \in sent' : Placed(f, size'[f.id])
    <2>1. ASSUME NEW f \in sent PROVE Placed(f, size'[f.id])
      <3>1. f.id \in Ids \ {i} BY <1>10 DEF Inv, TypeOK, IPPacket
      <3>2. QED BY <1>9, <3>1 DEF Inv
    <2>2. ASSUME NEW f \in out PROVE Placed(f, size'[f.id]) BY <1>5, <1>9
    <2>3. QED BY <1>2, <2>1, <2>2
  <1>12. ASSUME NEW j \in Ids, size'[j] # 0 PROVE Covers(Of(j)', size'[j])
    <2>1. CASE j = i
      <3>1. out \subseteq Of(i)' BY <1>2, <1>5 DEF Of
      <3>2. QED BY <1>6, <1>9, <2>1, <3>1 DEF Covers
    <2>2. CASE j # i
      <3>1. Covers(Of(j), size[j]) /\ size'[j] = size[j] BY <1>9, <1>12, <2>2 DEF Inv
      <3>2. Of(j) \subseteq Of(j)' BY <1>2 DEF Of
      <3>3. QED BY <3>1, <3>2 DEF Covers
    <2>3. QED BY <2>1, <2>2
  <1>13. flight' \subseteq sent' /\ got' \subseteq sent' BY <1>2, <1>7 DEF Inv
  <1>14. \A f \in sent' : Placed(f, size[f.id])' BY <1>11 DEF Placed, Begin, End
  <1>15. \A j \in Ids : (size[j] # 0 => Covers(Of(j), size[j]))'
    BY <1>12 DEF Covers, Begin, End
  <1>16. QED BY <1>8, <1>13, <1>14, <1>15 DEF Inv

\* Nothing else changes what was sent.
LEMMA QuietInv ==
    ASSUME Inv, UNCHANGED <<size, sent>>, flight' \subseteq sent, got' \subseteq sent
    PROVE  Inv'
  BY DEF Inv, TypeOK, Of, Covers, Placed, Begin, End

LEMMA StepInv == ASSUME Inv, [Next]_vars PROVE Inv'
  <1>1. CASE \E i \in Ids, n \in Sizes : \E cut \in Cuts(n) : Send(i, n, cut) BY <1>1, SendInv
  <1>2. CASE \E f \in flight : Lose(f) BY <1>2, QuietInv DEF Lose, Inv
  <1>3. CASE \E f \in flight : Deliver(f) BY <1>3, QuietInv DEF Deliver, Inv
  <1>4. CASE UNCHANGED vars BY <1>4, QuietInv DEF vars, Inv
  <1>5. QED BY <1>1, <1>2, <1>3, <1>4 DEF Next

LEMMA InvAlways == Spec => []Inv
  BY InitInv, StepInv, PTL DEF Spec

\* Every packet, and so everything the receiver has, is of its type: no fragment is
\* empty and no offset leaves the 13 bits of the header.
THEOREM TypeCorrect == Spec => []TypeOK
  <1>1. Inv => TypeOK BY DEF Inv
  <1>2. QED BY <1>1, InvAlways, PTL

\* No fragment misplaces a byte or ends a datagram early.
THEOREM FragmentsSafe == Spec => []ReassembledIntact
  <1>1. Inv => ReassembledIntact BY DEF Inv, ReassembledIntact, Placed
  <1>2. QED BY <1>1, InvAlways, PTL

\* No fragment is missing: what was not lost can be put together.
THEOREM FragmentsSuffice == Spec => []NothingMissing
  <1>1. ASSUME Inv, NEW i \in Ids, size[i] # 0, Of(i) \subseteq got PROVE Complete(i)
    <2>1. Covers(Of(i), size[i]) BY <1>1 DEF Inv
    <2>2. PICK last \in Of(i) : ~last.more BY <2>1 DEF Covers
    <2>3. End(last) = size[i] BY <1>1, <2>2 DEF Inv, Of, Placed
    <2>4. \A b \in 0 .. End(last) - 1 : \E f \in got : f.id = i /\ b \in Begin(f) .. End(f) - 1
      BY <1>1, <2>1, <2>3 DEF Covers, Of
    <2>5. last \in got /\ last.id = i BY <1>1, <2>2 DEF Of
    <2>6. QED BY <2>2, <2>4, <2>5 DEF Complete
  <1>2. Inv => NothingMissing BY <1>1 DEF NothingMissing, Of
  <1>3. QED BY <1>2, InvAlways, PTL

=============================================================================
