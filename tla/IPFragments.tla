----------------------------- MODULE IPFragments -----------------------------
(***************************************************************************)
(* dpiveil.strategies.advanced.IPFragment2Strategy: a UDP datagram to port *)
(* 443 leaves as two IP fragments.  The sender may have fragmented it      *)
(* itself; fragments are lost, repeated and reordered, and the receiver    *)
(* puts together what has one identification.                              *)
(*                                                                         *)
(* A packet is [id, off, more, from, len]: the fields of its IPv4 header   *)
(* (off in units of 8 bytes) and its data, which are the len bytes of the  *)
(* datagram that begin at from.  The strategy cuts data, it changes none.  *)
(***************************************************************************)
EXTENDS Integers

CONSTANTS
    Position,       \* ipfrag_pos
    Ids,            \* identifications of datagrams
    Sizes           \* bytes of a datagram, its UDP header included

ASSUME FragmentAssumption ==
    /\ Position \in Nat /\ 8 <= Position /\ Position % 8 = 0    \* IPFragment2Config
    /\ Sizes \subseteq Nat
    /\ \A n \in Sizes : 8 <= n /\ n <= 65515                  \* what an IPv4 packet can hold

VARIABLES
    size,           \* size[i]: bytes of datagram i; 0 before it is sent
    sent,           \* history: everything the engine sent
    flight,         \* what is in the network
    got             \* what the receiver has

vars == <<size, sent, flight, got>>

IPPacket == [id : Ids, off : {o \in Nat : o < 8192}, more : BOOLEAN, from : Nat, len : Nat \ {0}]

TypeOK ==
    /\ size \in [Ids -> Sizes \cup {0}]
    /\ sent \subseteq IPPacket /\ flight \subseteq IPPacket /\ got \subseteq IPPacket

Init ==
    /\ size = [i \in Ids |-> 0]
    /\ sent = {} /\ flight = {} /\ got = {}

-----------------------------------------------------------------------------
(* IPFragment2Strategy._fragment.                                          *)

\* Mutated IsCut: a packet that ends at the position is cut, too.
IsCutAtEnd(p) == Position <= p.len

\* Nothing is cut that does not reach beyond the position.
IsCut(p) == Position < p.len

\* A packet with the header of p but for its flag and offset, and a part of its data.
Part(p, off, more, from, len) == [id |-> p.id, off |-> off, more |-> more, from |-> from, len |-> len]

\* reserved | 0x2000 | original_offset, and the payload up to the position
First(p) == Part(p, p.off, TRUE, p.from, Position)

\* Mutated SecondOff: the offset counts from this packet, not from the datagram.
SecondOffFromZero(p) == Position \div 8

SecondOff(p) == (p.off + Position \div 8) % 8192

\* Mutated Second: the flag is that of the first fragment.
SecondNotLast(p) == Part(p, SecondOff(p), TRUE, p.from + Position, p.len - Position)

\* (original_offset + split_at // 8) & 0x1FFF, original_more, and the rest
Second(p) == Part(p, SecondOff(p), p.more, p.from + Position, p.len - Position)

Fragments(p) == IF IsCut(p) THEN {First(p), Second(p)} ELSE {p}

-----------------------------------------------------------------------------
(* The sender, the network and the receiver.                               *)

\* Where the sender cuts a datagram of n bytes itself: nowhere, or at a unit.
Cuts(n) == {0} \cup {8 * k : k \in 1 .. (n - 1) \div 8}

\* What the sender's stack makes of datagram i.
Pieces(i, n, cut) ==
    IF cut = 0
      THEN {[id |-> i, off |-> 0, more |-> FALSE, from |-> 0, len |-> n]}
      ELSE {[id |-> i, off |-> 0, more |-> TRUE, from |-> 0, len |-> cut],
            [id |-> i, off |-> cut \div 8, more |-> FALSE, from |-> cut, len |-> n - cut]}

\* What leaves when the strategy takes some of the pieces for UDP to port 443.
Treated(pieces, taken) == (UNION {Fragments(p) : p \in taken}) \cup (pieces \ taken)

\* A datagram is sent and its pieces pass the strategy. One that is not the first
\* has no UDP header and passes by, unless its data look like one to port 443.
Send(i, n, cut) ==
    /\ size[i] = 0
    /\ size' = [size EXCEPT ![i] = n]
    /\ \E taken \in SUBSET Pieces(i, n, cut) :
         /\ \A p \in Pieces(i, n, cut) : p.off = 0 => p \in taken
         /\ sent' = sent \cup Treated(Pieces(i, n, cut), taken)
         /\ flight' = flight \cup Treated(Pieces(i, n, cut), taken)
    /\ UNCHANGED got

Lose(f) == flight' = flight \ {f} /\ UNCHANGED <<size, sent, got>>

\* The fragment may come again later.
Deliver(f) == got' = got \cup {f} /\ UNCHANGED <<size, sent, flight>>

Next ==
    \/ \E i \in Ids, n \in Sizes : \E cut \in Cuts(n) : Send(i, n, cut)
    \/ \E f \in flight : Lose(f) \/ Deliver(f)

Spec == Init /\ [][Next]_vars

-----------------------------------------------------------------------------
(* Properties.                                                             *)

Begin(f) == 8 * f.off
End(f) == 8 * f.off + f.len

\* The receiver knows where datagram i ends, and has every byte up to there.
Complete(i) ==
    \E last \in got :
        /\ last.id = i /\ ~last.more
        /\ \A b \in 0 .. End(last) - 1 : \E f \in got : f.id = i /\ b \in Begin(f) .. End(f) - 1

\* Whatever was lost, repeated or reordered, and however the sender had cut the
\* datagram before: every byte lies where the sender had it, and the end the
\* receiver infers is the real one (_fragment, offsets and flags).
ReassembledIntact ==
    \A f \in got :
        /\ f.from = Begin(f)
        /\ End(f) <= size[f.id]
        /\ ~f.more => End(f) = size[f.id]

\* What is cut can be put together: a datagram of which nothing was lost is complete.
NothingMissing ==
    \A i \in Ids : size[i] # 0 /\ {f \in sent : f.id = i} \subseteq got => Complete(i)
=============================================================================
