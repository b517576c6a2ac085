--------------------------- MODULE ClassifierProofs ---------------------------
(***************************************************************************)
(* The parser is safe on every payload of any length: it uses no byte it   *)
(* was not given, and a name it finds is inside the payload.  And it is    *)
(* right on every well-formed ClientHello of any length.                   *)
(***************************************************************************)
EXTENDS Classifier, TLAPS

\* Where the parser stands relative to the ends it has read so far.
Bounds ==
    /\ pc \in {"extension", "list", "name"} => extensionsEnd <= Size
    /\ pc \in {"list", "name"} => dataAt + 5 <= extEnd /\ extEnd <= extensionsEnd
    /\ pc = "name" => dataAt + 2 <= namePos /\ listEnd <= extEnd

Inv == TypeOK /\ Bounds /\ NoOverread /\ NameInside

\* A byte is a byte, inside the payload or not.
LEMMA Bytewise ==
    ASSUME NEW p \in Seq(Byte), NEW i \in Nat
    PROVE  Len(p) \in Nat /\ ByteOf(p, i) \in Byte /\ ByteOf(p, i) \in Nat /\ WordOf(p, i) \in Nat
  <1>1. ASSUME NEW k \in Nat PROVE ByteOf(p, k) \in Byte
    <2>1. CASE k < Len(p)
      <3>1. k + 1 \in 1 .. Len(p) BY <2>1
      <3>2. p[k + 1] \in Byte BY <3>1
      <3>3. QED BY <2>1, <3>2 DEF ByteOf
    <2>2. CASE ~(k < Len(p))
      <3>1. 0 \in Byte BY DEF Byte
      <3>2. QED BY <2>2, <3>1 DEF ByteOf
    <2>3. QED BY <2>1, <2>2
  <1>2. ByteOf(p, i) \in Byte /\ ByteOf(p, i + 1) \in Byte BY <1>1
  <1>3. WordOf(p, i) \in Nat
    <2>1. \A a, b \in Byte : 256 * a + b \in Nat BY DEF Byte
    <2>2. QED BY <1>2, <2>1 DEF WordOf
  <1>4. ByteOf(p, i) \in Nat
    <2>1. \A b \in Byte : b \in Nat BY DEF Byte
    <2>2. QED BY <1>2, <2>1
  <1>5. QED BY <1>2, <1>3, <1>4

LEMMA Reading ==
    ASSUME TypeOK, NEW i \in Nat
    PROVE  Size \in Nat /\ At(i) \in Byte /\ Two(i) \in Nat
  <1>1. payload \in Seq(Byte) BY DEF TypeOK
  <1>2. QED BY <1>1, Bytewise DEF Size, At, Two

\* A stretch of the payload, or none of it, is in bounds.
LEMMA InBounds ==
    ASSUME NEW n \in Nat, NEW a \in Nat, NEW b \in Int, b < n
    PROVE  a .. b \subseteq 0 .. n - 1
  OBVIOUS

LEMMA InitInv == Init => Inv
  <1> SUFFICES ASSUME Init PROVE Inv OBVIOUS
  <1>1. payload \in Seq(Byte) BY ClassifierAssumption DEF Init
  <1>2. TypeOK BY <1>1 DEF Init, TypeOK
  <1>3. Bounds /\ NoOverread /\ NameInside BY DEF Init, Bounds, NoOverread, NameInside
  <1>4. QED BY <1>2, <1>3 DEF Inv

\* A return with a result that is inside keeps the invariant.
LEMMA ReturnInv ==
    ASSUME Inv, NEW hello \in BOOLEAN, NEW found \in [at : Nat, len : Nat] \cup {NoName},
           Return(hello, found), reads' \subseteq 0 .. Size - 1,
           found # NoName => found.at + found.len <= Size /\ found.at > 0
    PROVE  Inv'
  <1>1. reads' \subseteq Nat BY DEF Inv, TypeOK, Size
  <1>2. TypeOK' BY <1>1 DEF Inv, TypeOK, Return, loopVars
  <1>3. Size' = Size BY DEF Return, Size
  <1>4. QED BY <1>2, <1>3 DEF Inv, Return, Bounds, NoOverread, NameInside

LEMMA SkipInv ==
    ASSUME Inv, NEW width \in {1, 2}, NEW next \in {"ciphers", "compression", "extensions"},
           Skip(width, next)
    PROVE  Inv'
  <1>1. Size \in Nat /\ pos \in Nat /\ At(pos) \in Byte /\ Two(pos) \in Nat
    BY Reading DEF Inv, TypeOK
  <1>2. CASE ~Room(width)
    BY <1>2, ReturnInv DEF Skip
  <1>3. CASE Room(width)
    <2>1. reads' \subseteq 0 .. Size - 1 /\ pos' \in Nat
      <3>1. At(pos) \in Nat BY <1>1 DEF Byte
      <3>2. pos + width - 1 \in Int /\ pos + width - 1 < Size BY <1>1, <1>3 DEF Room
      <3>3. reads' = pos .. pos + width - 1 BY <1>3 DEF Skip
      <3>4. reads' \subseteq 0 .. Size - 1 BY <1>1, <3>2, <3>3, InBounds
      <3>5. pos' \in Nat BY <1>1, <1>3, <3>1 DEF Skip
      <3>6. QED BY <3>4, <3>5
    <2>2. TypeOK' BY <1>3, <2>1 DEF Inv, TypeOK, Skip, GoOn, loopVars
    <2>3. Size' = Size BY <1>3 DEF Skip, GoOn, Size
    <2>4. QED BY <1>3, <2>1, <2>2, <2>3 DEF Inv, Skip, GoOn, Bounds, NoOverread, NameInside
  <1>4. QED BY <1>2, <1>3

\* A step that goes on with bytes of the payload: only the bounds are left to show.
LEMMA GoOnInv ==
    ASSUME Inv, GoOn(pc'), reads' \subseteq 0 .. Size - 1, Bounds',
           pc' \in {"handshake", "session", "extension", "list", "name"},
           pos' \in Nat, extensionsEnd' \in Nat,
           dataAt' \in Nat, extEnd' \in Nat, namePos' \in Nat, listEnd' \in Nat
    PROVE  Inv'
  <1>1. reads' \subseteq Nat BY DEF Inv, TypeOK, Size
  <1>2. Size' = Size BY DEF GoOn, Size
  <1>3. TypeOK' BY <1>1 DEF Inv, TypeOK, GoOn
  <1>4. QED BY <1>2, <1>3 DEF Inv, GoOn, NoOverread, NameInside

LEMMA ReadRecordInv == ASSUME Inv, ReadRecord PROVE Inv'
  <1>1. Size \in Nat BY Reading DEF Inv
  <1>2. reads' \subseteq 0 .. Size - 1
    <2>1. reads' = {} \/ (reads' = {0, 3, 4} /\ Size >= 5)
      BY <1>1 DEF ReadRecord, Return, GoOn
    <2>2. QED BY <1>1, <2>1
  <1>3. CASE Return(FALSE, NoName) BY <1>2, <1>3, ReturnInv
  <1>4. CASE GoOn("handshake") /\ UNCHANGED <<pos, extensionsEnd, loopVars>>
    <2>1. Bounds' BY <1>4 DEF GoOn, Bounds
    <2>2. QED BY <1>2, <1>4, <2>1, GoOnInv DEF GoOn, Inv, TypeOK, loopVars
  <1>5. QED BY <1>3, <1>4 DEF ReadRecord

LEMMA ReadHandshakeInv == ASSUME Inv, ReadHandshake PROVE Inv'
  <1>1. Size \in Nat BY Reading DEF Inv
  <1>2. reads' \subseteq 0 .. Size - 1
    <2>1. reads' = {} \/ (reads' = {5} /\ Size >= 9)
      BY <1>1 DEF ReadHandshake, Return, GoOn
    <2>2. QED BY <1>1, <2>1
  <1>3. CASE Return(FALSE, NoName) \/ Return(TRUE, NoName) BY <1>2, <1>3, ReturnInv
  <1>4. CASE pos' = 9 + FixedLen /\ GoOn("session") /\ UNCHANGED <<extensionsEnd, loopVars>>
    <2>1. Bounds' BY <1>4 DEF GoOn, Bounds
    <2>2. QED
      BY <1>2, <1>4, <2>1, GoOnInv, ClassifierAssumption DEF GoOn, Inv, TypeOK, loopVars
  <1>5. QED BY <1>3, <1>4 DEF ReadHandshake

LEMMA ReadExtensionsInv == ASSUME Inv, ReadExtensions PROVE Inv'
  <1>1. Size \in Nat /\ pos \in Nat /\ Two(pos) \in Nat
    BY Reading DEF Inv, TypeOK
  <1>2. CASE ~Room(2) BY <1>2, ReturnInv DEF ReadExtensions
  <1>3. CASE Room(2)
    <2>1. reads' \subseteq 0 .. Size - 1 BY <1>1, <1>3 DEF ReadExtensions, Room
    <2>2. Size' = Size BY <1>3 DEF ReadExtensions, GoOn, Size
    <2>3. extensionsEnd' \in Nat /\ extensionsEnd' <= Size
      BY <1>1, <1>3 DEF ReadExtensions, Smaller
    <2>4. Bounds' BY <1>3, <2>2, <2>3 DEF ReadExtensions, GoOn, Bounds
    <2>5. QED BY <1>1, <1>3, <2>1, <2>3, <2>4, GoOnInv DEF ReadExtensions, GoOn, Inv, TypeOK, loopVars
  <1>4. QED BY <1>2, <1>3

LEMMA ReadExtensionInv == ASSUME Inv, ReadExtension PROVE Inv'
  <1>1. /\ Size \in Nat /\ pos \in Nat /\ extensionsEnd \in Nat /\ extensionsEnd <= Size
        /\ Two(pos) \in Nat /\ Two(pos + 2) \in Nat
    <2>1. pos \in Nat /\ pos + 2 \in Nat BY DEF Inv, TypeOK
    <2>2. QED BY <2>1, Reading DEF Inv, TypeOK, Bounds, ReadExtension
  <1>2. reads' \subseteq 0 .. Size - 1
    <2>1. reads' = {} \/ (reads' = pos .. pos + 3 /\ pos + 4 <= extensionsEnd)
      BY <1>1 DEF ReadExtension, Return, GoOn
    <2>2. QED BY <1>1, <2>1, InBounds
  <1>3. CASE Return(TRUE, NoName) BY <1>2, <1>3, ReturnInv
  <1>4. CASE /\ pos + 4 + Two(pos + 2) <= extensionsEnd
             /\ Two(pos + 2) >= 5
             /\ dataAt' = pos + 4
             /\ extEnd' = pos + 4 + Two(pos + 2)
             /\ GoOn("list")
             /\ UNCHANGED <<pos, extensionsEnd, namePos, listEnd>>
    <2>1. Size' = Size BY <1>4 DEF GoOn, Size
    <2>2. Bounds' BY <1>1, <1>4, <2>1 DEF GoOn, Bounds
    <2>3. QED BY <1>1, <1>2, <1>4, <2>2, GoOnInv DEF GoOn, Inv, TypeOK
  <1>5. CASE pos' = AfterExtension /\ GoOn("extension") /\ UNCHANGED <<extensionsEnd, loopVars>>
    <2>1. Size' = Size BY <1>5 DEF GoOn, Size
    <2>2. Bounds' BY <1>1, <1>5, <2>1 DEF GoOn, Bounds
    <2>3. pos' \in Nat
      <3>1. AfterExtension \in Nat BY <1>1 DEF AfterExtension
      <3>2. QED BY <1>5, <3>1
    <2>4. QED BY <1>1, <1>2, <1>5, <2>2, <2>3, GoOnInv DEF GoOn, Inv, TypeOK, loopVars
  <1>6. QED
    <2>1. CASE pos + 4 > extensionsEnd BY <1>3, <2>1 DEF ReadExtension
    <2>2. CASE ~(pos + 4 > extensionsEnd) /\ pos + 4 + Two(pos + 2) > extensionsEnd
      BY <1>3, <2>2 DEF ReadExtension
    <2>3. CASE ~(pos + 4 > extensionsEnd) /\ ~(pos + 4 + Two(pos + 2) > extensionsEnd)
      BY <1>1, <1>4, <1>5, <2>3 DEF ReadExtension
    <2>4. QED BY <2>1, <2>2, <2>3

LEMMA ReadListInv == ASSUME Inv, ReadList PROVE Inv'
  <1>1. /\ Size \in Nat /\ dataAt \in Nat /\ extEnd \in Nat /\ extensionsEnd \in Nat
        /\ extensionsEnd <= Size /\ dataAt + 5 <= extEnd /\ extEnd <= extensionsEnd
        /\ Two(dataAt) \in Nat
    BY Reading DEF Inv, TypeOK, Bounds, ReadList
  <1>2. reads' \subseteq 0 .. Size - 1 BY <1>1 DEF ReadList
  <1>3. listEnd' \in Nat /\ listEnd' <= extEnd /\ namePos' = dataAt + 2
    BY <1>1 DEF ReadList, Smaller
  <1>4. Size' = Size BY DEF ReadList, GoOn, Size
  <1>5. Bounds' BY <1>1, <1>3, <1>4 DEF ReadList, GoOn, Bounds
  <1>6. QED BY <1>1, <1>2, <1>3, <1>5, GoOnInv DEF ReadList, GoOn, Inv, TypeOK

LEMMA ReadNameInv == ASSUME Inv, ReadName PROVE Inv'
  <1>1. /\ Size \in Nat /\ dataAt \in Nat /\ extEnd \in Nat /\ extensionsEnd \in Nat
        /\ namePos \in Nat /\ listEnd \in Nat
        /\ extensionsEnd <= Size /\ extEnd <= extensionsEnd
        /\ listEnd <= extEnd /\ dataAt + 2 <= namePos
        /\ Two(namePos + 1) \in Nat
    <2>1. namePos \in Nat /\ namePos + 1 \in Nat BY DEF Inv, TypeOK
    <2>2. QED BY <2>1, Reading DEF Inv, TypeOK, Bounds, ReadName
  <1>2. reads' \subseteq 0 .. Size - 1
    <2>1. NameEnd \in Nat /\ NameEnd >= namePos + 3 BY <1>1 DEF NameEnd
    <2>2. \/ reads' = {}
          \/ reads' = namePos .. namePos + 2 /\ namePos + 3 <= listEnd
          \/ reads' = namePos .. NameEnd - 1 /\ NameEnd <= listEnd
      BY DEF ReadName, Contained
    <2>3. QED BY <1>1, <2>1, <2>2, InBounds
  <1>3. CASE pos' = extEnd /\ GoOn("extension") /\ UNCHANGED <<extensionsEnd, loopVars>>
    <2>1. Size' = Size BY <1>3 DEF GoOn, Size
    <2>2. Bounds' BY <1>1, <1>3, <2>1 DEF GoOn, Bounds
    <2>3. QED BY <1>1, <1>2, <1>3, <2>2, GoOnInv DEF GoOn, Inv, TypeOK, loopVars
  <1>4. CASE Contained(NameEnd) /\ namePos + 3 <= listEnd
             /\ Return(TRUE, IF \A i \in namePos + 3 .. NameEnd - 1 : At(i) < 128
                             THEN Place(namePos + 3, Two(namePos + 1)) ELSE NoName)
    <2> DEFINE found == Place(namePos + 3, Two(namePos + 1))
    <2>1. found \in [at : Nat, len : Nat] /\ found.at + found.len <= Size /\ found.at > 0
      BY <1>1, <1>4 DEF Place, Contained, NameEnd
    <2> HIDE DEF found
    <2>2. Return(TRUE, found) \/ Return(TRUE, NoName) BY <1>4 DEF found
    <2>3. QED BY <1>2, <2>1, <2>2, ReturnInv
  <1>5. CASE /\ namePos' = NameEnd
             /\ GoOn("name")
             /\ UNCHANGED <<pos, extensionsEnd, dataAt, extEnd, listEnd>>
    <2>1. Size' = Size BY <1>5 DEF GoOn, Size
    <2>2. namePos' \in Nat /\ dataAt + 2 <= namePos' BY <1>1, <1>5 DEF NameEnd
    <2>3. Bounds' BY <1>1, <1>5, <2>1, <2>2 DEF GoOn, Bounds, Inv, ReadName
    <2>4. QED BY <1>1, <1>2, <1>5, <2>2, <2>3, GoOnInv DEF GoOn, Inv, TypeOK
  <1>6. QED BY <1>3, <1>4, <1>5 DEF ReadName

LEMMA StepInv == ASSUME Inv, [Next]_vars PROVE Inv'
  <1>1. CASE Step
    <2>1. CASE SkipSession \/ SkipCiphers \/ SkipCompression
      BY <2>1, SkipInv DEF SkipSession, SkipCiphers, SkipCompression
    <2>2. QED
      BY <1>1, <2>1, ReadRecordInv, ReadHandshakeInv, ReadExtensionsInv, ReadExtensionInv,
         ReadListInv, ReadNameInv DEF Step
  <1>2. CASE UNCHANGED vars
    BY <1>2 DEF vars, loopVars, Inv, TypeOK, Bounds, NoOverread, NameInside, Size
  <1>3. QED BY <1>1, <1>2 DEF Next, Finished

LEMMA InvAlways == Spec => []Inv
  BY InitInv, StepInv, PTL DEF Spec

\* No payload makes the parser use a byte it does not have, so no packet ends the
\* divert thread here (classify_packet is called outside of run's try block).
THEOREM ParserSafe == Spec => []NoOverread
  <1>1. Inv => NoOverread BY DEF Inv
  <1>2. QED BY <1>1, InvAlways, PTL

\* A name the parser returns lies inside the payload (sni, sni_offset).
THEOREM NameSafe == Spec => []NameInside
  <1>1. Inv => NameInside BY DEF Inv
  <1>2. QED BY <1>1, InvAlways, PTL

-----------------------------------------------------------------------------
(* The parser advances.                                                    *)

\* A bound on the steps that are left: the parser never stands still, not over an
\* extension or a name of length 0.
StepsLeft ==
    CASE pc = "record" -> 3 * Size + 7
      [] pc = "handshake" -> 3 * Size + 6
      [] pc = "session" -> 3 * Size + 5
      [] pc = "ciphers" -> 3 * Size + 4
      [] pc = "compression" -> 3 * Size + 3
      [] pc = "extensions" -> 3 * Size + 2
      [] pc = "extension" -> 3 * (Size - pos) + 1
      [] pc = "list" -> 3 * (Size - pos)
      [] pc = "name" -> 3 * (Size - namePos) + 2
      [] OTHER -> 0

\* The positions stay before the ends that were read.
Ordered ==
    /\ pc \in {"extension", "list"} => pos <= extensionsEnd
    /\ pc \in {"list", "name"} => pos + 4 = dataAt
    /\ pc = "name" => namePos <= listEnd

Advances == StepsLeft' < StepsLeft /\ StepsLeft' \in Nat

LEMMA OrderedInit == Init => Ordered
BY DEF Init, Ordered

\* Every return is a last step.
LEMMA ReturnAdvances ==
    ASSUME Inv, Ordered, pc # "done", NEW hello, NEW found, Return(hello, found)
    PROVE  Advances /\ Ordered'
  <1>1. /\ Size \in Nat /\ pos \in Nat /\ extensionsEnd \in Nat /\ dataAt \in Nat
        /\ extEnd \in Nat /\ namePos \in Nat /\ listEnd \in Nat
    BY DEF Inv, TypeOK, Size
  <1>2. pc' = "done" BY DEF Return
  <1>3. StepsLeft' = 0 BY <1>2 DEF StepsLeft
  <1>4. StepsLeft > 0 /\ StepsLeft \in Nat
    <2>1. CASE pc = "extension"
      <3>1. pos <= extensionsEnd /\ extensionsEnd <= Size BY <2>1 DEF Inv, Bounds, Ordered
      <3>2. StepsLeft = 3 * (Size - pos) + 1 BY <2>1 DEF StepsLeft
      <3>3. QED BY <1>1, <3>1, <3>2
    <2>2. CASE pc = "list"
      <3>1. /\ extensionsEnd <= Size /\ pos + 4 = dataAt
            /\ dataAt + 5 <= extEnd /\ extEnd <= extensionsEnd
        BY <2>2 DEF Inv, Bounds, Ordered
      <3>2. StepsLeft = 3 * (Size - pos) BY <2>2 DEF StepsLeft
      <3>3. QED BY <1>1, <3>1, <3>2
    <2>3. CASE pc = "name"
      <3>1. /\ extensionsEnd <= Size /\ namePos <= listEnd
            /\ listEnd <= extEnd /\ extEnd <= extensionsEnd
        BY <2>3 DEF Inv, Bounds, Ordered
      <3>2. StepsLeft = 3 * (Size - namePos) + 2 BY <2>3 DEF StepsLeft
      <3>3. QED BY <1>1, <3>1, <3>2
    <2>4. CASE pc \in {"record", "handshake", "session", "ciphers", "compression", "extensions"}
      <3>1. \/ StepsLeft = 3 * Size + 7 \/ StepsLeft = 3 * Size + 6 \/ StepsLeft = 3 * Size + 5
            \/ StepsLeft = 3 * Size + 4 \/ StepsLeft = 3 * Size + 3 \/ StepsLeft = 3 * Size + 2
        BY <2>4 DEF StepsLeft
      <3>2. QED BY <1>1, <3>1
    <2>5. QED BY <2>1, <2>2, <2>3, <2>4 DEF Inv, TypeOK
  <1>5. QED BY <1>2, <1>3, <1>4 DEF Advances, Ordered

LEMMA HeadersAdvance ==
    ASSUME Inv, Ordered,
           \/ ReadRecord \/ ReadHandshake \/ SkipSession \/ SkipCiphers \/ SkipCompression
           \/ ReadExtensions
    PROVE  Advances /\ Ordered'
  <1>1. Size \in Nat /\ pos \in Nat /\ Two(pos) \in Nat
    BY Reading DEF Inv, TypeOK
  <1>2. CASE \E hello, found : Return(hello, found)
    <2>1. pc # "done"
      BY DEF ReadRecord, ReadHandshake, SkipSession, SkipCiphers, SkipCompression, ReadExtensions
    <2>2. QED BY <1>2, <2>1, ReturnAdvances
  <1>3. CASE \E next \in {"handshake", "session", "ciphers", "compression", "extensions"} :
                 GoOn(next) /\ StepsLeft' = StepsLeft - 1 /\ StepsLeft' \in Nat
                 /\ StepsLeft \in Nat
    <2>1. Ordered' BY <1>3 DEF GoOn, Ordered
    <2>2. Advances
      <3>1. StepsLeft \in Nat /\ StepsLeft' \in Nat /\ StepsLeft' = StepsLeft - 1 BY <1>3
      <3>2. QED BY <3>1 DEF Advances
    <2>3. QED BY <2>1, <2>2
  <1>4. CASE pc = "extensions" /\ Room(2) /\ ReadExtensions
    <2>1. /\ pc' = "extension" /\ pos' = pos + 2 /\ Size' = Size
          /\ extensionsEnd' = Smaller(pos + 2 + Two(pos), Size)
      BY <1>4 DEF ReadExtensions, GoOn, Size
    <2>2. pos + 2 <= Size BY <1>4 DEF Room
    <2>3. pos' <= extensionsEnd' BY <1>1, <2>1, <2>2 DEF Smaller
    <2>4. StepsLeft = 3 * Size + 2 BY <1>4 DEF StepsLeft
    <2>5. StepsLeft' = 3 * (Size - (pos + 2)) + 1 BY <2>1 DEF StepsLeft
    <2>6. Advances BY <1>1, <2>2, <2>4, <2>5 DEF Advances
    <2>7. QED BY <2>1, <2>3, <2>6 DEF Ordered
  <1>5. ASSUME ReadRecord PROVE Advances /\ Ordered'
    <2>1. CASE GoOn("handshake")
      BY <1>1, <1>3, <1>5, <2>1 DEF ReadRecord, GoOn, StepsLeft, Size
    <2>2. QED BY <1>2, <1>5, <2>1 DEF ReadRecord
  <1>6. ASSUME ReadHandshake PROVE Advances /\ Ordered'
    <2>1. CASE GoOn("session")
      BY <1>1, <1>3, <1>6, <2>1 DEF ReadHandshake, GoOn, StepsLeft, Size
    <2>2. QED BY <1>2, <1>6, <2>1 DEF ReadHandshake
  <1>7. ASSUME SkipSession PROVE Advances /\ Ordered'
    <2>1. CASE GoOn("ciphers")
      BY <1>1, <1>3, <1>7, <2>1 DEF SkipSession, GoOn, StepsLeft, Size
    <2>2. QED BY <1>2, <1>7, <2>1 DEF SkipSession, Skip
  <1>8. ASSUME SkipCiphers PROVE Advances /\ Ordered'
    <2>1. CASE GoOn("compression")
      BY <1>1, <1>3, <1>8, <2>1 DEF SkipCiphers, GoOn, StepsLeft, Size
    <2>2. QED BY <1>2, <1>8, <2>1 DEF SkipCiphers, Skip
  <1>9. ASSUME SkipCompression PROVE Advances /\ Ordered'
    <2>1. CASE GoOn("extensions")
      BY <1>1, <1>3, <1>9, <2>1 DEF SkipCompression, GoOn, StepsLeft, Size
    <2>2. QED BY <1>2, <1>9, <2>1 DEF SkipCompression, Skip
  <1>10. ASSUME ReadExtensions PROVE Advances /\ Ordered'
    BY <1>2, <1>4, <1>10 DEF ReadExtensions
  <1>11. QED BY <1>5, <1>6, <1>7, <1>8, <1>9, <1>10

LEMMA LoopsAdvance ==
    ASSUME Inv, Ordered, ReadExtension \/ ReadList \/ ReadName
    PROVE  Advances /\ Ordered'
  <1>1. /\ Size \in Nat /\ pos \in Nat /\ extensionsEnd \in Nat /\ dataAt \in Nat
        /\ extEnd \in Nat /\ namePos \in Nat /\ listEnd \in Nat
        /\ Two(pos + 2) \in Nat /\ Two(dataAt) \in Nat /\ Two(namePos + 1) \in Nat
        /\ extensionsEnd <= Size
    <2>1. pos + 2 \in Nat /\ dataAt \in Nat /\ namePos + 1 \in Nat BY DEF Inv, TypeOK
    <2>2. QED BY <2>1, Reading DEF Inv, TypeOK, Bounds, ReadExtension, ReadList, ReadName
  <1>2. CASE \E hello, found : Return(hello, found)
    <2>1. pc # "done" BY DEF ReadExtension, ReadList, ReadName
    <2>2. QED BY <1>2, <2>1, ReturnAdvances
  <1>3. ASSUME ReadExtension PROVE Advances /\ Ordered'
    <2>1. pc = "extension" /\ pos <= extensionsEnd BY <1>3 DEF ReadExtension, Ordered
    <2>2. StepsLeft = 3 * (Size - pos) + 1 BY <2>1 DEF StepsLeft
    <2>3. CASE /\ pos + 4 + Two(pos + 2) <= extensionsEnd
               /\ dataAt' = pos + 4 /\ GoOn("list") /\ UNCHANGED <<pos, extensionsEnd>>
      <3>1. pc' = "list" /\ Size' = Size BY <2>3 DEF GoOn, Size
      <3>2. StepsLeft' = 3 * (Size - pos) BY <2>3, <3>1 DEF StepsLeft
      <3>3. QED BY <1>1, <2>1, <2>2, <2>3, <3>1, <3>2 DEF Advances, Ordered
    <2>4. CASE /\ pos + 4 + Two(pos + 2) <= extensionsEnd
               /\ pos' = AfterExtension /\ GoOn("extension") /\ UNCHANGED extensionsEnd
      <3>1. pc' = "extension" /\ Size' = Size BY <2>4 DEF GoOn, Size
      <3>2. pos' = pos + 4 + Two(pos + 2) BY <2>4 DEF AfterExtension
      <3>3. StepsLeft' = 3 * (Size - pos') + 1 BY <3>1 DEF StepsLeft
      <3>4. QED BY <1>1, <2>1, <2>2, <2>4, <3>1, <3>2, <3>3 DEF Advances, Ordered
    <2>5. CASE pos + 4 + Two(pos + 2) <= extensionsEnd /\ pos + 4 <= extensionsEnd
      BY <1>1, <1>2, <1>3, <2>3, <2>4, <2>5 DEF ReadExtension, loopVars
    <2>6. CASE ~(pos + 4 + Two(pos + 2) <= extensionsEnd /\ pos + 4 <= extensionsEnd)
      <3>1. CASE pos + 4 > extensionsEnd BY <1>2, <1>3, <3>1 DEF ReadExtension
      <3>2. CASE ~(pos + 4 > extensionsEnd)
        <4>1. pos + 4 + Two(pos + 2) > extensionsEnd BY <1>1, <2>6, <3>2
        <4>2. QED BY <1>2, <1>3, <3>2, <4>1 DEF ReadExtension
      <3>3. QED BY <3>1, <3>2
    <2>7. QED BY <2>5, <2>6
  <1>4. ASSUME ReadList PROVE Advances /\ Ordered'
    <2>1. /\ pc = "list" /\ pos + 4 = dataAt /\ pos <= extensionsEnd
          /\ dataAt + 5 <= extEnd /\ extEnd <= extensionsEnd
      BY <1>4 DEF ReadList, Ordered, Inv, Bounds
    <2>2. /\ pc' = "name" /\ Size' = Size /\ namePos' = dataAt + 2
          /\ listEnd' = Smaller(dataAt + 2 + Two(dataAt), extEnd) /\ UNCHANGED <<pos, dataAt>>
      BY <1>4 DEF ReadList, GoOn, Size
    <2>3. namePos' <= listEnd' BY <1>1, <2>1, <2>2 DEF Smaller
    <2>4. StepsLeft = 3 * (Size - pos) BY <2>1 DEF StepsLeft
    <2>5. StepsLeft' = 3 * (Size - namePos') + 2 BY <2>2 DEF StepsLeft
    <2>6. Advances BY <1>1, <2>1, <2>2, <2>4, <2>5 DEF Advances
    <2>7. QED BY <2>1, <2>2, <2>3, <2>6 DEF Ordered
  <1>5. ASSUME ReadName PROVE Advances /\ Ordered'
    <2>1. /\ pc = "name" /\ pos + 4 = dataAt /\ namePos <= listEnd /\ listEnd <= extEnd
          /\ extEnd <= extensionsEnd
      BY <1>5 DEF ReadName, Ordered, Inv, Bounds
    <2>2. StepsLeft = 3 * (Size - namePos) + 2 BY <2>1 DEF StepsLeft
    <2>3. CASE pos' = extEnd /\ GoOn("extension") /\ UNCHANGED extensionsEnd
      <3>1. pc' = "extension" /\ Size' = Size BY <2>3 DEF GoOn, Size
      <3>2. StepsLeft' = 3 * (Size - extEnd) + 1 BY <2>3, <3>1 DEF StepsLeft
      <3>3. QED BY <1>1, <2>1, <2>2, <2>3, <3>1, <3>2 DEF Advances, Ordered
    <2>4. CASE /\ Contained(NameEnd) /\ namePos' = NameEnd /\ GoOn("name")
               /\ UNCHANGED <<pos, dataAt, listEnd>>
      <3>1. pc' = "name" /\ Size' = Size BY <2>4 DEF GoOn, Size
      <3>2. namePos' = namePos + 3 + Two(namePos + 1) /\ namePos' <= listEnd
        BY <2>4 DEF NameEnd, Contained
      <3>3. StepsLeft' = 3 * (Size - namePos') + 2 BY <3>1 DEF StepsLeft
      <3>4. QED BY <1>1, <2>1, <2>2, <2>4, <3>1, <3>2, <3>3 DEF Advances, Ordered
    <2>5. QED BY <1>2, <1>5, <2>3, <2>4 DEF ReadName, loopVars
  <1>6. QED BY <1>3, <1>4, <1>5

LEMMA AdvancesStep == Inv /\ Ordered /\ [Next]_vars => [Advances]_vars /\ Ordered'
  <1> SUFFICES ASSUME Inv, Ordered, [Next]_vars PROVE [Advances]_vars /\ Ordered' OBVIOUS
  <1>1. CASE Step BY <1>1, HeadersAdvance, LoopsAdvance DEF Step
  <1>2. CASE UNCHANGED vars BY <1>2 DEF vars, loopVars, Ordered
  <1>3. QED BY <1>1, <1>2 DEF Next, Finished

\* Every step of the parser makes StepsLeft smaller, which is a number: at most
\* 3 * Size + 7 steps, over any extensions and names (the loops of extract_sni_details).
THEOREM ParserAdvances == Spec => [][Advances]_vars
  <1>1. QED BY InitInv, StepInv, OrderedInit, AdvancesStep, PTL DEF Spec

-----------------------------------------------------------------------------
(* Well-formed ClientHellos.                                               *)

\* Where the parser stands in a ClientHello of a known layout: at the beginning of a
\* vector, of an extension or of a name, and not past the name it looks for.
Follows(h) ==
    /\ pc = "session" => pos = SessionAt
    /\ pc = "ciphers" => pos = CiphersAt(h.payload)
    /\ pc = "compression" => pos = CompressionAt(h.payload)
    /\ pc = "extensions" => pos = ExtensionsAt(h.payload)
    /\ pc \in {"extension", "list", "name"} => extensionsEnd = h.extensions[Len(h.extensions)]
    /\ pc = "extension" => \E k \in DOMAIN h.extensions :
                               pos = h.extensions[k] /\ (h.host = 0 \/ k <= h.sni)
    /\ pc \in {"list", "name"} => /\ h.sni # 0
                                  /\ dataAt = h.extensions[h.sni] + 4
                                  /\ extEnd = h.extensions[h.sni + 1]
    /\ pc = "name" => /\ listEnd = extEnd
                      /\ \E k \in DOMAIN h.names :
                             namePos = h.names[k] /\ (h.host = 0 \/ k <= h.host)
    /\ pc = "done" => isHello /\ name = HostPlace(h)

FollowsInv == \A h \in Hellos : payload = h.payload => Follows(h)

\* The vectors follow each other up to the end of the payload.
LEMMA Vectors ==
    ASSUME NEW h \in Hellos
    PROVE  LET p == h.payload
           IN  /\ Len(p) \in Nat /\ FixedLen \in Nat /\ SessionAt \in Nat /\ CiphersAt(p) \in Nat
               /\ CompressionAt(p) \in Nat /\ ExtensionsAt(p) \in Nat
               /\ SessionAt = 9 + FixedLen
               /\ SessionAt + 1 <= CiphersAt(p)
               /\ CiphersAt(p) + 2 <= CompressionAt(p)
               /\ CompressionAt(p) + 1 <= ExtensionsAt(p)
               /\ ExtensionsAt(p) + 2 + WordOf(p, ExtensionsAt(p)) <= Len(p)
               /\ ExtensionsAt(p) + 2 <= Len(p)
               /\ WordOf(p, ExtensionsAt(p)) \in Nat
  <1> DEFINE p == h.payload
  <1>1. p \in Seq(Byte) /\ WellFormed(h) BY HelloAssumption DEF WellFormed
  <1>2. ExtensionsAt(p) + 2 + WordOf(p, ExtensionsAt(p)) <= Len(p)
    BY <1>1 DEF WellFormed, ListsExtensions
  <1> HIDE DEF p
  <1>3. SessionAt \in Nat /\ FixedLen \in Nat /\ SessionAt = 9 + FixedLen
    BY ClassifierAssumption DEF SessionAt
  <1>4. ByteOf(p, SessionAt) \in Nat BY <1>1, <1>3, Bytewise
  <1>5. CiphersAt(p) \in Nat /\ SessionAt + 1 <= CiphersAt(p) BY <1>3, <1>4 DEF CiphersAt
  <1>6. WordOf(p, CiphersAt(p)) \in Nat BY <1>1, <1>5, Bytewise
  <1>7. CompressionAt(p) \in Nat /\ CiphersAt(p) + 2 <= CompressionAt(p)
    BY <1>5, <1>6 DEF CompressionAt
  <1>8. ByteOf(p, CompressionAt(p)) \in Nat BY <1>1, <1>7, Bytewise
  <1>9. ExtensionsAt(p) \in Nat /\ CompressionAt(p) + 1 <= ExtensionsAt(p)
    BY <1>7, <1>8 DEF ExtensionsAt
  <1>10. WordOf(p, ExtensionsAt(p)) \in Nat /\ Len(p) \in Nat BY <1>1, <1>9, Bytewise
  <1>11. QED BY <1>2, <1>3, <1>5, <1>7, <1>9, <1>10 DEF p

LEMMA FollowsInit == Init => FollowsInv
BY DEF Init, FollowsInv, Follows

\* The headers, and the vectors before the extensions.
LEMMA FollowsHeaders ==
    ASSUME NEW h \in Hellos, payload = h.payload, Inv, Follows(h),
           \/ ReadRecord \/ ReadHandshake \/ SkipSession \/ SkipCiphers \/ SkipCompression
           \/ ReadExtensions
    PROVE  Follows(h)'
  <1> DEFINE p == h.payload
  <1>1. /\ Len(p) \in Nat /\ FixedLen \in Nat /\ SessionAt \in Nat /\ CiphersAt(p) \in Nat
        /\ CompressionAt(p) \in Nat /\ ExtensionsAt(p) \in Nat
        /\ SessionAt = 9 + FixedLen
        /\ SessionAt + 1 <= CiphersAt(p)
        /\ CiphersAt(p) + 2 <= CompressionAt(p)
        /\ CompressionAt(p) + 1 <= ExtensionsAt(p)
        /\ ExtensionsAt(p) + 2 + WordOf(p, ExtensionsAt(p)) <= Len(p)
        /\ ExtensionsAt(p) + 2 <= Len(p) /\ WordOf(p, ExtensionsAt(p)) \in Nat
    BY Vectors
  <1>2. /\ ByteOf(p, 0) = 22 /\ ByteOf(p, 5) = 1 /\ 5 + WordOf(p, 3) <= Len(p)
        /\ Spans(h.extensions, ExtensionsAt(p) + 2,
                 ExtensionsAt(p) + 2 + WordOf(p, ExtensionsAt(p)))
        /\ h.sni \in 0 .. Len(h.extensions) - 1 /\ (h.sni = 0 => h.host = 0)
    BY HelloAssumption DEF WellFormed, ListsExtensions
  <1>3. p = payload /\ Size = Len(p) BY DEF Size
  <1> HIDE DEF p
  <1>4. CASE ReadRecord
    <2>1. At(0) = 22 /\ Size >= 5 + Two(3) /\ ~(Size < 5) BY <1>1, <1>2, <1>3 DEF At, Two
    <2>2. pc' = "handshake" BY <1>4, <2>1 DEF ReadRecord, GoOn
    <2>3. QED BY <2>2 DEF Follows
  <1>5. CASE ReadHandshake
    <2>1. At(5) = 1 /\ ~(Size < 9) /\ ~(Size < 9 + FixedLen) BY <1>1, <1>2, <1>3 DEF At
    <2>2. pc' = "session" /\ pos' = SessionAt
      BY <1>5, <2>1 DEF ReadHandshake, GoOn, SessionAt
    <2>3. QED BY <2>2 DEF Follows
  <1>6. CASE SkipSession
    <2>1. pos = SessionAt /\ Room(1) BY <1>1, <1>3, <1>6 DEF SkipSession, Follows, Room
    <2>2. pc' = "ciphers" /\ pos' = CiphersAt(p)
      BY <1>3, <1>6, <2>1 DEF SkipSession, Skip, GoOn, CiphersAt, At
    <2>3. QED BY <2>2 DEF Follows, p
  <1>7. CASE SkipCiphers
    <2>1. pos = CiphersAt(p) /\ Room(2) BY <1>1, <1>3, <1>7 DEF SkipCiphers, Follows, Room, p
    <2>2. pc' = "compression" /\ pos' = CompressionAt(p)
      BY <1>3, <1>7, <2>1 DEF SkipCiphers, Skip, GoOn, CompressionAt, Two
    <2>3. QED BY <2>2 DEF Follows, p
  <1>8. CASE SkipCompression
    <2>1. pos = CompressionAt(p) /\ Room(1) BY <1>1, <1>3, <1>8 DEF SkipCompression, Follows, Room, p
    <2>2. pc' = "extensions" /\ pos' = ExtensionsAt(p)
      BY <1>3, <1>8, <2>1 DEF SkipCompression, Skip, GoOn, ExtensionsAt, At
    <2>3. QED BY <2>2 DEF Follows, p
  <1>9. CASE ReadExtensions
    <2>1. pos = ExtensionsAt(p) /\ Room(2) BY <1>1, <1>3, <1>9 DEF ReadExtensions, Follows, Room, p
    <2>2. /\ pc' = "extension" /\ pos' = ExtensionsAt(p) + 2
          /\ extensionsEnd' = ExtensionsAt(p) + 2 + WordOf(p, ExtensionsAt(p))
      BY <1>1, <1>3, <1>9, <2>1 DEF ReadExtensions, GoOn, Two, Smaller
    <2>3. /\ extensionsEnd' = h.extensions[Len(h.extensions)] /\ pos' = h.extensions[1]
          /\ 1 \in DOMAIN h.extensions
      BY <1>2, <2>2 DEF Spans
    <2>4. h.host = 0 \/ 1 <= h.sni BY <1>2, <2>3 DEF Spans
    <2>5. QED BY <2>2, <2>3, <2>4 DEF Follows
  <1>10. QED BY <1>4, <1>5, <1>6, <1>7, <1>8, <1>9

\* A place in a list of extensions or names.
LEMMA SpansItems ==
    ASSUME NEW s, NEW from, NEW to, Spans(s, from, to), NEW k \in DOMAIN s
    PROVE  /\ s[k] \in Nat /\ s[k] <= to /\ s[Len(s)] = to /\ to \in Nat /\ Len(s) \in Nat
           /\ k \in 1 .. Len(s) /\ 1 \in DOMAIN s /\ s[1] = from
           /\ k # Len(s) => k + 1 \in DOMAIN s /\ s[k + 1] \in Nat /\ s[k + 1] <= to
  <1>1. s \in Seq(Nat) /\ Len(s) > 0 /\ s[1] = from /\ s[Len(s)] = to
    BY DEF Spans
  <1>2. \A j \in DOMAIN s : s[j] <= to BY DEF Spans
  <1>3. /\ Len(s) \in Nat /\ DOMAIN s = 1 .. Len(s) /\ k \in 1 .. Len(s)
        /\ \A j \in 1 .. Len(s) : s[j] \in Nat
    BY <1>1
  <1>4. QED BY <1>1, <1>2, <1>3

\* An extension with a list of names is long enough for the parser to look into it.
LEMMA NameExtensionSize ==
    ASSUME NEW h \in Hellos, h.sni # 0
    PROVE  h.extensions[h.sni + 1] >= h.extensions[h.sni] + 4 + 5
  <1> DEFINE p == h.payload
             s == h.names
             data == h.extensions[h.sni] + 4
             end == h.extensions[h.sni + 1]
  <1>1. /\ Spans(s, data + 2, end) /\ Len(s) > 1 /\ p \in Seq(Byte)
        /\ \A k \in 1 .. Len(s) - 1 : s[k + 1] = s[k] + 3 + WordOf(p, s[k] + 1)
    BY HelloAssumption DEF WellFormed, ListsNames
  <1>2. h.extensions[h.sni] \in Nat
    <2>1. h.extensions \in Seq(Nat) /\ h.sni \in 0 .. Len(h.extensions) - 1
      BY HelloAssumption DEF WellFormed, ListsExtensions, Spans
    <2>2. h.sni \in 1 .. Len(h.extensions) BY <2>1
    <2>3. QED BY <2>1, <2>2
  <1>3. data \in Nat BY <1>2
  <1> HIDE DEF p, s, data, end
  <1>4. /\ 1 \in DOMAIN s /\ s[1] = data + 2 /\ s[1] \in Nat /\ end \in Nat /\ Len(s) \in Nat
        /\ s[2] \in Nat /\ s[2] <= end
    <2>1. 1 \in DOMAIN s BY <1>1 DEF Spans
    <2>2. QED BY <1>1, <2>1, SpansItems
  <1>5. s[2] = s[1] + 3 + WordOf(p, s[1] + 1) BY <1>1, <1>4
  <1>6. s[1] + 1 \in Nat BY <1>4
  <1>7. WordOf(p, s[1] + 1) \in Nat BY <1>1, <1>6, Bytewise
  <1>8. end >= data + 5 BY <1>4, <1>5, <1>7, <1>3
  <1>9. QED BY <1>2, <1>8 DEF data, end

LEMMA FollowsExtension ==
    ASSUME NEW h \in Hellos, payload = h.payload, Inv, Follows(h), ReadExtension
    PROVE  Follows(h)'
  <1> DEFINE p == h.payload
             s == h.extensions
             x == ExtensionsAt(p)
  <1>1. /\ Spans(s, x + 2, x + 2 + WordOf(p, x)) /\ p \in Seq(Byte)
        /\ h.sni \in 0 .. Len(s) - 1 /\ (h.sni = 0 => h.host = 0)
        /\ \A k \in 1 .. Len(s) - 1 : /\ s[k + 1] = s[k] + 4 + WordOf(p, s[k] + 2)
                                      /\ WordOf(p, s[k]) = 0 <=> k = h.sni
    BY HelloAssumption DEF WellFormed, ListsExtensions
  <1>2. \A i : At(i) = ByteOf(p, i) /\ Two(i) = WordOf(p, i) BY DEF At, Two
  <1> HIDE DEF p, s, x
  <1>3. PICK k \in DOMAIN s : pos = s[k] /\ (h.host = 0 \/ k <= h.sni)
    BY DEF ReadExtension, Follows, s
  <1>4. extensionsEnd = s[Len(s)] BY DEF ReadExtension, Follows, s
  <1>5. /\ s[k] \in Nat /\ s[k] <= s[Len(s)] /\ s[Len(s)] \in Nat /\ Len(s) \in Nat
        /\ k \in 1 .. Len(s)
        /\ k # Len(s) => k + 1 \in DOMAIN s /\ s[k + 1] \in Nat /\ s[k + 1] <= s[Len(s)]
    <2>1. s[Len(s)] = x + 2 + WordOf(p, x) BY <1>1 DEF Spans
    <2>2. Spans(s, x + 2, s[Len(s)]) BY <1>1, <2>1
    <2>3. QED BY <2>2, SpansItems
  <1>6. CASE k = Len(s)
    <2>1. pos + 4 > extensionsEnd BY <1>3, <1>4, <1>5, <1>6
    <2>2. h.host = 0
      <3>1. ~(Len(s) <= h.sni) BY <1>1, <1>5
      <3>2. QED BY <1>3, <1>6, <3>1
    <2>3. pc' = "done" /\ isHello' = TRUE /\ name' = NoName
      BY <2>1 DEF ReadExtension, Return
    <2>4. QED BY <2>2, <2>3 DEF Follows, HostPlace
  <1>7. CASE k # Len(s)
    <2>1. k \in 1 .. Len(s) - 1 BY <1>5, <1>7
    <2>2. s[k + 1] = s[k] + 4 + WordOf(p, s[k] + 2) /\ (WordOf(p, s[k]) = 0 <=> k = h.sni)
      BY <1>1, <2>1
    <2>3. WordOf(p, s[k] + 2) \in Nat /\ s[k] + 4 <= s[k + 1]
      <3>1. s[k] + 2 \in Nat BY <1>5
      <3>2. WordOf(p, s[k] + 2) \in Nat BY <1>1, <3>1, Bytewise
      <3>3. QED BY <1>5, <2>2, <3>2
    <2>4. ~(pos + 4 > extensionsEnd) /\ ~(pos + 4 + Two(pos + 2) > extensionsEnd)
      BY <1>2, <1>3, <1>4, <1>5, <1>7, <2>2, <2>3
    <2>5. CASE Two(pos) = 0 /\ Two(pos + 2) >= 5
      <3>1. k = h.sni /\ h.sni # 0 BY <1>2, <1>3, <1>5, <2>2, <2>5
      <3>2. /\ pc' = "list" /\ dataAt' = s[h.sni] + 4 /\ extEnd' = s[h.sni + 1]
            /\ extensionsEnd' = extensionsEnd
        BY <1>2, <1>3, <2>2, <2>4, <2>5, <3>1 DEF ReadExtension, GoOn
      <3>3. QED BY <1>4, <3>1, <3>2 DEF Follows, s
    <2>6. CASE ~(Two(pos) = 0 /\ Two(pos + 2) >= 5)
      <3>1. pc' = "extension" /\ pos' = s[k + 1] /\ extensionsEnd' = extensionsEnd
        BY <1>2, <1>3, <2>2, <2>4, <2>6 DEF ReadExtension, AfterExtension, GoOn
      <3>2. h.host = 0 \/ k + 1 <= h.sni
        <4>1. CASE k # h.sni BY <1>1, <1>3, <1>5, <4>1
        <4>2. CASE k = h.sni
          <5>1. Two(pos) = 0 /\ ~(WordOf(p, s[k] + 2) >= 5) BY <1>2, <1>3, <2>2, <2>6, <4>2
          <5>2. WordOf(p, s[k] + 2) >= 5
            <6>1. h.sni # 0 BY <1>5, <4>2
            <6>2. s[h.sni + 1] >= s[h.sni] + 4 + 5 BY <6>1, NameExtensionSize DEF s
            <6>3. s[k + 1] >= s[k] + 4 + 5 BY <4>2, <6>2
            <6>4. QED BY <1>5, <2>2, <2>3, <6>3
          <5>3. QED BY <5>1, <5>2
        <4>3. QED BY <4>1, <4>2
      <3>3. k + 1 \in DOMAIN s BY <1>5, <1>7
      <3>4. QED BY <1>4, <3>1, <3>2, <3>3 DEF Follows, s
    <2>7. QED BY <2>5, <2>6
  <1>8. QED BY <1>6, <1>7

LEMMA FollowsList ==
    ASSUME NEW h \in Hellos, payload = h.payload, Inv, Follows(h), ReadList
    PROVE  Follows(h)'
  <1> DEFINE p == h.payload
             s == h.names
             data == h.extensions[h.sni] + 4
             end == h.extensions[h.sni + 1]
  <1>1. /\ h.sni # 0 /\ dataAt = data /\ extEnd = end
        /\ extensionsEnd = h.extensions[Len(h.extensions)]
    BY DEF ReadList, Follows
  <1>2. /\ data + 2 + WordOf(p, data) = end /\ Spans(s, data + 2, end)
        /\ h.host \in 0 .. Len(s) - 1
    BY <1>1, HelloAssumption DEF WellFormed, ListsNames
  <1>3. Two(dataAt) = WordOf(p, data) BY <1>1 DEF Two
  <1>4. extEnd \in Nat BY DEF Inv, TypeOK
  <1> HIDE DEF p, s, data, end
  <1>5. 1 \in DOMAIN s /\ s[1] = data + 2 BY <1>2 DEF Spans
  <1>6. /\ pc' = "name" /\ listEnd' = extEnd /\ namePos' = s[1]
        /\ UNCHANGED <<dataAt, extEnd, extensionsEnd>>
    BY <1>1, <1>2, <1>3, <1>4, <1>5 DEF ReadList, GoOn, Smaller
  <1>7. h.host = 0 \/ 1 <= h.host
    <2>1. Len(s) \in Nat BY <1>2 DEF Spans
    <2>2. QED BY <1>2, <2>1
  <1>8. QED BY <1>1, <1>5, <1>6, <1>7 DEF Follows, s, data, end

LEMMA FollowsName ==
    ASSUME NEW h \in Hellos, payload = h.payload, Inv, Follows(h), ReadName
    PROVE  Follows(h)'
  <1> DEFINE p == h.payload
             s == h.names
             data == h.extensions[h.sni] + 4
             end == h.extensions[h.sni + 1]
  <1>1. /\ h.sni # 0 /\ dataAt = data /\ extEnd = end /\ listEnd = end
        /\ extensionsEnd = h.extensions[Len(h.extensions)]
    BY DEF ReadName, Follows
  <1>2. /\ Spans(s, data + 2, end) /\ Len(s) > 1
        /\ h.host \in 0 .. Len(s) - 1
        /\ \A k \in 1 .. Len(s) - 1 : /\ s[k + 1] = s[k] + 3 + WordOf(p, s[k] + 1)
                                      /\ ByteOf(p, s[k]) = 0 <=> k = h.host
        /\ h.host # 0 => \A i \in s[h.host] + 3 .. s[h.host + 1] - 1 : ByteOf(p, i) < 128
    BY <1>1, HelloAssumption DEF WellFormed, ListsNames
  <1>3. h.sni + 1 \in DOMAIN h.extensions
    <2>1. h.extensions \in Seq(Nat) /\ h.sni \in 0 .. Len(h.extensions) - 1
      BY HelloAssumption DEF WellFormed, ListsExtensions, Spans
    <2>2. QED BY <2>1
  <1>4. p \in Seq(Byte) BY HelloAssumption DEF WellFormed
  <1>5. \A i : At(i) = ByteOf(p, i) /\ Two(i) = WordOf(p, i) BY DEF At, Two
  <1>6. PICK k \in DOMAIN s : namePos = s[k] /\ (h.host = 0 \/ k <= h.host)
    BY DEF ReadName, Follows
  <1> HIDE DEF p, s, data, end
  <1>7. /\ s[k] \in Nat /\ s[k] <= end /\ s[Len(s)] = end /\ end \in Nat /\ Len(s) \in Nat
        /\ k \in 1 .. Len(s)
        /\ k # Len(s) => k + 1 \in DOMAIN s /\ s[k + 1] \in Nat /\ s[k + 1] <= end
    BY <1>2, SpansItems
  <1>8. CASE k = Len(s)
    <2>1. namePos + 3 > listEnd BY <1>1, <1>6, <1>7, <1>8
    <2>2. h.host = 0
      <3>1. ~(Len(s) <= h.host) BY <1>2, <1>7
      <3>2. QED BY <1>6, <1>8, <3>1
    <2>3. ~(namePos + 3 <= listEnd) BY <1>1, <1>6, <1>7, <2>1
    <2>4. pc' = "extension" /\ pos' = end /\ extensionsEnd' = extensionsEnd
      BY <1>1, <2>3 DEF ReadName, GoOn
    <2>5. QED BY <1>1, <1>3, <2>2, <2>4 DEF Follows, end
  <1>9. CASE k # Len(s)
    <2>1. k \in 1 .. Len(s) - 1 BY <1>7, <1>9
    <2>2. s[k + 1] = s[k] + 3 + WordOf(p, s[k] + 1) /\ (ByteOf(p, s[k]) = 0 <=> k = h.host)
      BY <1>2, <2>1
    <2>3. WordOf(p, s[k] + 1) \in Nat /\ s[k] + 3 <= s[k + 1]
      <3>1. s[k] + 1 \in Nat BY <1>7
      <3>2. WordOf(p, s[k] + 1) \in Nat BY <1>4, <3>1, Bytewise
      <3>3. QED BY <1>7, <2>2, <3>2
    <2>4. NameEnd = s[k + 1] BY <1>5, <1>6, <2>2 DEF NameEnd
    <2>5. namePos + 3 <= listEnd /\ ~(namePos + 3 > listEnd) /\ Contained(NameEnd)
      BY <1>1, <1>6, <1>7, <1>9, <2>3, <2>4 DEF Contained
    <2>6. CASE At(namePos) = 0
      <3>1. k = h.host /\ h.host # 0 BY <1>5, <1>6, <1>7, <2>2, <2>6
      <3>2. \A i \in namePos + 3 .. NameEnd - 1 : At(i) < 128 BY <1>2, <1>5, <1>6, <2>4, <3>1
      <3>3. /\ pc' = "done" /\ isHello' = TRUE
            /\ name' = [at |-> namePos + 3, len |-> Two(namePos + 1)]
        BY <2>5, <2>6, <3>2 DEF ReadName, Return, Place
      <3>4. name' = HostPlace(h) BY <1>5, <1>6, <3>1, <3>3 DEF HostPlace, p, s
      <3>5. QED BY <3>3, <3>4 DEF Follows, HostPlace
    <2>7. CASE At(namePos) # 0
      <3>1. /\ pc' = "name" /\ namePos' = s[k + 1]
            /\ UNCHANGED <<pos, extensionsEnd, dataAt, extEnd, listEnd>>
        BY <2>4, <2>5, <2>7 DEF ReadName, GoOn
      <3>2. h.host = 0 \/ k + 1 <= h.host
        <4>1. k # h.host BY <1>5, <1>6, <2>2, <2>7
        <4>2. QED BY <1>2, <1>6, <1>7, <4>1
      <3>3. QED BY <1>1, <1>7, <1>9, <3>1, <3>2 DEF Follows, s, data, end
    <2>8. QED BY <2>6, <2>7
  <1>10. QED BY <1>8, <1>9

LEMMA FollowsStep == Inv /\ FollowsInv /\ [Next]_vars => FollowsInv'
  <1> SUFFICES ASSUME Inv, FollowsInv, [Next]_vars, NEW h \in Hellos, payload' = h.payload
               PROVE  Follows(h)'
    BY DEF FollowsInv
  <1>1. payload' = payload
    BY DEF Next, Step, Finished, vars, ReadRecord, ReadHandshake, SkipSession, SkipCiphers,
           SkipCompression, Skip, ReadExtensions, ReadExtension, ReadList, ReadName, Return, GoOn
  <1>2. payload = h.payload /\ Follows(h) BY <1>1 DEF FollowsInv
  <1>3. CASE Step
    BY <1>2, <1>3, FollowsHeaders, FollowsExtension, FollowsList, FollowsName DEF Step
  <1>4. CASE UNCHANGED vars BY <1>2, <1>4 DEF vars, loopVars, Follows
  <1>5. QED BY <1>3, <1>4 DEF Next, Finished

\* Every well-formed ClientHello is recognised, and its name found where it is, whatever
\* other vectors, extensions and names surround it.
THEOREM FindsSafe == Spec => []FindsName
  <1>1. FollowsInv => FindsName BY DEF FollowsInv, Follows, FindsName
  <1>2. QED BY <1>1, InitInv, StepInv, FollowsInit, FollowsStep, PTL DEF Spec

=============================================================================
