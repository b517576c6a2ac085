----------------------------- MODULE Classifier -----------------------------
(***************************************************************************)
(* dpiveil.classifier.extract_sni_details: is a TCP payload a TLS          *)
(* ClientHello, and where in it is the server name.  The parser runs on    *)
(* every outbound packet, on whatever bytes another program sends, and     *)
(* outside of any try block: an IndexError would end the divert thread.    *)
(* Each length it reads is a step.  Offsets count from 0, as in the code.  *)
(***************************************************************************)
EXTENDS Integers, Sequences

CONSTANTS
    Payloads,       \* the payloads it may be given
    Hellos,         \* well-formed ClientHellos, each with its layout (see WellFormed)
    FixedLen,       \* bytes of client_version and random: 34
    NoName

Byte == 0 .. 255

ASSUME ClassifierAssumption ==
    /\ Payloads \subseteq Seq(Byte)
    /\ FixedLen \in Nat
    /\ NoName \notin [at : Nat, len : Nat]

\* The byte and the two bytes at an offset. Past the end the code raises; NoOverread
\* forbids it.
ByteOf(p, i) == IF i < Len(p) THEN p[i + 1] ELSE 0
WordOf(p, i) == 256 * ByteOf(p, i) + ByteOf(p, i + 1)

VARIABLES
    payload,
    pc,             \* what is read next
    pos,            \* pos
    extensionsEnd,  \* extensions_end
    dataAt,         \* where data begins in payload
    extEnd,         \* ext_end
    namePos,        \* name_pos, counted in payload
    listEnd,        \* list_end, counted in payload
    isHello,        \* the result: is it a ClientHello, and the place of its name
    name,
    reads           \* history: the offsets of the bytes the last step used

loopVars == <<dataAt, extEnd, namePos, listEnd>>
vars == <<payload, pc, pos, extensionsEnd, loopVars, isHello, name, reads>>

Size == Len(payload)

At(i) == ByteOf(payload, i)

\* int.from_bytes(payload[i:i + 2], "big")
Two(i) == WordOf(payload, i)
Smaller(a, b) == IF a <= b THEN a ELSE b

TypeOK ==
    /\ payload \in Seq(Byte)
    /\ pc \in {"record", "handshake", "session", "ciphers", "compression", "extensions",
               "extension", "list", "name", "done"}
    /\ pos \in Nat /\ extensionsEnd \in Nat
    /\ dataAt \in Nat /\ extEnd \in Nat /\ namePos \in Nat /\ listEnd \in Nat
    /\ isHello \in BOOLEAN
    /\ name \in [at : Nat, len : Nat] \cup {NoName}
    /\ reads \subseteq Nat

Init ==
    /\ payload \in Payloads
    /\ pc = "record"
    /\ pos = 0
    /\ extensionsEnd = 0
    /\ dataAt = 0 /\ extEnd = 0 /\ namePos = 0 /\ listEnd = 0
    /\ isHello = FALSE
    /\ name = NoName
    /\ reads = {}

-----------------------------------------------------------------------------

Return(hello, found) ==
    /\ pc' = "done"
    /\ isHello' = hello
    /\ name' = found
    /\ UNCHANGED <<payload, pos, extensionsEnd, loopVars>>

GoOn(next) == pc' = next /\ UNCHANGED <<payload, isHello, name>>

\* The record header: type and length.
ReadRecord ==
    /\ pc = "record"
    /\ IF Size < 5
         THEN reads' = {} /\ Return(FALSE, NoName)
         ELSE /\ reads' = {0, 3, 4}
              /\ IF At(0) = 22 /\ Size >= 5 + Two(3)
                   THEN GoOn("handshake") /\ UNCHANGED <<pos, extensionsEnd, loopVars>>
                   ELSE Return(FALSE, NoName)

\* The handshake header; then client_version and random are skipped.
ReadHandshake ==
    /\ pc = "handshake"
    /\ IF Size < 9
         THEN reads' = {} /\ Return(FALSE, NoName)
         ELSE /\ reads' = {5}
              /\ IF At(5) # 1 THEN Return(FALSE, NoName)
                 ELSE IF Size < 9 + FixedLen THEN Return(TRUE, NoName)
                 ELSE /\ pos' = 9 + FixedLen
                      /\ GoOn("session")
                      /\ UNCHANGED <<extensionsEnd, loopVars>>

\* Mutated Room: the test is off by one.
RoomOffByOne(n) == Size + 1 >= pos + n

\* not len(payload) < pos + n
Room(n) == Size >= pos + n

\* A vector of bytes is skipped, its length first.
Skip(width, next) ==
    IF ~Room(width)
      THEN reads' = {} /\ Return(TRUE, NoName)
      ELSE /\ reads' = pos .. pos + width - 1
           /\ pos' = pos + width + (IF width = 1 THEN At(pos) ELSE Two(pos))
           /\ GoOn(next)
           /\ UNCHANGED <<extensionsEnd, loopVars>>

SkipSession == pc = "session" /\ Skip(1, "ciphers")
SkipCiphers == pc = "ciphers" /\ Skip(2, "compression")
SkipCompression == pc = "compression" /\ Skip(1, "extensions")

ReadExtensions ==
    /\ pc = "extensions"
    /\ IF ~Room(2)
         THEN reads' = {} /\ Return(TRUE, NoName)
         ELSE /\ reads' = {pos, pos + 1}
              /\ pos' = pos + 2
              /\ extensionsEnd' = Smaller(pos + 2 + Two(pos), Size)
              /\ GoOn("extension")
              /\ UNCHANGED loopVars

\* Mutated AfterExtension: the next extension is looked for in this one's data.
AfterExtensionStays == pos

\* pos = ext_end, where pos is past the type and the length
AfterExtension == pos + 4 + Two(pos + 2)

\* One round of the loop over the extensions.
ReadExtension ==
    /\ pc = "extension"
    /\ IF pos + 4 > extensionsEnd
         THEN reads' = {} /\ Return(TRUE, NoName)
         ELSE /\ reads' = pos .. pos + 3
              /\ IF pos + 4 + Two(pos + 2) > extensionsEnd
                   THEN Return(TRUE, NoName)
                   ELSE IF Two(pos) = 0 /\ Two(pos + 2) >= 5
                   THEN /\ dataAt' = pos + 4
                        /\ extEnd' = pos + 4 + Two(pos + 2)
                        /\ GoOn("list")
                        /\ UNCHANGED <<pos, extensionsEnd, namePos, listEnd>>
                   ELSE /\ pos' = AfterExtension
                        /\ GoOn("extension")
                        /\ UNCHANGED <<extensionsEnd, loopVars>>

\* The server_name extension: the length of its list.
ReadList ==
    /\ pc = "list"
    /\ reads' = {dataAt, dataAt + 1}
    /\ listEnd' = Smaller(dataAt + 2 + Two(dataAt), extEnd)
    /\ namePos' = dataAt + 2
    /\ GoOn("name")
    /\ UNCHANGED <<pos, extensionsEnd, dataAt, extEnd>>

\* not name_end > list_end
Contained(end) == end <= listEnd

\* Mutated Place: the offset counts from the extension's data.
PlaceInData(at, len) == [at |-> at - dataAt, len |-> len]

\* Mutated Place: the length is read once the position has moved on to the name.
PlaceMovedOn(at, len) == [at |-> at, len |-> Two(at)]

Place(at, len) == [at |-> at, len |-> len]

NameEnd == namePos + 3 + Two(namePos + 1)

\* One round of the loop over the names: the first of type 0 counts, if it is
\* ASCII; if none does, the extension is done with.
ReadName ==
    /\ pc = "name"
    /\ \/ /\ namePos + 3 > listEnd
          /\ reads' = {}
          /\ pos' = extEnd
          /\ GoOn("extension")
          /\ UNCHANGED <<extensionsEnd, loopVars>>
       \/ /\ namePos + 3 <= listEnd
          /\ ~Contained(NameEnd)
          /\ reads' = namePos .. namePos + 2
          /\ pos' = extEnd
          /\ GoOn("extension")
          /\ UNCHANGED <<extensionsEnd, loopVars>>
       \/ /\ namePos + 3 <= listEnd
          /\ Contained(NameEnd)
          /\ At(namePos) = 0
          /\ reads' = namePos .. NameEnd - 1
          /\ Return(TRUE, IF \A i \in namePos + 3 .. NameEnd - 1 : At(i) < 128
                          THEN Place(namePos + 3, Two(namePos + 1)) ELSE NoName)
       \/ /\ namePos + 3 <= listEnd
          /\ Contained(NameEnd)
          /\ At(namePos) # 0
          /\ reads' = namePos .. namePos + 2
          /\ namePos' = NameEnd
          /\ GoOn("name")
          /\ UNCHANGED <<pos, extensionsEnd, dataAt, extEnd, listEnd>>

Finished == pc = "done" /\ UNCHANGED vars

Step ==
    \/ ReadRecord \/ ReadHandshake \/ SkipSession \/ SkipCiphers \/ SkipCompression
    \/ ReadExtensions \/ ReadExtension \/ ReadList \/ ReadName

Next == Step \/ Finished

Spec == Init /\ [][Next]_vars

FairSpec == Spec /\ WF_vars(Step)

-----------------------------------------------------------------------------
(* What a ClientHello is (RFC 8446, 4.1.2; RFC 6066, 3), said without the  *)
(* parser: where its vectors lie, and which offsets its extensions and the *)
(* names in server_name have.  A layout is [payload, extensions, sni,      *)
(* names, host]; sni and host are positions in the two lists, 0 for none.  *)

SessionAt == 9 + FixedLen
CiphersAt(p) == SessionAt + 1 + ByteOf(p, SessionAt)
CompressionAt(p) == CiphersAt(p) + 2 + WordOf(p, CiphersAt(p))
ExtensionsAt(p) == CompressionAt(p) + 1 + ByteOf(p, CompressionAt(p))

\* The offsets of the items of a list, and of its end.
Spans(s, from, to) ==
    /\ s \in Seq(Nat) /\ Len(s) > 0
    /\ s[1] = from /\ s[Len(s)] = to
    /\ \A k \in DOMAIN s : s[k] <= to

ListsExtensions(h) ==
    LET p == h.payload
        s == h.extensions
        x == ExtensionsAt(p)
    IN  /\ x + 2 + WordOf(p, x) <= Len(p)
        /\ Spans(s, x + 2, x + 2 + WordOf(p, x))
        /\ h.sni \in 0 .. Len(s) - 1
        /\ \A k \in 1 .. Len(s) - 1 : /\ s[k + 1] = s[k] + 4 + WordOf(p, s[k] + 2)
                                      /\ WordOf(p, s[k]) = 0 <=> k = h.sni

\* The list in server_name: at least one name, at most one of type 0, in ASCII.
ListsNames(h) ==
    LET p    == h.payload
        s    == h.names
        data == h.extensions[h.sni] + 4
    IN  /\ data + 2 + WordOf(p, data) = h.extensions[h.sni + 1]
        /\ Spans(s, data + 2, h.extensions[h.sni + 1]) /\ Len(s) > 1
        /\ h.host \in 0 .. Len(s) - 1
        /\ \A k \in 1 .. Len(s) - 1 : /\ s[k + 1] = s[k] + 3 + WordOf(p, s[k] + 1)
                                      /\ ByteOf(p, s[k]) = 0 <=> k = h.host
        /\ h.host # 0 => \A i \in s[h.host] + 3 .. s[h.host + 1] - 1 : ByteOf(p, i) < 128

WellFormed(h) ==
    /\ h.payload \in Seq(Byte)
    /\ ByteOf(h.payload, 0) = 22 /\ ByteOf(h.payload, 5) = 1
    /\ 5 + WordOf(h.payload, 3) <= Len(h.payload)
    /\ ListsExtensions(h)
    /\ IF h.sni = 0 THEN h.host = 0 ELSE ListsNames(h)

ASSUME HelloAssumption == \A h \in Hellos : WellFormed(h)

\* The place of the host name.
HostPlace(h) ==
    IF h.host = 0 THEN NoName
    ELSE [at |-> h.names[h.host] + 3, len |-> WordOf(h.payload, h.names[h.host] + 1)]

-----------------------------------------------------------------------------
(* Properties.                                                             *)

\* No byte outside the payload is ever used, whatever lengths it contains: the
\* indexing of extract_sni_details raises nothing and no slice is short.
NoOverread == reads \subseteq 0 .. Size - 1

\* A name lies where the offset says, all of it inside the payload: the decoy's
\* letters and the cut of the strategies fall into it (sni_offset).
NameInside == name # NoName => name.at + name.len <= Size /\ name.at > 0

\* A well-formed ClientHello is recognised, and the name it has is found where it
\* is, whatever other extensions and names stand around it (extract_sni_details).
FindsName ==
    \A h \in Hellos : pc = "done" /\ payload = h.payload => isHello /\ name = HostPlace(h)

\* The loops end, even over extensions and names of length 0.
Terminates == <>(pc = "done")

=============================================================================
