---------------------------- MODULE MCClassifier ----------------------------
(***************************************************************************)
(* ClientHellos as a client builds them, and the same with one byte        *)
(* changed or the end cut off.  The random is 2 bytes short here.          *)
(***************************************************************************)
EXTENDS Classifier, FiniteSetsExt, SequencesExt

Sized(w, s) == (IF w = 1 THEN <<Len(s)>> ELSE <<0, Len(s)>>) \o s
Ext(t, s) == <<0, t>> \o Sized(2, s)
Letters(n) == [i \in 1 .. n |-> 97]
HostName(n) == <<0>> \o Sized(2, Letters(n))
OtherName(n) == <<1>> \o Sized(2, Letters(n))
Sni(names) == Ext(0, Sized(2, FlattenSeq(names)))

Fixed == [i \in 1 .. FixedLen |-> 3]

Handshake(sid, exts) ==
    Fixed \o Sized(1, Letters(sid)) \o Sized(2, <<19, 1>>) \o Sized(1, <<0>>) \o Sized(2, FlattenSeq(exts))

Hello(sid, exts) ==
    LET body == <<1, 0>> \o Sized(2, Handshake(sid, exts))
    IN  <<22, 3, 1>> \o Sized(2, body)

\* Where parts that follow each other begin, and where the last one ends.
Offsets(from, parts) == [k \in 1 .. Len(parts) + 1 |-> from + Len(FlattenSeq(SubSeq(parts, 1, k - 1)))]

\* A ClientHello built of its parts, with its layout: the extensions around server_name,
\* the names in it.
Described(sid, before, names, host, after) ==
    LET exts  == before \o (IF names = <<>> THEN <<>> ELSE <<Sni(names)>>) \o after
        first == 9 + FixedLen + (1 + sid) + (2 + 2) + (1 + 1) + 2
    IN  [payload |-> Hello(sid, exts), extensions |-> Offsets(first, exts),
         sni |-> IF names = <<>> THEN 0 ELSE Len(before) + 1,
         names |-> Offsets(first + Len(FlattenSeq(before)) + 4 + 2, names), host |-> host]

Before == {<<>>, <<Ext(10, <<>>)>>, <<Ext(10, <<0, 29>>), Ext(21, <<>>)>>}
After == {<<>>, <<Ext(16, <<2>>)>>}

NamedHellos ==
    {Described(sid, before, lead \o <<HostName(n)>>, Len(lead) + 1, after) :
        sid \in 0 .. 1, before \in Before, lead \in {<<>>, <<OtherName(1)>>}, n \in 2 .. 3, after \in After}

NamelessHellos ==
    {Described(0, <<>>, <<>>, 0, <<>>), Described(1, <<>>, <<>>, 0, <<Ext(16, <<2>>)>>),
     Described(0, <<>>, <<OtherName(2)>>, 0, <<Ext(16, <<2>>)>>)}

MCHellos == NamedHellos \cup NamelessHellos

\* Some are spoilt.
Spoilt == {Hello(0, <<>>), Hello(0, <<Sni(<<HostName(2)>>)>>),
           Hello(1, <<Ext(10, <<>>), Sni(<<OtherName(1), HostName(2)>>)>>)}

MCPayloads ==
    {h.payload : h \in MCHellos}
    \cup UNION {{[p EXCEPT ![i] = b] : i \in DOMAIN p, b \in {0, 1, 2, 4, 200, 255}} : p \in Spoilt}
    \cup UNION {{SubSeq(p, 1, n) : n \in 0 .. Len(p)} : p \in Spoilt}
    \cup UNION {{[SubSeq(p, 1, n) EXCEPT ![5] = 0] : n \in 5 .. Len(p)} : p \in Spoilt}
=============================================================================
