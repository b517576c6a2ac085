------------------------- MODULE PacketEngineProofs -------------------------
(***************************************************************************)
(* What the tables of the engine promise, for every number of flows, every *)
(* window and every report interval: no verdict depends on the pruning.    *)
(***************************************************************************)
EXTENDS PacketEngine, Integers, TLAPS

\* A SYN-ACK is in the table, or it is too old to be evidence.
SynAcksAgree ==
    \A f \in Flows :
        \/ synAcks[f] = heard[f]
        \/ synAcks[f] = None /\ heard[f] # None /\ now - heard[f].at > SynWindow

\* A flow is in the table, or it is no longer freshly altered.
FlowsAgree ==
    \A f \in Flows :
        \/ protectedFlows[f] = split[f]
        \/ protectedFlows[f] = None /\ split[f] # None /\ now - split[f] > FlowWindow

\* What was remembered is past, and of version 4.
HeardPast == \A f \in Flows : heard[f] # None => heard[f].at <= now /\ f[1] \in IPv4

SplitsPast == \A f \in Flows : split[f] # None => split[f] <= now

\* At the last report everything older than its window went.
Pruned ==
    /\ lastPacket - lastReport < StatsInterval
    /\ \A f \in Flows :
         /\ synAcks[f] # None => lastReport - synAcks[f].at <= SynWindow
         /\ protectedFlows[f] # None => lastReport - protectedFlows[f] <= FlowWindow

Inv ==
    /\ TypeOK
    /\ SynAcksAgree
    /\ FlowsAgree
    /\ HeardPast
    /\ SplitsPast
    /\ Pruned

USE DEF Flows, Filter!Flows, Filter!SynAck

-----------------------------------------------------------------------------
(* The end of a pass.                                                      *)

\* Whatever tables a pass hands to the report, an entry that is gone
\* afterwards had passed its window, and one that stays had not.
LEMMA EndPassPrunes ==
    ASSUME TypeOK,
           NEW acks \in [Flows -> Filter!SynAck \cup {None}],
           NEW flows \in [Flows -> Nat \cup {None}],
           EndPass(acks, flows)
    PROVE  /\ synAcks' \in [Flows -> Filter!SynAck \cup {None}]
           /\ protectedFlows' \in [Flows -> Nat \cup {None}]
           /\ lastPacket' = now
           /\ lastReport' \in {lastReport, now}
           /\ now - lastReport' < StatsInterval
           /\ \A f \in Flows :
                /\ synAcks'[f] = acks[f] \/ (synAcks'[f] = None /\ now - acks[f].at > SynWindow)
                /\ protectedFlows'[f] = flows[f]
                     \/ (protectedFlows'[f] = None /\ now - flows[f] > FlowWindow)
                /\ synAcks'[f] # None /\ lastReport' # lastReport
                     => lastReport' - synAcks'[f].at <= SynWindow
                /\ protectedFlows'[f] # None /\ lastReport' # lastReport
                     => lastReport' - protectedFlows'[f] <= FlowWindow
  <1>1. CASE Due
    BY <1>1, EngineAssumption DEF TypeOK, EndPass, Due, FreshSynAcks, FreshFlows
  <1>2. CASE ~Due
    BY <1>2, EngineAssumption DEF TypeOK, EndPass, Due
  <1>3. QED BY <1>1, <1>2

\* The tables of a pass agree with the past it leaves, so the pass keeps the
\* invariant: the part of the argument every handler shares.
LEMMA PassKeepsTables ==
    ASSUME Inv,
           NEW acks \in [Flows -> Filter!SynAck \cup {None}],
           NEW flows \in [Flows -> Nat \cup {None}],
           EndPass(acks, flows),
           UNCHANGED <<now, guarded>>,
           heard' \in [Flows -> Filter!SynAck \cup {None}],
           split' \in [Flows -> Nat \cup {None}],
           judged' \in Filter!Verdict \cup {None},
           HeardPast', SplitsPast',
           \A f \in Flows : \/ acks[f] = heard'[f] /\ acks[f].at = now
                            \/ acks[f] = synAcks[f] /\ heard'[f] = heard[f],
           \A f \in Flows : \/ flows[f] = split'[f] /\ flows[f] = now
                            \/ flows[f] = protectedFlows[f] /\ split'[f] = split[f]
    PROVE  TypeOK' /\ SynAcksAgree' /\ FlowsAgree' /\ Pruned'
  <1> USE DEF Inv, TypeOK
  <1>0. /\ synAcks' \in [Flows -> Filter!SynAck \cup {None}]
        /\ protectedFlows' \in [Flows -> Nat \cup {None}]
        /\ lastPacket' = now
        /\ lastReport' \in {lastReport, now}
        /\ now - lastReport' < StatsInterval
        /\ \A f \in Flows :
             /\ \/ synAcks'[f] = acks[f]
                \/ synAcks'[f] = None /\ now - acks[f].at > SynWindow
             /\ \/ protectedFlows'[f] = flows[f]
                \/ protectedFlows'[f] = None /\ now - flows[f] > FlowWindow
             /\ synAcks'[f] # None /\ lastReport' # lastReport
                  => lastReport' - synAcks'[f].at <= SynWindow
             /\ protectedFlows'[f] # None /\ lastReport' # lastReport
                  => lastReport' - protectedFlows'[f] <= FlowWindow
    BY EndPassPrunes
  <1>1. TypeOK'
    <2>1. TypeOK BY DEF Inv
    <2>2. lastReport' \in 0 .. now' /\ lastPacket' \in 0 .. now'
      BY <2>1, <1>0 DEF TypeOK
    <2>3. QED BY <2>1, <2>2, <1>0 DEF TypeOK
  <1>2. SynAcksAgree'
    <2> SUFFICES ASSUME NEW f \in Flows
                 PROVE  \/ synAcks'[f] = heard'[f]
                        \/ synAcks'[f] = None /\ heard'[f] # None /\ now' - heard'[f].at > SynWindow
      BY DEF SynAcksAgree
    <2>1. CASE synAcks'[f] = acks[f]
      BY <2>1 DEF SynAcksAgree
    <2>2. CASE synAcks'[f] # acks[f]
      <3>1. acks[f] # None /\ synAcks'[f] = None /\ now - acks[f].at > SynWindow
        BY <2>2, <1>0 DEF EndPass, FreshSynAcks
      <3>2. acks[f] = heard'[f]
        BY <3>1 DEF SynAcksAgree
      <3>3. QED BY <3>1, <3>2
    <2>3. QED BY <2>1, <2>2
  <1>3. FlowsAgree'
    <2> SUFFICES ASSUME NEW f \in Flows
                 PROVE  \/ protectedFlows'[f] = split'[f]
                        \/ protectedFlows'[f] = None /\ split'[f] # None /\ now' - split'[f] > FlowWindow
      BY DEF FlowsAgree
    <2>1. CASE protectedFlows'[f] = flows[f]
      BY <2>1 DEF FlowsAgree
    <2>2. CASE protectedFlows'[f] # flows[f]
      <3>1. flows[f] # None /\ protectedFlows'[f] = None /\ now - flows[f] > FlowWindow
        BY <2>2, <1>0 DEF EndPass, FreshFlows
      <3>2. flows[f] = split'[f]
        BY <3>1 DEF FlowsAgree
      <3>3. QED BY <3>1, <3>2
    <2>3. QED BY <2>1, <2>2
  <1>4. Pruned'
    <2>1. lastPacket' - lastReport' < StatsInterval
      BY <1>0
    <2>2. ASSUME NEW f \in Flows, synAcks'[f] # None
          PROVE  lastReport' - synAcks'[f].at <= SynWindow
      <3>1. CASE lastReport' # lastReport BY <2>2, <3>1, <1>0
      <3>2. CASE lastReport' = lastReport
        <4>1. synAcks'[f] = acks[f] BY <2>2, <1>0
        <4>2. CASE acks[f] = synAcks[f] BY <2>2, <3>2, <4>1, <4>2 DEF Pruned
        <4>3. CASE acks[f].at = now
          BY <3>2, <4>1, <4>3, EngineAssumption DEF TypeOK
        <4>4. QED BY <4>2, <4>3
      <3>3. QED BY <3>1, <3>2
    <2>3. ASSUME NEW f \in Flows, protectedFlows'[f] # None
          PROVE  lastReport' - protectedFlows'[f] <= FlowWindow
      <3>1. CASE lastReport' # lastReport BY <2>3, <3>1, <1>0
      <3>2. CASE lastReport' = lastReport
        <4>1. protectedFlows'[f] = flows[f] BY <2>3, <1>0
        <4>2. CASE flows[f] = protectedFlows[f] BY <2>3, <3>2, <4>1, <4>2 DEF Pruned
        <4>3. CASE flows[f] = now
          BY <3>2, <4>1, <4>3, EngineAssumption DEF TypeOK
        <4>4. QED BY <4>2, <4>3
      <3>3. QED BY <3>1, <3>2
    <2>4. QED BY <2>1, <2>2, <2>3 DEF Pruned
  <1>5. QED BY <1>1, <1>2, <1>3, <1>4
-----------------------------------------------------------------------------
(* The passes.                                                             *)

LEMMA InitInv == Init => Inv
  BY EngineAssumption DEF Init, Inv, TypeOK, SynAcksAgree, FlowsAgree, HeardPast,
     SplitsPast, Pruned

\* An inbound packet: what is remembered agrees with the past.
LEMMA InboundInv ==
    ASSUME Inv,
           NEW f \in Flows, NEW ttl \in Ttls, NEW id \in Ids, NEW syn \in BOOLEAN, NEW rst \in BOOLEAN,
           Inbound(f, ttl, id, syn, rst)
    PROVE  Inv'
  <1> DEFINE acks == Remember(f, ttl, id, syn)
  <1>1. /\ acks \in [Flows -> Filter!SynAck \cup {None}]
        /\ \A g \in Flows : \/ acks[g] = heard'[g] /\ acks[g].at = now
                            \/ acks[g] = synAcks[g] /\ heard'[g] = heard[g]
        /\ heard' \in [Flows -> Filter!SynAck \cup {None}]
    BY DEF Inv, TypeOK, Inbound, Remember
  <1>2. HeardPast'
    <2> SUFFICES ASSUME NEW g \in Flows, heard'[g] # None
                 PROVE  heard'[g].at <= now /\ g[1] \in IPv4
      BY DEF HeardPast, Inbound
    <2>1. CASE heard'[g] = heard[g] BY <2>1 DEF Inv, HeardPast
    <2>2. CASE heard'[g] # heard[g]
      <3>1. syn /\ f[1] \in IPv4 /\ g = f /\ heard'[g] = [ttl |-> ttl, id |-> id, at |-> now]
        BY <2>2 DEF Inv, TypeOK, Inbound, Remember
      <3>2. QED BY <3>1 DEF Inv, TypeOK
    <2>3. QED BY <2>1, <2>2
  <1>3. judged' \in Filter!Verdict \cup {None}
    <2>1. DropsReset(acks, f, ttl, id) \in BOOLEAN BY DEF DropsReset
    <2>2. QED BY <2>1 DEF Inv, TypeOK, Inbound, Filter!Verdict
  <1>5. SplitsPast' BY DEF Inv, SplitsPast, Inbound
  <1>6. TypeOK' /\ SynAcksAgree' /\ FlowsAgree' /\ Pruned'
    <2>1. EndPass(acks, protectedFlows) /\ UNCHANGED <<now, guarded, split>>
      BY DEF Inbound
    <2>2. protectedFlows \in [Flows -> Nat \cup {None}] /\ split \in [Flows -> Nat \cup {None}]
      BY DEF Inv, TypeOK
    <2> HIDE DEF acks
    <2>3. QED BY <1>1, <1>2, <1>3, <1>5, <2>1, <2>2, PassKeepsTables
  <1>7. QED BY <1>2, <1>5, <1>6 DEF Inv

\* A ClientHello: the flow is in the table exactly if both packets were sent.
LEMMA ClientHelloInv ==
    ASSUME Inv, NEW f \in Flows, NEW sent \in 0 .. MaxOutputs, ClientHello(f, sent)
    PROVE  Inv'
  <1> DEFINE flows == IF Counted(sent) THEN [protectedFlows EXCEPT ![f] = now] ELSE protectedFlows
  <1>1. /\ flows \in [Flows -> Nat \cup {None}]
        /\ \A g \in Flows : \/ flows[g] = split'[g] /\ flows[g] = now
                            \/ flows[g] = protectedFlows[g] /\ split'[g] = split[g]
        /\ split' \in [Flows -> Nat \cup {None}]
    BY DEF Inv, TypeOK, ClientHello, Counted
  <1>2. HeardPast' BY DEF Inv, HeardPast, ClientHello
  <1>3. SplitsPast' BY DEF Inv, TypeOK, SplitsPast, ClientHello
  <1>5. TypeOK' /\ SynAcksAgree' /\ FlowsAgree' /\ Pruned'
    <2>1. EndPass(synAcks, flows) /\ UNCHANGED <<now, guarded, heard, judged>>
      BY DEF ClientHello
    <2>2. synAcks \in [Flows -> Filter!SynAck \cup {None}]
          /\ heard \in [Flows -> Filter!SynAck \cup {None}] /\ judged \in Filter!Verdict \cup {None}
      BY DEF Inv, TypeOK
    <2> HIDE DEF flows
    <2>3. QED BY <1>1, <1>2, <1>3, <2>1, <2>2, PassKeepsTables
  <1>6. QED BY <1>2, <1>3, <1>5 DEF Inv

LEMMA OtherOutboundInv == ASSUME Inv, OtherOutbound PROVE Inv'
  <1>1. HeardPast' /\ SplitsPast'
    BY DEF Inv, HeardPast, SplitsPast, OtherOutbound
  <1>2. /\ EndPass(synAcks, protectedFlows)
        /\ UNCHANGED <<now, guarded, heard, split, judged>>
    BY DEF OtherOutbound
  <1>3. TypeOK BY DEF Inv
  <1>4. TypeOK' /\ SynAcksAgree' /\ FlowsAgree' /\ Pruned'
    BY <1>1, <1>2, <1>3, PassKeepsTables DEF TypeOK
  <1>5. QED BY <1>1, <1>4 DEF Inv

LEMMA StepInv == ASSUME Inv, [Next]_vars PROVE Inv'
  <1>1. CASE Arrives BY <1>1, InboundInv DEF Arrives
  <1>2. CASE Leaves BY <1>2, OtherOutboundInv, ClientHelloInv DEF Leaves
  <1>3. CASE Protects
    BY <1>3 DEF Protects, Inv, TypeOK, SynAcksAgree, FlowsAgree, HeardPast, SplitsPast,
       Pruned, tableVars, historyVars
  <1>4. CASE Tick
    <2>1. TypeOK' BY <1>4 DEF Tick, Inv, TypeOK, tableVars, historyVars
    <2>0. /\ now \in Nat /\ now' = now + 1 /\ SynWindow \in Nat /\ FlowWindow \in Nat
          /\ UNCHANGED <<synAcks, protectedFlows, heard, split>>
          /\ \A f \in Flows : /\ heard[f] # None => heard[f].at \in Nat
                              /\ split[f] # None => split[f] \in Nat
      BY <1>4, EngineAssumption DEF Tick, Inv, TypeOK, tableVars, historyVars
    <2>2. SynAcksAgree' BY <2>0 DEF Inv, SynAcksAgree
    <2>3. FlowsAgree' BY <2>0 DEF Inv, FlowsAgree
    <2>4. HeardPast' /\ SplitsPast'
      BY <1>4 DEF Tick, Inv, TypeOK, HeardPast, SplitsPast, tableVars, historyVars
    <2>5. Pruned'
      BY <1>4 DEF Tick, Inv, Pruned, tableVars, historyVars
    <2>6. QED BY <2>1, <2>2, <2>3, <2>4, <2>5 DEF Inv
  <1>5. CASE UNCHANGED vars
    BY <1>5 DEF vars, Inv, TypeOK, SynAcksAgree, FlowsAgree, HeardPast, SplitsPast,
       Pruned, tableVars, historyVars
  <1>6. QED BY <1>1, <1>2, <1>3, <1>4, <1>5 DEF Next

\* The tables always agree with the past as far as it can still matter.
THEOREM InvAlways == Spec => []Inv
  BY InitInv, StepInv, PTL DEF Spec

-----------------------------------------------------------------------------
(* What follows.                                                           *)

\* TypeOK holds for every set of remotes, windows and report interval.
THEOREM TypeCorrect == Spec => []TypeOK
  <1>1. Inv => TypeOK BY DEF Inv
  <1>2. QED BY <1>1, InvAlways, PTL

\* However irregularly packets come, the tables hold nothing older than a
\* window and a report interval (_report_if_needed on every path of run).
THEOREM MemorySafe == Spec => []MemoryBounded
  <1>1. Inv => MemoryBounded
    <2> SUFFICES ASSUME Inv, NEW f \in Flows
                 PROVE  /\ synAcks[f] # None => lastPacket - synAcks[f].at < SynWindow + StatsInterval
                        /\ protectedFlows[f] # None =>
                               lastPacket - protectedFlows[f] < FlowWindow + StatsInterval
      BY DEF MemoryBounded
    <2>1. QED BY EngineAssumption DEF Inv, TypeOK, Pruned
  <1>2. QED BY <1>1, InvAlways, PTL

\* A verdict read off the tables is the verdict of the whole past.
LEMMA SameVerdict ==
    ASSUME Inv, Inv',
           NEW f \in Flows, NEW ttl \in Ttls, NEW id \in Ids, NEW syn \in BOOLEAN, NEW rst \in BOOLEAN,
           Inbound(f, ttl, id, syn, rst)
    PROVE  DropsReset(Remember(f, ttl, id, syn), f, ttl, id) <=> Filter!Drops(heard', f, ttl, id)
  <1> DEFINE acks == Remember(f, ttl, id, syn)
  <1>1. \/ acks[f] = heard'[f]
        \/ acks[f] = None /\ heard'[f] # None /\ now - heard'[f].at > SynWindow
    BY DEF Inv, TypeOK, SynAcksAgree, Inbound, Remember
  <1>2. TlsProtected(f) <=> split[f] # None /\ now - split[f] <= FlowWindow
    BY EngineAssumption DEF Inv, TypeOK, FlowsAgree, TlsProtected
  <1>3. acks[f] # None /\ now - acks[f].at <= SynWindow
        <=> heard'[f] # None /\ now - heard'[f].at <= SynWindow
    <2>1. heard'[f] # None => now - heard'[f].at \in Int
      BY DEF Inv, TypeOK
    <2>2. QED BY <1>1, <2>1, EngineAssumption
  <1>4. acks[f] # None /\ now - acks[f].at <= SynWindow => acks[f] = heard'[f]
    BY <1>1
  <1>5. ASSUME DropsReset(acks, f, ttl, id) PROVE Filter!Drops(heard', f, ttl, id)
    <2>1. acks[f] = heard'[f] BY <1>4, <1>5 DEF DropsReset
    <2>2. QED
      BY <1>2, <1>5, <2>1 DEF DropsReset, DnsProtected, IsSuspectRst, Filter!Drops, Filter!Suspect
  <1>6. ASSUME Filter!Drops(heard', f, ttl, id) PROVE DropsReset(acks, f, ttl, id)
    <2>1. acks[f] = heard'[f] BY <1>3, <1>4, <1>6 DEF Filter!Drops
    <2>2. QED
      BY <1>2, <1>6, <2>1 DEF DropsReset, DnsProtected, IsSuspectRst, Filter!Drops, Filter!Suspect
  <1>7. QED BY <1>5, <1>6

LEMMA StepFilters ==
    ASSUME Inv, Inv', [Next]_vars
    PROVE  [Filter!FilterNext]_Filter!filterVars
  <1>1. CASE Arrives
    <2> PICK f \in Flows, ttl \in Ttls, id \in Ids, syn \in BOOLEAN, rst \in BOOLEAN :
             Inbound(f, ttl, id, syn, rst)
      BY <1>1 DEF Arrives
    <2>1. DropsReset(Remember(f, ttl, id, syn), f, ttl, id) = Filter!Drops(heard', f, ttl, id)
      BY SameVerdict DEF DropsReset, Filter!Drops
    <2>2. heard' = IF syn /\ f[1] \in IPv4
                   THEN [heard EXCEPT ![f] = [ttl |-> ttl, id |-> id, at |-> now]] ELSE heard
      BY DEF Inbound, Remember, Inv, TypeOK
    <2>3. Filter!Receives(f, ttl, id, syn, rst)
      BY <2>1, <2>2 DEF Inbound, Filter!Receives
    <2>4. QED BY <2>3 DEF Filter!FilterNext
  <1>2. CASE Leaves
    <2>1. CASE OtherOutbound BY <2>1 DEF OtherOutbound, Filter!filterVars
    <2>2. CASE \E f \in Flows, sent \in 0 .. MaxOutputs : ClientHello(f, sent)
      <3> PICK f \in Flows, sent \in 0 .. MaxOutputs : ClientHello(f, sent) BY <2>2
      <3>1. CASE sent = 2
        <4>1. Filter!Splits(f) BY <3>1 DEF ClientHello, Filter!Splits
        <4>2. QED BY <4>1 DEF Filter!FilterNext
      <3>2. CASE sent # 2 BY <3>2 DEF ClientHello, Filter!filterVars
      <3>3. QED BY <3>1, <3>2
    <2>3. QED BY <1>2, <2>1, <2>2 DEF Leaves
  <1>3. CASE Protects
    <2>1. Filter!Guards
      BY <1>3, EngineAssumption DEF Protects, Filter!Guards, tableVars, historyVars, Inv, TypeOK
    <2>2. QED BY <2>1 DEF Filter!FilterNext
  <1>4. CASE Tick
    <2>1. Filter!TimePasses
      BY <1>4 DEF Tick, Filter!TimePasses, tableVars, historyVars, Inv, TypeOK
    <2>2. QED BY <2>1 DEF Filter!FilterNext
  <1>5. CASE UNCHANGED vars BY <1>5 DEF vars, Filter!filterVars, historyVars
  <1>6. QED BY <1>1, <1>2, <1>3, <1>4, <1>5 DEF Next

\* The engine implements ResetFilter: a filter that never forgets anything.
THEOREM EngineFilters == Spec => Filters
  <1>1. Init => Filter!FilterInit BY DEF Init, Filter!FilterInit
  <1>2. QED BY <1>1, StepFilters, InvAlways, PTL DEF Spec, Filters, Filter!FilterSpec

=============================================================================
