---------------------------- MODULE PacketEngine ----------------------------
(***************************************************************************)
(* dpiveil.engine.PacketEngine: the loop of run() over captured packets,   *)
(* with its two tables, the SYN-ACK fingerprints and the altered flows.    *)
(* One packet is handled at a time, by one thread, so a pass of the loop   *)
(* is one step.  The tables are pruned only by _report_if_needed, and that *)
(* runs only when a packet is handled.                                     *)
(***************************************************************************)
EXTENDS Naturals

CONSTANTS
    Remotes, IPv4, LocalPorts, Ttls, Ids, DropSuspectRst, None,
    MayProtect,     \* the addresses protects_ip may answer for; none in manual mode
    SynWindow,      \* 30 seconds
    FlowWindow,     \* 8 seconds
    StatsInterval,  \* stats_interval
    MaxOutputs,     \* the most packets a strategy makes of one
    MaxTime         \* bound: the clock stops here

ASSUME EngineAssumption ==
    /\ IPv4 \subseteq Remotes
    /\ Ttls \subseteq Nat
    /\ 0 \in Ids
    /\ MayProtect \subseteq Remotes
    /\ DropSuspectRst \in BOOLEAN
    /\ SynWindow \in Nat /\ FlowWindow \in Nat /\ StatsInterval \in Nat \ {0}
    /\ MaxOutputs \in Nat
    /\ MaxTime \in Nat
    /\ None \notin Nat
    /\ None \notin [ttl : Ttls, id : Ids, at : Nat]
    /\ None \notin [flow : Remotes \X LocalPorts, ttl : Ttls, id : Ids, dropped : BOOLEAN]

VARIABLES
    synAcks,        \* _syn_acks
    protectedFlows, \* _protected_flows
    lastReport,     \* _last_report
    now,            \* time.monotonic(), in seconds since the engine was made
    guarded,        \* the addresses protects_ip answers for
    lastPacket,     \* history: when the last packet was handled
    heard,          \* history: the last SYN-ACK of each flow
    split,          \* history: when a ClientHello of a flow last left as two packets
    judged          \* history: the last reset and what became of it

tableVars == <<synAcks, protectedFlows, lastReport>>
historyVars == <<lastPacket, heard, split, judged>>
vars == <<tableVars, now, guarded, historyVars>>

Filter == INSTANCE ResetFilter
Flows == Filter!Flows

\* Every entry of a table is a fingerprint or a time that has been.
TypeOK ==
    /\ now \in Nat /\ lastReport \in 0 .. now /\ lastPacket \in 0 .. now
    /\ synAcks \in [Flows -> Filter!SynAck \cup {None}]
    /\ protectedFlows \in [Flows -> Nat \cup {None}]
    /\ heard \in [Flows -> Filter!SynAck \cup {None}]
    /\ split \in [Flows -> Nat \cup {None}]
    /\ guarded \subseteq MayProtect
    /\ judged \in Filter!Verdict \cup {None}

Init ==
    /\ synAcks = [f \in Flows |-> None]
    /\ protectedFlows = [f \in Flows |-> None]
    /\ lastReport = 0
    /\ now = 0
    /\ guarded = {}
    /\ lastPacket = 0
    /\ heard = [f \in Flows |-> None]
    /\ split = [f \in Flows |-> None]
    /\ judged = None

\* is_suspect_rst
IsSuspectRst(syn, ttl, id) == syn.id = 0 /\ id # 0 /\ ttl + 1 = syn.ttl

-----------------------------------------------------------------------------
(* _report_if_needed, at the end of every pass of the loop.                *)

Due == now - lastReport >= StatsInterval

\* Mutated FreshSynAcks: one window for both tables.
FreshSynAcksShort(acks) ==
    [f \in Flows |-> IF acks[f] = None \/ now - acks[f].at > FlowWindow THEN None ELSE acks[f]]

FreshSynAcks(acks) ==
    [f \in Flows |-> IF acks[f] = None \/ now - acks[f].at > SynWindow THEN None ELSE acks[f]]

FreshFlows(flows) ==
    [f \in Flows |-> IF flows[f] = None \/ now - flows[f] > FlowWindow THEN None ELSE flows[f]]

\* Mutated EndPass: a report starts the statistics anew and keeps the tables.
EndPassNoPrune(acks, flows) ==
    /\ lastPacket' = now
    /\ lastReport' = IF Due THEN now ELSE lastReport
    /\ synAcks' = acks /\ protectedFlows' = flows

\* The tables after a pass that left them as acks and flows.
EndPass(acks, flows) ==
    /\ lastPacket' = now
    /\ IF Due
         THEN /\ lastReport' = now
              /\ synAcks' = FreshSynAcks(acks)
              /\ protectedFlows' = FreshFlows(flows)
         ELSE /\ synAcks' = acks /\ protectedFlows' = flows
              /\ UNCHANGED lastReport

-----------------------------------------------------------------------------
(* The passes of the loop.                                                 *)

\* The table after the SYN-ACK: a version 6 packet has no TTL the code reads.
Remember(f, ttl, id, syn) ==
    IF syn /\ f[1] \in IPv4
      THEN [synAcks EXCEPT ![f] = [ttl |-> ttl, id |-> id, at |-> now]] ELSE synAcks

DnsProtected(f) == f[1] \in guarded
TlsProtected(f) == protectedFlows[f] # None /\ now - protectedFlows[f] <= FlowWindow

\* The condition under which run() drops the reset instead of sending it on.
DropsReset(acks, f, ttl, id) ==
    /\ DropSuspectRst \/ DnsProtected(f)
    /\ acks[f] # None
    /\ TlsProtected(f) \/ DnsProtected(f)
    /\ now - acks[f].at <= SynWindow
    /\ f[1] \in IPv4
    /\ IsSuspectRst(acks[f], ttl, id)

\* A packet the filter "inbound and tcp.SrcPort == 443 and (tcp.Syn or tcp.Rst)" captures.
Inbound(f, ttl, id, syn, rst) ==
    LET acks == Remember(f, ttl, id, syn)
    IN  /\ judged' = IF rst THEN [flow |-> f, ttl |-> ttl, id |-> id,
                                  dropped |-> DropsReset(acks, f, ttl, id)] ELSE judged
        /\ heard' = IF syn /\ f[1] \in IPv4 THEN [heard EXCEPT ![f] = acks[f]] ELSE heard
        /\ EndPass(acks, protectedFlows)
        /\ UNCHANGED <<now, guarded, split>>

\* sent_count == 2
Counted(sent) == sent = 2

\* A captured ClientHello leaves as some packets, of which some can be sent.
ClientHello(f, sent) ==
    /\ EndPass(synAcks, IF Counted(sent) THEN [protectedFlows EXCEPT ![f] = now]
                        ELSE protectedFlows)
    /\ split' = IF sent = 2 THEN [split EXCEPT ![f] = now] ELSE split
    /\ UNCHANGED <<now, guarded, heard, judged>>

\* Any other outbound packet: no table changes but by the report.
OtherOutbound ==
    /\ EndPass(synAcks, protectedFlows)
    /\ UNCHANGED <<now, guarded, heard, split, judged>>

\* Anybody on the path may have sent it, over whichever route: any TTL will do.
Arrives ==
    \E f \in Flows, ttl \in Ttls, id \in Ids, syn, rst \in BOOLEAN : Inbound(f, ttl, id, syn, rst)

Leaves == OtherOutbound \/ \E f \in Flows, sent \in 0 .. MaxOutputs : ClientHello(f, sent)

\* SessionStrategy learns addresses and, once active, forgets none.
Protects ==
    /\ \E a \in MayProtect \ guarded : guarded' = guarded \cup {a}
    /\ UNCHANGED <<tableVars, now, historyVars>>

Tick == now < MaxTime /\ now' = now + 1 /\ UNCHANGED <<tableVars, guarded, historyVars>>

Next == Arrives \/ Leaves \/ Protects \/ Tick

Spec == Init /\ [][Next]_vars

-----------------------------------------------------------------------------
(* Properties.                                                             *)

\* The engine drops exactly the resets ResetFilter drops: pruning the tables
\* at irregular times changes no verdict, and a flow of which only half of a
\* split ClientHello was sent is not protected (run, _report_if_needed).
Filters == Filter!FilterSpec

\* The tables hold nothing a report should have pruned by the last packet:
\* they grow with the connections of some forty seconds, not with uptime,
\* although nothing but the arrival of packets prunes them (_report_if_needed).
MemoryBounded ==
    \A f \in Flows :
        /\ synAcks[f] # None => lastPacket - synAcks[f].at < SynWindow + StatsInterval
        /\ protectedFlows[f] # None => lastPacket - protectedFlows[f] < FlowWindow + StatsInterval

=============================================================================
