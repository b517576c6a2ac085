----------------------------- MODULE ResetFilter -----------------------------
(***************************************************************************)
(* What the inbound half of the engine promises: which TCP resets are      *)
(* dropped, told from the whole past of a flow.  Nothing is ever forgotten *)
(* here, so the verdict cannot depend on what was pruned or when.          *)
(***************************************************************************)
EXTENDS Naturals

CONSTANTS
    Remotes,        \* remote addresses
    IPv4,           \* those of version 4: only their packets have a fingerprint
    LocalPorts,     \* local TCP ports
    Ttls,           \* time-to-live values of inbound packets
    Ids,            \* IP identification fields
    SynWindow,      \* how long a SYN-ACK is evidence
    FlowWindow,     \* how long a flow counts as freshly altered
    DropSuspectRst, \* the option drop_suspect_rst of the strategy
    None

VARIABLES
    now,            \* the monotonic clock
    guarded,        \* the addresses protects_ip answers for
    heard,          \* the last SYN-ACK of each flow, or None
    split,          \* when a ClientHello of the flow last left as two packets, or None
    judged          \* the last reset and what became of it, or None

filterVars == <<now, guarded, heard, split, judged>>

Flows == Remotes \X LocalPorts
SynAck == [ttl : Ttls, id : Ids, at : Nat]
Verdict == [flow : Flows, ttl : Ttls, id : Ids, dropped : BOOLEAN]

\* A reset one hop nearer than the SYN-ACK, and from another IP stack.
Suspect(syn, ttl, id) == syn.id = 0 /\ id # 0 /\ ttl + 1 = syn.ttl

Drops(past, f, ttl, id) ==
    /\ f[1] \in IPv4
    /\ past[f] # None
    /\ now - past[f].at <= SynWindow
    /\ Suspect(past[f], ttl, id)
    /\ \/ f[1] \in guarded
       \/ DropSuspectRst /\ split[f] # None /\ now - split[f] <= FlowWindow

FilterInit ==
    /\ now = 0
    /\ guarded = {}
    /\ heard = [f \in Flows |-> None]
    /\ split = [f \in Flows |-> None]
    /\ judged = None

TimePasses ==
    /\ now' \in Nat
    /\ now <= now'
    /\ UNCHANGED <<guarded, heard, split, judged>>

Guards ==
    /\ guarded' \in SUBSET Remotes
    /\ guarded \subseteq guarded'
    /\ UNCHANGED <<now, heard, split, judged>>

\* An inbound packet with some of the flags SYN+ACK and RST: a SYN-ACK is
\* remembered before a reset is judged.
Receives(f, ttl, id, syn, rst) ==
    /\ heard' = IF syn /\ f[1] \in IPv4
                THEN [heard EXCEPT ![f] = [ttl |-> ttl, id |-> id, at |-> now]] ELSE heard
    /\ judged' = IF rst THEN [flow |-> f, ttl |-> ttl, id |-> id,
                              dropped |-> Drops(heard', f, ttl, id)] ELSE judged
    /\ UNCHANGED <<now, guarded, split>>

Splits(f) ==
    /\ split' = [split EXCEPT ![f] = now]
    /\ UNCHANGED <<now, guarded, heard, judged>>

FilterNext ==
    \/ TimePasses \/ Guards
    \/ \E f \in Flows :
         \/ Splits(f)
         \/ \E ttl \in Ttls, id \in Ids, syn, rst \in BOOLEAN : Receives(f, ttl, id, syn, rst)

FilterSpec == FilterInit /\ [][FilterNext]_filterVars

=============================================================================
