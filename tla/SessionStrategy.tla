--------------------------- MODULE SessionStrategy ---------------------------
(***************************************************************************)
(* dpiveil.autoselect.SessionStrategy: the object the main thread and the  *)
(* divert thread share.  The main thread calls set_probe, bind_probe,      *)
(* probe_applied, record_dns_answer and activate; the divert thread calls  *)
(* process for every outbound packet.  Each "with self._lock" block is one *)
(* step, so process is a sequence of steps between which the main thread   *)
(* may run: the snapshot it works from can be stale.                       *)
(***************************************************************************)
EXTENDS Strategies

CONSTANTS NoCandidate, NoPort

ASSUME SentinelsAssumption == NoCandidate \notin Candidates /\ NoPort \notin Ports

VARIABLES
    candidate,      \* _candidate
    port,           \* _port
    probeAddresses, \* _probe_addresses
    active,         \* _active
    applied,        \* _applied
    trackedIps      \* _tracked_ips

VARIABLES           \* the divert thread inside process()
    dpc,            \* its next step
    pkt,            \* the packet in hand
    snap,           \* the values copied under the lock
    learned,        \* learned_from_sni
    altered         \* is the output different from the packet?

sessionVars == <<candidate, port, probeAddresses, active, applied, trackedIps>>
divertVars == <<dpc, pkt, snap, learned, altered>>

MaybeCandidate == Candidates \cup {NoCandidate}
Snapshot == [candidate : MaybeCandidate, active : BOOLEAN]

SessionTypeOK ==
    /\ candidate \in MaybeCandidate
    /\ port \in Ports \cup {NoPort}
    /\ probeAddresses \subseteq Addrs
    /\ active \in BOOLEAN
    /\ applied \in BOOLEAN
    /\ trackedIps \subseteq Addrs

DivertTypeOK ==
    /\ dpc \in {"idle", "judge", "learn", "alter", "mark", "send"}
    /\ dpc # "idle" => pkt \in Packet
    /\ dpc # "idle" => snap \in Snapshot
    /\ dpc \in {"judge", "learn", "alter", "mark"} => snap.candidate \in Candidates
    /\ learned \in BOOLEAN
    /\ altered \in BOOLEAN

\* seeds: the addresses _seed_discord_ips recorded before the divert thread started.
SessionInit(seeds) ==
    /\ candidate = NoCandidate
    /\ port = NoPort
    /\ probeAddresses = {}
    /\ active = FALSE
    /\ applied = FALSE
    /\ trackedIps = seeds

\* Between packets the locals of process are dead; they keep one fixed value.
Idle ==
    /\ dpc' = "idle"
    /\ pkt' = NoPort
    /\ snap' = NoCandidate
    /\ learned' = FALSE
    /\ altered' = FALSE

DivertInit ==
    /\ dpc = "idle"
    /\ pkt = NoPort
    /\ snap = NoCandidate
    /\ learned = FALSE
    /\ altered = FALSE

-----------------------------------------------------------------------------
(* Operations of the main thread.  Each constrains sessionVars only.       *)

\* Mutated SetProbe: the port of the previous probe survives.
SetProbeKeepsPort(c, addrs) ==
    /\ candidate' = c
    /\ probeAddresses' = addrs
    /\ active' = FALSE
    /\ applied' = FALSE
    /\ UNCHANGED <<port, trackedIps>>

SetProbe(c, addrs) ==
    /\ candidate' = c
    /\ port' = NoPort
    /\ probeAddresses' = addrs
    /\ active' = FALSE
    /\ applied' = FALSE
    /\ UNCHANGED trackedIps

\* Mutated BindProbe: binding starts the probe anew and forgets the SYN.
BindProbeResets(c, p) ==
    /\ port' = IF candidate # c \/ active THEN port ELSE p
    /\ applied' = FALSE
    /\ UNCHANGED <<candidate, probeAddresses, active, trackedIps>>

BindProbe(c, p) ==
    /\ port' = IF candidate # c \/ active THEN port ELSE p
    /\ UNCHANGED <<candidate, probeAddresses, active, applied, trackedIps>>

\* An answer for a name that is not Discord's is dropped.
RecordDnsAnswer(host, addrs) ==
    /\ trackedIps' = IF MatchesActiveDomain(host) THEN trackedIps \cup addrs ELSE trackedIps
    /\ UNCHANGED <<candidate, port, probeAddresses, active, applied>>

Activate(c) ==
    /\ candidate' = c
    /\ port' = NoPort
    /\ probeAddresses' = {}
    /\ active' = TRUE
    /\ UNCHANGED <<applied, trackedIps>>

ProtectsIp(a) == active /\ a \in trackedIps

-----------------------------------------------------------------------------
(* process(packet), step by step.                                          *)

\* The early returns that look at the snapshot alone.
InScope(p) ==
    /\ IF Transport(candidate) = "udp"
         THEN p.kind = "udp"
         ELSE /\ p.kind # "udp"
              /\ \/ active
                 \/ Kind[candidate] = "syndata" /\ p.kind = "syn"
                 \/ p.src = port
    /\ active \/ probeAddresses = {} \/ p.dst \in probeAddresses

\* The first lock block: copy the session, then return early or go on.
TakeSnapshot(p) ==
    /\ dpc = "idle"
    /\ pkt' = p
    /\ snap' = [candidate |-> candidate, active |-> active]
    /\ learned' = FALSE
    /\ altered' = FALSE
    /\ dpc' = IF candidate = NoCandidate THEN "send"
              ELSE IF ~InScope(p) THEN "send"
              ELSE IF active THEN "judge"
              ELSE "alter"
    /\ UNCHANGED sessionVars

\* Mutated Teaches: any ClientHello teaches its address, whatever its name.
TeachesAnyName(p) == p.kind = "hello"

\* Mutated Teaches: only resolved addresses are ever protected.
TeachesNothing(p) == FALSE

Teaches(p) == p.kind = "hello" /\ MatchesActiveDomain(p.sni)

\* An address nobody resolved: only a ClientHello with a Discord name goes on.
\* The unlocked read of _tracked_ips and protects_ip are one step: once the
\* session is active, only this thread changes the set.
Judge ==
    /\ dpc = "judge"
    /\ dpc' = IF trackedIps = {} \/ ProtectsIp(pkt.dst) THEN "alter"
              ELSE IF Teaches(pkt) THEN "learn"
              ELSE "send"
    /\ UNCHANGED <<sessionVars, pkt, snap, learned, altered>>

Learn ==
    /\ dpc = "learn"
    /\ trackedIps' = IF active THEN trackedIps \cup {pkt.dst} ELSE trackedIps
    /\ learned' = TRUE
    /\ dpc' = "alter"
    /\ UNCHANGED <<candidate, port, probeAddresses, active, applied, pkt, snap, altered>>

ForceIp ==
    /\ snap.active
    /\ ~learned
    /\ ProtectsIp(pkt.dst)
    /\ Kind[snap.candidate] \in {"multisplit", "multidisorder", "fake_badseq"}

\* changed: more than one packet, or one that differs from the captured one.
Counts == altered'

Alter ==
    /\ dpc = "alter"
    /\ altered' = Alters(snap.candidate, pkt, ForceIp)
    /\ dpc' = IF ~snap.active /\ Counts THEN "mark" ELSE "send"
    /\ UNCHANGED <<sessionVars, pkt, snap, learned>>

\* process raises: nothing is marked, and run() falls back on the packet itself.
PassOn ==
    /\ dpc = "alter"
    /\ dpc' = "send"
    /\ UNCHANGED <<sessionVars, pkt, snap, learned, altered>>

MarkApplied ==
    /\ dpc = "mark"
    /\ applied' = (applied \/ candidate = snap.candidate)
    /\ dpc' = "send"
    /\ UNCHANGED <<candidate, port, probeAddresses, active, trackedIps>>
    /\ UNCHANGED <<pkt, snap, learned, altered>>

=============================================================================
