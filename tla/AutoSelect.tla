----------------------------- MODULE AutoSelect -----------------------------
(***************************************************************************)
(* An automatic session (app.run_auto): the main thread tests candidates   *)
(* over real connections while the divert thread (PacketEngine.run, the    *)
(* worker of run_auto) takes every captured packet through                 *)
(* SessionStrategy.process.  The two meet in the session object and in the *)
(* packets of the probes, which travel through the same FIFO capture queue *)
(* as the packets of every other program of the machine.                   *)
(***************************************************************************)
EXTENDS SessionStrategy, Sequences

CONSTANTS
    Rank,           \* Rank[c]: place of c in the order (priority, name)
    DiscordAddrs,   \* the addresses that serve Discord
    Seeds,          \* what the system resolver may have returned at start
    Answers,        \* the address lists resolve_verified may return
    AppPackets,     \* the packets other programs may send
    EngineFaults,   \* divert.send may fail for all of an output ("lost") or for its
                    \* decoy; the strategy may raise ("raise")
    MaxQueue        \* bound: packets captured and not yet read

ASSUME AutoSelectAssumption ==
    /\ Rank \in [Candidates -> Nat]
    /\ \A c, d \in Candidates : Rank[c] = Rank[d] => c = d
    /\ DiscordAddrs \subseteq Addrs
    /\ Seeds \subseteq DiscordAddrs
    /\ Answers \subseteq Seq(DiscordAddrs) \ {<<>>}
    /\ AppPackets \subseteq {p \in Packet : ~p.own}
    \* A server that is not Discord's is not asked for a Discord name.
    /\ \A p \in AppPackets : MatchesActiveDomain(p.sni) => p.dst \in DiscordAddrs
    /\ EngineFaults \subseteq {"lost", "decoy", "raise"}
    /\ MaxQueue \in Nat

VARIABLES           \* the main thread
    mpc,            \* its next step
    phase,          \* which of run_auto's tests it is in
    ips,            \* addresses
    left,           \* the addresses the current candidate has not been tried on
    trying,         \* the candidate in hand
    ok,             \* what _probe_candidate is about to return
    details,        \* details: the result of each candidate of the scan
    saved,          \* the candidate written to the strategy cache
    exitCode        \* what run_auto returns

VARIABLES           \* the machine
    engine,         \* the WinDivert handle: "starting", "up" or "down"
    queue,          \* captured packets, oldest first
    probePort,      \* the local port of the probe's socket while it is open
    delivered,      \* kinds of the probe's packets that left the machine
    ownAltered,     \* history: did a packet of the running probe leave altered?
    late,           \* history: was the packet in hand taken with no probe's socket open?
    verified        \* history: the candidates a response came through with, altered

mainVars == <<mpc, phase, ips, left, trying, ok, details, saved, exitCode>>
probeVars == <<probePort, delivered, ownAltered>>
handVars == <<divertVars, late>>
vars == <<sessionVars, handVars, mainVars, engine, queue, probeVars, verified>>

Untested == {c \in Candidates : details[c] = "untested"}
Successful == {c \in Candidates : details[c] = "pass"}

\* The promise of the selection, read off the scan and the shared session.
Sel == INSTANCE Selection WITH
           tested <- Candidates \ Untested,
           works <- Successful,
           chosen <- IF active THEN candidate ELSE NoCandidate

Results == {"untested", "pass", "fail"}
ExitCodes == {0, 1, 2}
NoCode == 3         \* run_auto has not returned

Probing == {"probe", "connecting", "handshake", "verify", "cleanup"}

MainTypeOK ==
    /\ mpc \in Probing \cup {"ready", "direct", "resolve", "load", "pick", "activate", "save",
                            "hold", "unwind", "closing", "exited"}
    /\ phase \in {"direct", "cached", "scan"}
    /\ ips \in Seq(DiscordAddrs)
    /\ mpc \in Probing \cup {"load", "pick"} => ips # <<>>
    /\ left \in Seq(DiscordAddrs)
    /\ mpc \in Probing => left # <<>>
    /\ trying \in MaybeCandidate
    /\ mpc \in Probing \cup {"activate", "save"} => trying \in Candidates
    /\ ok \in BOOLEAN
    /\ details \in [Candidates -> Results]
    /\ saved \in MaybeCandidate
    /\ exitCode \in ExitCodes \cup {NoCode}

MachineTypeOK ==
    /\ engine \in {"starting", "up", "down"}
    /\ queue \in Seq(Packet)
    /\ probePort \in Ports \cup {NoPort}
    /\ mpc \in {"connecting", "handshake"} => probePort \in Ports
    /\ delivered \subseteq {"syn", "hello", "record", "udp"}
    /\ ownAltered \in BOOLEAN
    /\ late \in BOOLEAN
    /\ verified \subseteq Candidates

\* Every variable holds a value of its kind, and the steps that use the
\* candidate or the packet in hand have one.
TypeOK == SessionTypeOK /\ DivertTypeOK /\ MainTypeOK /\ MachineTypeOK

Init ==
    /\ \E seeds \in SUBSET Seeds : SessionInit(seeds)
    /\ DivertInit
    /\ mpc = "ready"
    /\ phase = "direct"
    /\ ips = <<>>
    /\ left = <<>>
    /\ trying = NoCandidate
    /\ ok = FALSE
    /\ details = [c \in Candidates |-> "untested"]
    /\ saved = NoCandidate
    /\ exitCode = NoCode
    /\ engine = "starting"
    /\ queue = <<>>
    /\ probePort = NoPort
    /\ delivered = {}
    /\ ownAltered = FALSE
    /\ late = FALSE
    /\ verified = {}

-----------------------------------------------------------------------------
(* The engine's life: opened by the worker, it may die at any time.        *)

EngineOpens ==
    /\ engine = "starting"
    /\ engine' = "up"
    /\ UNCHANGED <<sessionVars, handVars, mainVars, queue, probeVars, verified>>

\* recv or classify_packet raises between two packets; with the handle gone,
\* packets pass the machine as if the program did not run.
EngineDies ==
    /\ engine # "down"
    /\ dpc = "idle"
    /\ engine' = "down"
    /\ queue' = <<>>
    /\ UNCHANGED <<sessionVars, handVars, mainVars, probeVars, verified>>

-----------------------------------------------------------------------------
(* The main thread up to the probes.                                       *)

Return(code) == mpc' = "closing" /\ exitCode' = code

\* ready.wait(timeout=5): ready and alive, or an error and the end.
AwaitEngine ==
    /\ mpc = "ready"
    /\ \/ engine = "up" /\ mpc' = "direct" /\ UNCHANGED exitCode
       \/ engine # "up" /\ Return(1)
    /\ UNCHANGED <<phase, ips, left, trying, ok, details, saved>>
    /\ UNCHANGED <<sessionVars, handVars, engine, queue, probeVars, verified>>

\* resolve_system and direct_works: the verdict of the network.
TestDirect ==
    /\ mpc = "direct"
    /\ mpc' \in {"hold", "resolve"}
    /\ UNCHANGED <<phase, ips, left, trying, ok, details, saved, exitCode>>
    /\ UNCHANGED <<sessionVars, handVars, engine, queue, probeVars, verified>>

\* resolve_verified raises, or its answer is recorded before any candidate is active.
Resolve ==
    /\ mpc = "resolve"
    /\ \/ \E answer \in Answers :
            /\ ips' = answer
            /\ RecordDnsAnswer("discord", {answer[i] : i \in DOMAIN answer})
            /\ mpc' = "load"
            /\ UNCHANGED exitCode
       \/ Return(1) /\ UNCHANGED <<sessionVars, ips>>
    /\ UNCHANGED <<phase, left, trying, ok, details, saved>>
    /\ UNCHANGED <<handVars, engine, queue, probeVars, verified>>

\* cache.load: a candidate of this profile, or none.
LoadCached ==
    /\ mpc = "load"
    /\ \/ /\ \E c \in Candidates : trying' = c
          /\ phase' = "cached"
          /\ left' = ips
          /\ mpc' = "probe"
       \/ /\ phase' = "scan"
          /\ mpc' = "pick"
          /\ UNCHANGED <<trying, left>>
    /\ UNCHANGED <<ips, ok, details, saved, exitCode>>
    /\ UNCHANGED <<sessionVars, handVars, engine, queue, probeVars, verified>>

-----------------------------------------------------------------------------
(* _probe_candidate.                                                       *)

InFlight == {queue[i] : i \in DOMAIN queue} \cup (IF dpc = "idle" THEN {} ELSE {pkt})

\* set_probe, then a socket: the system gives it a port no live packet carries.
StartProbe ==
    /\ mpc = "probe"
    /\ SetProbe(trying, {Head(left)})
    /\ probePort' \in Ports \ {p.src : p \in InFlight}
    /\ delivered' = {}
    /\ ownAltered' = FALSE
    /\ mpc' = IF Transport(trying) = "udp" THEN "handshake" ELSE "connecting"
    /\ UNCHANGED <<phase, ips, left, trying, ok, details, saved, exitCode>>
    /\ UNCHANGED <<handVars, engine, queue, verified>>

\* What the probe's socket sends while it waits.
Awaited == IF mpc = "connecting" THEN "syn"
           ELSE IF Transport(trying) = "udp" THEN "udp" ELSE "hello"

ProbePacket == [kind |-> Awaited, src |-> probePort, dst |-> Head(left),
                sni |-> IF Awaited = "hello" THEN "discord" ELSE "none", own |-> TRUE]

\* The socket sends or sends again, into the engine if there is one.
Transmit ==
    /\ mpc \in {"connecting", "handshake"}
    /\ \/ /\ engine = "up"
          /\ Len(queue) < MaxQueue
          /\ queue' = Append(queue, ProbePacket)
          /\ UNCHANGED delivered
       \/ /\ engine = "down"
          /\ delivered' = delivered \cup {Awaited}
          /\ UNCHANGED queue
    /\ UNCHANGED <<sessionVars, handVars, mainVars, engine, probePort, ownAltered, verified>>

\* The connection stands: on_connected binds the port before the ClientHello leaves.
Connected ==
    /\ mpc = "connecting"
    /\ "syn" \in delivered
    /\ BindProbe(trying, probePort)
    /\ mpc' = "handshake"
    /\ UNCHANGED <<phase, ips, left, trying, ok, details, saved, exitCode>>
    /\ UNCHANGED <<handVars, engine, queue, probeVars, verified>>

\* https_request closes its socket before it returns or raises: from here on
\* the port may be anybody's, but the session is bound to it until set_probe.
SocketCloses == probePort' = NoPort /\ UNCHANGED <<delivered, ownAltered>>

\* A complete, certificate-checked response.
Responded ==
    /\ mpc = "handshake"
    /\ Awaited \in delivered
    /\ SocketCloses
    /\ mpc' = "verify"
    /\ UNCHANGED <<phase, ips, left, trying, ok, details, saved, exitCode>>
    /\ UNCHANGED <<sessionVars, handVars, engine, queue, verified>>

\* A reset, a timeout, a bad certificate.
ProbeFails ==
    /\ mpc \in {"connecting", "handshake"}
    /\ SocketCloses
    /\ ok' = FALSE
    /\ mpc' = "cleanup"
    /\ UNCHANGED <<phase, ips, left, trying, details, saved, exitCode>>
    /\ UNCHANGED <<sessionVars, handVars, engine, queue, verified>>

\* Mutated Passed: any response is a success.
AnyResponse == TRUE

\* session.probe_applied()
Passed == applied

\* A response proves nothing unless the session saw a packet altered.
Verify ==
    /\ mpc = "verify"
    /\ ok' = Passed
    /\ verified' = IF ownAltered THEN verified \cup {trying} ELSE verified
    /\ mpc' = "cleanup"
    /\ UNCHANGED <<phase, ips, left, trying, details, saved, exitCode>>
    /\ UNCHANGED <<sessionVars, handVars, engine, queue, probeVars>>

\* Mutated Remaining: a failed address is tried again.
RemainingSame == left

\* for ip in ips
Remaining == Tail(left)

\* Mutated TryNextAddress: no break after a success, so the last address counts.
TryAllAddresses == Remaining # <<>>

TryNextAddress == ~ok /\ Remaining # <<>>

\* The finally clause and the caller's loop over the addresses.
Cleanup ==
    /\ mpc = "cleanup"
    /\ SetProbe(NoCandidate, {})
    /\ delivered' = {}
    /\ left' = Remaining
    /\ IF TryNextAddress
         THEN mpc' = "probe" /\ UNCHANGED <<phase, details>>
         ELSE IF phase = "cached"
         THEN /\ mpc' = IF ok THEN "activate" ELSE "pick"
              /\ phase' = IF ok THEN "cached" ELSE "scan"
              /\ UNCHANGED details
         ELSE /\ mpc' = "pick"
              /\ details' = [details EXCEPT ![trying] = IF ok THEN "pass" ELSE "fail"]
              /\ UNCHANGED phase
    /\ UNCHANGED <<ips, trying, ok, saved, exitCode, probePort, ownAltered>>
    /\ UNCHANGED <<handVars, engine, queue, verified>>

-----------------------------------------------------------------------------
(* test_candidates and the rest of run_auto.                               *)

\* for candidate in sorted(config.candidates)
PickNext ==
    /\ mpc = "pick"
    /\ Untested # {}
    /\ trying' \in Sel!Best(Untested)
    /\ left' = ips
    /\ mpc' = "probe"
    /\ UNCHANGED <<phase, ips, ok, details, saved, exitCode>>
    /\ UNCHANGED <<sessionVars, handVars, engine, queue, probeVars, verified>>

\* Mutated Choices: some candidate that works, not the best one.
ChoicesAny == Successful

\* min(successful, key=(priority, name))
Choices == Sel!Best(Successful)

\* The loop is over: min(successful), or nothing and exit code 2.
PickBest ==
    /\ mpc = "pick"
    /\ Untested = {}
    /\ \/ /\ trying' \in Choices
          /\ mpc' = "activate"
          /\ UNCHANGED exitCode
       \/ /\ Successful = {}
          /\ Return(2)
          /\ UNCHANGED trying
    /\ UNCHANGED <<phase, ips, left, ok, details, saved>>
    /\ UNCHANGED <<sessionVars, handVars, engine, queue, probeVars, verified>>

ActivateSelected ==
    /\ mpc = "activate"
    /\ Activate(trying)
    /\ mpc' = "save"
    /\ UNCHANGED <<phase, ips, left, trying, ok, details, saved, exitCode>>
    /\ UNCHANGED <<handVars, engine, queue, probeVars, verified>>

\* cache.save reports a failure and goes on.
Save ==
    /\ mpc = "save"
    /\ saved' \in {trying, saved}
    /\ mpc' = "hold"
    /\ UNCHANGED <<phase, ips, left, trying, ok, details, exitCode>>
    /\ UNCHANGED <<sessionVars, handVars, engine, queue, probeVars, verified>>

\* Mutated Holding: the hold after a working direct path watches nothing.
HoldingUnlessDirect == mpc = "hold" /\ phase # "direct"

Holding == mpc = "hold"

\* while thread.is_alive()
EngineLost ==
    /\ Holding
    /\ engine = "down"
    /\ Return(1)
    /\ UNCHANGED <<phase, ips, left, trying, ok, details, saved>>
    /\ UNCHANGED <<sessionVars, handVars, engine, queue, probeVars, verified>>

\* Mutated ProbeUnwinds: the finally clause resets the session whatever it holds.
ProbeUnwindsAlways == TRUE

\* Is _probe_candidate on the stack?
ProbeUnwinds == mpc \in {"connecting", "handshake", "verify", "cleanup"}

\* Ctrl+C anywhere in the try block; a running probe's socket is closed first,
\* and its finally clause still runs.
Interrupt ==
    /\ mpc \notin {"unwind", "closing", "exited"}
    /\ mpc' = IF ProbeUnwinds THEN "unwind" ELSE "closing"
    /\ exitCode' = 0
    /\ SocketCloses
    /\ UNCHANGED <<phase, ips, left, trying, ok, details, saved>>
    /\ UNCHANGED <<sessionVars, handVars, engine, queue, verified>>

\* The finally clause of an interrupted probe.
Unwind ==
    /\ mpc = "unwind"
    /\ SetProbe(NoCandidate, {})
    /\ delivered' = {}
    /\ mpc' = "closing"
    /\ UNCHANGED <<phase, ips, left, trying, ok, details, saved, exitCode>>
    /\ UNCHANGED <<handVars, engine, queue, probePort, ownAltered, verified>>

\* engine.stop() in run_auto's finally clause; the daemon thread ends with it.
StopEngine ==
    /\ mpc = "closing"
    /\ mpc' = "exited"
    /\ engine' = "down"
    /\ queue' = <<>>
    /\ Idle /\ late' = FALSE
    /\ UNCHANGED <<phase, ips, left, trying, ok, details, saved, exitCode>>
    /\ UNCHANGED <<sessionVars, probeVars, verified>>

-----------------------------------------------------------------------------
(* The divert thread and the other programs.                               *)

\* Another program sends; the system does not give it the port of an open socket.
AppSends ==
    /\ engine = "up"
    /\ Len(queue) < MaxQueue
    /\ \E p \in AppPackets :
         /\ p.src # probePort
         /\ queue' = Append(queue, p)
    /\ UNCHANGED <<sessionVars, handVars, mainVars, engine, probeVars, verified>>

TakePacket ==
    /\ engine = "up"
    /\ queue # <<>>
    /\ TakeSnapshot(Head(queue))
    /\ late' = (probePort = NoPort)
    /\ queue' = Tail(queue)
    /\ UNCHANGED <<mainVars, engine, probeVars, verified>>

JudgePacket == Judge /\ UNCHANGED <<late, mainVars, engine, queue, probeVars, verified>>

LearnAddress == Learn /\ UNCHANGED <<late, mainVars, engine, queue, probeVars, verified>>

FromProbe == pkt.own /\ pkt.src = probePort

\* When strategy.process raises, the engine sends the original packet unchanged.
AlterPacket ==
    /\ Alter \/ ("raise" \in EngineFaults /\ PassOn)
    /\ UNCHANGED <<late, mainVars, engine, queue, probeVars, verified>>

MarkPacket == MarkApplied /\ UNCHANGED <<late, mainVars, engine, queue, probeVars, verified>>

\* Something of the packet's kind arrives; changed: the network saw it altered.
Leaves(changed) ==
    IF FromProbe
      THEN /\ delivered' = delivered \cup {pkt.kind}
           /\ ownAltered' = (ownAltered \/ changed)
      ELSE UNCHANGED <<delivered, ownAltered>>

\* These candidates send a packet of their own and then the captured one.
SendsDecoy == altered /\ Kind[snap.candidate] \in {"fake_ttl", "fake_badseq"}

\* divert.send for each output packet: an OSError is counted and logged, and the
\* loop goes on with the next. process has long returned, applied is set.
SendPacket ==
    /\ dpc = "send"
    /\ Idle /\ late' = FALSE
    /\ \/ Leaves(altered)
       \/ "lost" \in EngineFaults /\ UNCHANGED <<delivered, ownAltered>>
       \/ "decoy" \in EngineFaults /\ SendsDecoy /\ Leaves(FALSE)
    /\ UNCHANGED <<sessionVars, mainVars, engine, queue, probePort, verified>>

-----------------------------------------------------------------------------

MainStep ==
    \/ AwaitEngine \/ TestDirect \/ Resolve \/ LoadCached
    \/ StartProbe \/ Connected \/ Responded \/ ProbeFails \/ Verify \/ Cleanup
    \/ PickNext \/ PickBest \/ ActivateSelected \/ Save
    \/ EngineLost \/ Unwind \/ StopEngine

DivertStep ==
    TakePacket \/ JudgePacket \/ LearnAddress \/ AlterPacket \/ MarkPacket \/ SendPacket

Environment == EngineOpens \/ EngineDies \/ Transmit \/ AppSends \/ Interrupt

Terminated == mpc = "exited" /\ UNCHANGED vars

Next == MainStep \/ DivertStep \/ Environment \/ Terminated

Spec == Init /\ [][Next]_vars

\* Every wait of the main thread has a timeout, so it always goes on; the
\* divert thread is never starved while it holds a packet.
FairSpec == Spec /\ WF_vars(MainStep) /\ WF_vars(DivertStep)

-----------------------------------------------------------------------------
(* Properties.                                                             *)

\* When a response is judged with the engine alive, the session's flag is
\* set exactly if a packet of this very probe was altered: neither a stale
\* packet, nor another program's, nor binding the port late changes that
\* (probe_applied in _probe_candidate; bind_probe "without resetting SYN results").
AppliedMeansAltered == mpc = "verify" /\ engine = "up" => (applied <=> ownAltered)

\* As long as the engine lives, the active strategy is one whose own altered
\* packets were answered with a verified response (test_candidates,
\* test_cached_candidate: the best VERIFIED result).
ActiveWasVerified == active /\ engine = "up" => candidate \in verified

\* run_auto gives up (return 2) only if nothing was ever verified, and then
\* leaves no strategy behind, neither in the session nor in the cache.
GivesUpEmptyHanded ==
    exitCode = 2 => verified = {} /\ ~active /\ saved = NoCandidate

\* No packet to an address that does not serve Discord is ever altered
\* (process: the scope tests on probe_addresses and _tracked_ips).
OnlyDiscordTouched == dpc = "send" /\ altered => pkt.dst \in DiscordAddrs

\* While candidates are tested, those bound to the probe's port alter the
\* probe's packets and nobody else's, not even to the probed address. Only
\* between the end of the probe's socket and set_probe(None) can the port be
\* another program's: nothing that was taken earlier, or later, with the port of
\* a probe that is over is altered (bind_probe, set_probe, the port test of process).
ProbeIsolation ==
    dpc = "send" /\ altered /\ ~snap.active /\ Kind[snap.candidate] \notin {"syndata", "ipfrag2"}
        => pkt.own \/ late

\* Once a strategy that works on ClientHellos is active, none with a Discord
\* name leaves unaltered, whether its address was resolved, was learned
\* earlier or is learned from this packet (process, force_ip).
FirstHelloAltered ==
    dpc = "send" /\ snap.active /\ pkt.kind = "hello" /\ pkt.sni = "discord"
    /\ Kind[snap.candidate] \in TcpKinds \ {"syndata"} /\ snap.candidate \notin Inert
        => altered

\* An address once protected stays protected as long as the session lives, so
\* the engine's verdicts on resets never fall back (protects_ip; the finally
\* clause of _probe_candidate resets the session, activate must come after it).
ProtectionLasts == [][\A a \in Addrs : ProtectsIp(a) => ProtectsIp(a)']_vars

\* The session keeps the promise of Selection.
Selects == Sel!SelectionSpec

\* The selection ends: a strategy holds, the direct path holds, or run_auto returns.
SelectionEnds == <>(mpc \in {"hold", "closing", "exited"})

\* A dead engine is noticed: the session does not outlive it.
EngineLossNoticed == engine = "down" ~> mpc = "exited"

\* What the comment in process says: learning an address from a ClientHello
\* keeps the first one from leaving unmodified.
LearnedHelloAltered == dpc = "send" /\ learned => altered

=============================================================================
