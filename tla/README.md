# TLA+ models of DPIveil

DPIveil is a Windows console program. It captures the machine's outbound packets
with WinDivert, looks for a packet-level *strategy* that gets TLS connections to
Discord through the network, keeps that strategy in force for Discord's addresses
and leaves every other packet alone. While it runs, a temporary Windows DNS policy
sends Discord's names to a DNS-over-HTTPS resolver.

This directory holds TLA+ modules translated from the Python source, TLC
configurations that check them on small instances, and proofs for TLAPS.
`PROJECT.json` maps every definition to the lines it models.

## 1. Inventory

| component | source | state | operations | meets the others through |
|---|---|---|---|---|
| Shared session, `SessionStrategy` | `autoselect.py` | `_candidate`, `_port`, `_probe_addresses`, `_active`, `_applied`, `_tracked_ips`, a lock | `set_probe`, `bind_probe`, `probe_applied`, `record_dns_answer`, `activate`, `protects_ip`, `process` | called by the main thread (all but `process`) and by the divert thread (`process`, `protects_ip`) |
| Automatic selection | `autoselect.py`, `app.run_auto` | position in the loops, the results, the candidate in hand | `test_cached_candidate`, `test_candidates`, `_probe_candidate`, activation, save, hold | probes, session, cache, engine thread |
| Packet engine | `engine.py` | WinDivert handle, SYN-ACK records, protected flows, time of the last report | `run`, `stop`, outbound loop, inbound RST filter, `_report_if_needed` | takes packets of every program to `process`; started and watched by `run_auto` |
| Strategies | `strategies/` | none | `process`, `process_forced` of each kind | called by `process` |
| Windows DNS policy | `dns_policy.py` | `rule_names`, `doh_was_present`, `original_doh`, `started`, `_stopped`, `_stop_lock`; NRPT rules and the DoH entry in Windows | `start`, `stop` | PowerShell; `stop` is called by the main thread and by the console handler |
| Process life | `app.run`, `system.py` | registered handler | start policy, register, session, stop, unregister | DNS policy, session |
| Strategy cache | `strategy_cache.py` | a JSON file, a temporary file | `load`, `save` | `run_auto` |
| Probes and resolver | `probes.py` | sockets | `probe_ip`, `probe_quic_ip`, `resolve_verified`, `resolve_system` | the probes' packets pass through the engine |
| Classifier | `classifier.py` | none | `classify_packet`, ClientHello and SNI parser | engine, strategies |
| Configuration | `candidates.py`, `profiles.py`, dataclasses | none | validation, normalisation | read once |
| Manual mode | `app.run_manual`, `tls_fragment.py` | none | fixed strategy | engine |
| Runtime, platform checks, logging, build | `runtime.py`, `system.py`, `main.py`, `build.ps1` | none | paths, privileges | - |

What makes each of them hard, and what makes it correct:

* **Session.** Two threads meet in it. `process` copies the session under the
  lock, works on the copy without it and takes the lock again to learn an address
  or to set `_applied`. The main thread may end a probe, start another or activate
  a strategy in between. *Correct when* a result is credited to the probe and the
  candidate that earned it and packets of strangers pass unaltered.
* **Selection.** Nested loops (cached candidate, candidates, addresses) with early
  success, over probes that can hang, be reset or be answered late, and an engine
  that can die at any moment. *Correct when* every candidate is tested, the best
  one that works is chosen and only once, a candidate is activated only after its
  own altered packets were answered, nothing is left behind on failure, and the
  selection ends.
* **Engine.** The inbound half judges RST packets by a recorded SYN-ACK and by
  elapsed time; its tables are pruned only when a packet passes and a report is
  due; a pair of packets may be sent only half; ports are used again. *Correct
  when* the tables stay small and what they forget changes no verdict.
* **DNS policy.** What it changes outlives the process. Commands fail or time out,
  Ctrl+C arrives during `start`, the console is closed while the main thread
  already cleans up, the process is killed. *Correct when* the user's settings
  come back, no rule of an earlier run stays in force, the message at the end is
  true, and the process is not ended in the middle of its cleanup.
* **Cache.** A file that is aged, trimmed and replaced atomically, by processes
  that may be killed or run at once. *Correct when* a kill leaves the old or the new
  file, what is loaded was saved for the same network and profile, and what
  `save` says it kept is there.
* **TCP strategies.** Sequence numbers of 32 bits, segments that are cut, swapped,
  doubled, lost and sent again with other boundaries. *Correct when* the server
  reads what the client wrote, and no segment has the name that a cut divides.
* **IP fragmentation.** Offsets in units of 8 bytes, over datagrams that may be
  fragments already. *Correct when* the receiver puts together what was sent.
* **Classifier.** Nested lengths taken from the bytes of any program, outside of a
  `try`. *Correct when* it reads nothing it was not given, ends, and finds the name.
* **Resolver.** Two servers, two tools, peers that may be somebody else. *Correct
  when* an answer comes from a verified peer and every server is asked.

`PROJECT.json` lists 40 hazards at their lines, each with the properties that
cover it or the reason why none does.

## 2. Modules

```
Strategies            what a candidate does to one packet
   ^
SessionStrategy       the shared object and process(), step by step
   ^
AutoSelect ---------> Selection (abstract)      a whole session
   ^         ^
MCAutoSelect AutoSelectProofs

PacketEngine -------> ResetFilter (abstract)    the tables and the inbound half
WindowsDNSPolicy      the policy, stop() on two threads, run after run
StrategyCache         load and save, several processes, kills
HelloStream           what a server makes of the segments of a TCP strategy
IPFragments           what a receiver makes of the fragments of ipfrag2
Classifier            extract_sni_details
Resolver              resolve_verified
```

Each of the eight that are specifications has an `MC` module with the values of
its constants and a module of proofs. An arrow to the
right is a refinement, `INSTANCE ... WITH` and the abstract specification as a
property. The other modules meet through what they assume of each other:
`AutoSelect` takes from the strategies whether a packet is altered,
`PacketEngine` takes from the session only that the set of guarded addresses
never shrinks (`Protects`, which `ProtectionLasts` shows of `AutoSelect`), and
`HelloStream` takes from the classifier where the name is (`FindsName`).

### Strategies
A packet is `[kind, src, dst, sni, own]`, reduced to what the code's tests tell
apart. `Alters(c, p, force)` says whether `CandidateStrategy.process(packet,
force_ip)` returns anything but the packet itself. The details that differ between
kinds are kept: `process_forced` of the split kinds takes any TLS record, that of
`fake_ttl` does nothing, `syndata` sees SYNs only, and a trailing dot in a server
name is dropped by some matchers and not by others. `Inert` holds candidates whose
split position lies outside every packet; a candidate that alters some sizes and
not others is not represented.

### SessionStrategy
The variables are the object's fields. The main thread's methods are one step
each, for each is one `with self._lock` block. `process` is
`TakeSnapshot` (first block and the early returns on the snapshot), `Judge`
(an address nobody resolved), `Learn` (second block), `Alter` (the strategy, with
`force_ip`), `MarkApplied` (third block); between any two of them the main thread
may run. The unlocked read of `_tracked_ips` is one step with `protects_ip`,
because once the session is active no other thread writes that set.

### AutoSelect and Selection
The session, both threads, the FIFO capture queue and the other programs of the
machine. The main thread is the path of `run_auto` from `ready.wait` to the exit code:
`AwaitEngine`, `TestDirect`, `Resolve`, `LoadCached`, per probe `StartProbe`,
`Connected` (`on_connected` calls `bind_probe` after the TCP handshake),
`Responded` or `ProbeFails` (either closes the probe's socket), `Verify`
(`probe_applied`), `Cleanup` (the `finally` clause, `set_probe(None)`, and the
caller's loop), then `PickNext`, `PickBest`, `ActivateSelected`,
`Save`, `EngineLost`, `StopEngine`. `Interrupt` is Ctrl+C at any step; a probe it
ends has its socket closed and then its `finally` clause run (`Unwind`). Between the
end of the socket and `set_probe(None)` the session is still bound to a port that any
program may be given (`probePort` is `NoPort`, the session's `port` is not).
The divert thread takes the oldest packet through `process` and sends it;
`EngineFaults` lets `divert.send` fail for all of an output or for its decoy, and the
strategy raise, upon which the engine sends the packet as it was. A probe
is answered only if its packet got out: `delivered` records that, and when the
engine is down packets bypass it. `ownAltered`, `verified` and `late` are history
variables: no code reads them; they say what really happened on the wire, and whether
the packet in hand was taken while no probe's socket was open.

`Selection` is the abstract promise: candidates are tested best first, the best that
works or a remembered one is chosen, and a choice is final. `AutoSelect` implements
it (property `Selects`) under

    tested <- the candidates with a result,  works <- those that passed,
    chosen <- the session's candidate while the session is active

### PacketEngine and ResetFilter
One pass of the loop of `run` is one step, for one thread handles one packet at a
time: `Inbound` (the SYN-ACK is remembered before a reset is judged),
`ClientHello` (a flow is protected only if exactly two packets could be sent),
`OtherOutbound`; `EndPass`, which each of them ends with, is `_report_if_needed` and prunes the
tables. A packet has any TTL, a server's own packets too. `ResetFilter` says which resets are dropped from the whole past of a
flow and forgets nothing; property `Filters` says that the engine, which forgets,
never decides otherwise.

### WindowsDNSPolicy
Windows (`rules`, `doh`, and the history `userDoh`, the entry as it is without the
program) survives the process; the fields of the object do not. `start` is one
action per PowerShell command, each with its success, failure and
timeout; a timed-out command may or may not have had its effect. Where the script silences
its errors a failure is not heard: a Get of the snapshot that fails reads as "no entry"
(`SnapshotDoh`), and stale rules whose Remove fails stay while `start` goes on
(`SomeStay`). `Add-DnsClientDohServerAddress` fails on an entry that exists
(`CanConfigure`). `stop` is
parameterised by the thread that runs it and holds the lock over its commands, as
the code does. `subprocess.TimeoutExpired` escapes `stop`'s except clauses
(`Raise`). When the close handler has returned, Windows ends the process whatever
the main thread is doing (`ConsoleCloses`). NRPT rules are named by the run that
made them; the four fields of the DoH entry are one value with three cases:
absent, the user's, the program's. `Faults` chooses what may go wrong, and the
history `wrong` says what did: the run began with leftovers (`dirty`), its snapshot
missed an entry (`missed`), a stale rule stayed (`kept`), a command
failed that should have cleaned up (`failed`), the process left without `stop`
(`left`). The history variable `missed` says the same of all runs so far.

### StrategyCache
`save` is `BeginSave` (read, add, trim to `MAX_ENTRIES`), `OpenTemporary`,
`FillTemporary`, `Replace`; `Abandon` is a kill or an `OSError` between any two of
them. `load` is one step. Several processes share both files; `Damage` and
`ClockSetBack` are the faults of the machine. A file is a map from networks to
entries, or torn, or missing. What `load` returned is kept in `loaded` for one step
and then forgotten, which keeps the state space small and loses no behaviour.

### HelloStream
One connection under one strategy. The byte at position `i` of the client's stream
is `i`, so a byte in the wrong place shows. `RecordBytes` are the positions whose byte is 0x16:
the forced path takes any segment that begins with one for a TLS record. `Outputs` is what each strategy makes of a
segment, sequence numbers modulo `SeqSpace`. The client sends again from any
acknowledged or full-segment boundary, with the ClientHello alone or with what
follows it, the network loses, repeats and reorders, the server takes what is in its window.
The network keeps no order, so `multisplit` and `multidisorder` (and the two
directions of the manual strategy) differ in nothing here. `Place(s, i)` is where the server
puts the `i`-th byte of a segment by its sequence number, `Fits(s)` are the bytes that lie in its window.

### IPFragments
`First` and `Second` are the two fragments `_fragment` makes of a packet, which may
be a fragment of the sender itself. A later fragment of the sender has no UDP
header and passes by, unless its data look like one to port 443 (`taken`).

### Classifier
Each length the parser reads is a step; `reads` holds the offsets the step used.
The three nested structures (record and handshake, extensions, names) are the three
groups of actions. `WellFormed(h)` says what a ClientHello is without the parser: the offsets
of its extensions and of the names in `server_name` follow each other to the ends that the
lengths before them give, and at most one extension and one name is of type 0. `HelloAssumption`
says that `Hellos` holds such layouts, and `FindsName` that the parser finds in each what its layout says.

### Resolver
One step per request: `PythonAnswered`, `PythonRejects` (the certificate chain, on to
curl), `CurlAnswered`, `Fail`, `Escape` (an exception no clause names), `Parse`.
`chain` says what requests to a server meet: a chain everybody verifies, one whose issuer only
Windows knows, or somebody on the path. `Lowest` sorts a set of addresses by how many are
below each (`Rank`).

## 3. Runs

Passing runs check for deadlock too; a finished system stutters explicitly
(`Terminated`, `Rest`, `Finished`). Only `fragments` may really stop, when every
datagram is sent and every fragment is gone, and says so.

| run | instance | what it shows |
|---|---|---|
| `session_tcp` | candidates `split`, `split2` (inert), `syndata`; two addresses; 4 ports, queue of 2; packets may fail to be sent | `applied` means the probe's own packet was altered; the active strategy was verified; giving up leaves nothing behind; only Discord's packets are altered; the first ClientHello is caught; the session implements `Selection` |
| `session_live` | `fake_ttl`, `ipfrag2`; other programs send to the probed address, from the probe's port too once its socket is closed; packets and lone decoys may fail to be sent, strategies may raise; fair | a probe bound to a port alters nobody else's packets, but for those taken while the port is bound and its socket closed; protection lasts; the selection ends; a dead engine ends the session |
| `learned_hello` | `syndata` alone | violation, see section 6 |
| `engine` | an IPv4 and an IPv6 remote, packets with any of the TTLs, one port used again and again, a clock of five ticks | the tables stay small; the engine implements `ResetFilter` |
| `dns_faults` | 3 runs of the program, every fault, heard or not, fair | the message is true; a clean run restores Windows; the close handler waits for the cleanup, and not for ever; this run's rule is in force, alone unless a removal failed unheard; the user's entry is never removed unless a snapshot missed it |
| `dns_left` | 1 run, a failing registration or Ctrl+C during `start` | violation, see section 6 |
| `cache` | 2 processes, 2 networks, `MAX_ENTRIES` 1, two profiles, damage, a clock set back | what is loaded was saved for this network and profile in time; the file is whole; no entry is revived; what `save` kept is there |
| `stream` | every TCP strategy, plain and forced, three segment sizes, wrapping sequence numbers; fair | the stream is intact and arrives; no segment has the name a cut divides |
| `classifier` | well-formed ClientHellos, and some with one byte changed or the end cut off; fair | no byte outside the payload is read; the name is found, and inside; the parser ends |
| `fragments` | two datagrams of five sizes, cut anywhere by the sender | what is put together is what was sent, and everything can be |
| `resolver` | two servers, three kinds of chain, all bodies over three addresses; fair | addresses come from a verified peer; curl is asked only after a certificate error; every server is asked; the call ends |
| `resolver_escape` | the same | violation, see section 6 |

**Bounds.**
* Session: `MaxQueue` bounds the packets captured and unread. 2 lets a stale packet
  of the previous probe stand behind a packet of another program while the main
  thread has moved on, the longest overlap the properties speak of. `Ports` is
  larger than `MaxQueue + 1`, so that a port no live packet carries always exists.
  Three candidates make a best, a worse and a failing one; two addresses make a retry.
  Each kind but `multidisorder` (treated exactly as `multisplit`) and `fake_badseq`
  (bound to the port like `fake_ttl`; forced like `multisplit`) is in one of the
  runs. `Transmit` may repeat, which covers retransmissions.
* Engine: `SynWindow` 2, `FlowWindow` 1 and `StatsInterval` 2 keep the order of the
  real 30, 8 and 10 seconds in the one respect that counts: an entry can be too old and not yet
  pruned, and be pruned while the other table still has the flow. A clock of five ticks
  passes both windows and two reports.
* DNS policy: three runs are a crashed one, the one that inherits from it and one
  after that.
* Cache: `MaxEntries` 1 with two networks makes every second save trim; `MaxAge` 1
  and `Skew` 0 with a clock that goes to 2 give entries too old and, with the clock set back
  (once), too new.
* Stream: a ClientHello of 6 bytes with a name of 3, sequence numbers modulo 64 from
  62, so that they wrap inside the name; segments of 3 (the hello spans several), 4
  and 8 bytes (hello and following data in one); a decoy 20 bytes back, outside a
  window of 10. `RecordBytes` has the first byte of the hello, its last and the two
  behind it.
* Classifier: a random and version of 2 bytes instead of 34, names of 2 and 3 letters,
  every single byte set to six values, every truncation, with and without a matching length.
* Fragments: a position of 8, and sizes around one, two and three units.

**Symmetry.** Ports (`session_tcp`), networks and processes (`cache`), identifications
(`fragments`) are interchangeable: nothing orders them and no property names one. The
runs with liveness use none.

**Fairness.** `AutoSelect`: weak fairness of the main thread's
steps, for each of its waits has a limit in the code (`ready.wait(timeout=5)`, the
socket timeouts of the probes, curl's and PowerShell's timeouts), and of the divert
thread, which only computes. Nothing is assumed of other programs, of the engine
staying alive, of retransmissions, or of the user; a probe may fail for ever.
`WindowsDNSPolicy`: weak fairness of both threads (commands have timeouts of at most
20 seconds), none of the end of the session, of Ctrl+C or of the closing of the
console. `HelloStream`: the client sends again what is not acknowledged, and a
segment that is sent again and again arrives (strong fairness of delivery, per first byte);
both are TCP's and the network's, not the program's. `Resolver`: each request has a timeout.
`Classifier`: the parser is scheduled.

**Assumptions about the environment.**
* The system does not give the port of an open socket to another program, nor to a probe
  one that a live packet still carries.
* `resolve_verified` and the seeding at start return addresses that serve Discord
  (seeding runs after the DoH policy is in force), and a program asks only Discord's
  servers for Discord's names.
* Acknowledgement numbers are ignored: any inbound SYN-ACK is remembered, from whomever it is.
* Windows renames no file that another process has open, and two saves are at least
  one unit of time apart.
* The two decoys are what they are meant to be (`DecoyAssumption`): `fake_ttl` is less than
  the distance to the server, and `badseq_increment` points outside the server's window from the first
  byte of the stream to the last. The window takes the first segment of a divided name
  (`WindowAssumption`). A server ignores the data of `syndata`'s SYN, which carries no byte of the stream and is left out there.
* One DPIveil process at a time works on the DNS policy; several share the cache.

**Mutants.** For every property of a passing run, `PROJECT.json` names a plausible
bug (a reset that forgets the port, a bind that clears the flag, a missing break, a
window confused with another, a cut at the wrong byte, ...), written as a
`Mutated ...` operator in front of the definition it replaces. With that bug the
property fails under the same configuration.

## 4. Proofs

They hold for every value of the constants that meets the named assumptions, which
TLC evaluates in every run. Each preservation proof has one step per action of
`Next`; the inductive invariants were checked with TLC before they were proved.

**`AutoSelectProofs`**
* `TypeCorrect`: `TypeOK` is inductive as stated, because it says which steps
  have a candidate, an address, a port or a packet in hand.
* `DiscordOnly` (`OnlyDiscordTouched`). `DiscordInv` says that both address sets
  hold addresses of Discord only, **and** that they are not empty when it matters:
  `process` reads an empty `_probe_addresses` or `_tracked_ips` as "no restriction".
  The snapshot can be stale; what the divert thread has concluded from it about the
  packet in hand is part of the invariant.
* `ProtectionMonotone` (`ProtectionLasts`), from `ActiveInv`: an active session is
  past its probes, so nothing resets it.

Then a chain in which each invariant uses the ones before:
* `RunInv`: what the session holds while a probe runs is this probe's.
  `FlightInv`: a live packet with the probe's port is the probe's, to its address.
  `HandInv`: what that means for the packet in the divert thread's hand, however old its snapshot.
  Theorem `ProbesIsolated` (`ProbeIsolation`). The session's port may outlive the probe's socket
  (`Running` beside `Open`), so the property speaks of packets that were taken while a socket was
  open (`~late`): of these only the probe's own are altered, also when the step that alters
  them comes after the socket is closed, and also for a port that was the last probe's.
* `ResultInv`, `DeliveredInv`: the flag against what was delivered. Theorem
  `AppliedTrue` (`AppliedMeansAltered`), **provided that no decoy fails to be sent on
  its own and no strategy raises**: a lone ClientHello whose decoy was lost counts as a
  success in the code, see section 5.
* `ScanInv`: the candidate in hand is the best untested one. Theorem `SessionSelects`
  (`Selects`): every step maps to a test, a choice or a stutter of `Selection`.
* `LossInv`: a verified candidate is never forgotten. Theorem `GivesUpLast` (`GivesUpEmptyHanded`).
* `EarnedInv`: with the engine alive success is verified success. Theorem `ActiveEarned`
  (`ActiveWasVerified`), under the same provisos as `AppliedTrue`.
* `FirstInv`: theorem `FirstHelloSafe` (`FirstHelloAltered`), provided that no strategy raises.

**`PacketEngineProofs`**: `TypeCorrect`; `MemorySafe` (`MemoryBounded`);
`EngineFilters` (`Filters`): a table and the history agree on every entry
that still counts (`SynAcksAgree`, `FlowsAgree`), which is what makes pruning harmless.

**`WindowsDNSPolicyProofs`**, for any faults and any number of runs
* `TypeCorrect`, including that the lock is held by exactly the thread inside `stop`'s body.
* `CloseSafe` (`CloseWaitsForCleanup`). `CloseInv`: a thread has begun or finished
  `stop` only if `_stopped` is set, and once a call has returned nobody is in the body.
  The second caller reads `_stopped` only when the lock is free.
* `UserEntrySafe` (`UserEntryKept`). `UserInv` ties the snapshot to the entry until
  the end of `stop`, in every run until a snapshot misses an entry.
* `RuleAlone` (`OneRuleInForce`). `StartInv` follows the rules through `start`: whatever
  stayed of earlier runs, this run's rule is there and is what `rule_names` holds.
* `ReportHonest` (`HonestReport`) and `ExitRestores` (`NormalExitRestores`).
  `CleanInv`: what a thread at each step of the body has got done (`Stage`), as long as
  every failure has been counted. `BlindInv`: a run whose snapshot missed an entry cannot
  add its own, so `started` is never set and the message is never chosen; `HonestReport`
  therefore needs no exception for it.

**`StrategyCacheProofs`**, for any number of processes and networks: `TypeCorrect`;
`LoadSafe` (`LoadedWasSaved`): entries enter files and jobs only by `save`;
`FileWhole` (`NeverTorn`) and `NothingRevived` (`NoneRevived`) from `Single`: without an
overlap one process works at a time, and its temporary file is its own once filled;
`KeptSafe` (`SavedIsKept`) from `KeptInv`: all entries are older than the clock, so
the new one survives the trimming (`TrimmedKeeps`, by cardinality).

**`HelloStreamProofs`**, for every ClientHello, split position, segment size, sequence space
and window
* Lemmas on sequence numbers (`ModAdd`, `ModBelow`, `ModUnique`) and on the byte the server waits for
  (`Missing`: it exists and is the only one, by well-foundedness of the naturals; `MissingGrows`: it never goes back).
* Every strategy makes of a piece of the stream only pieces of the stream and decoys (`OutputForms`).
  Theorem `NothingDropped`: the pieces have every byte of the one they are made of, under its number
  and with the client's TTL. The server's progress in `StreamArrives` rests on it.
* `TypeCorrect`: `TypeOK` is inductive as stated.
* `StreamSafe` (`StreamIntact`). `FlightInv`: what is in the network is a piece of the stream, dies on
  the way, or is `Astray`, outside of the window wherever the server has got to (`AstrayMisses`). A piece is put
  where it belongs even if part of it lies behind the window (`PlaceTrue`, `FitsTrue`).
* `NameDivided` (`HostnameSplit`). A client that begins again inside the name would send the rest of it
  unsplit, but that alone is not the whole; what has to be excluded is a segment that begins between the first byte and
  the name and is no ClientHello any more. `SplitInv`: the server has all of the first piece
  or nothing of it, so the client never begins there, and every segment in the network
  ends in the name or begins inside or behind it.

**`ClassifierProofs`**, for every payload of any length
* `ParserSafe` (`NoOverread`), `NameSafe` (`NameInside`), from the order of the ends the parser has read (`Bounds`).
* `ParserAdvances`: every step lowers `StepsLeft`, at first `3 * Size + 7`. Nothing the payload says
  makes the loops stand still; `Terminates` needs only the scheduler beside it.
* `FindsSafe` (`FindsName`), for every layout that is `WellFormed`. `Follows`: the parser stands where a
  vector, an extension or a name begins, and not past the one it looks for.

**`IPFragmentsProofs`**, for every position and size: `TypeCorrect`,
`FragmentsSafe` (`ReassembledIntact`), `FragmentsSuffice` (`NothingMissing`).

**`ResolverProofs`**, for every list of servers, any addresses and any `max_ips`
* `GivesUpSafe` (`GivesUpLast`), `CurlSafe` (`CurlOnlyAfterCertificate`), from `SearchInv`: the servers
  before the one in hand have failed, those after it are not asked.
* `TypeCorrect`, `AnswerSafe` (`AnswerVerified`) and `AnswerOrdered`: the answer is the lowest addresses of
  the last body, ascending. The ranks of a finite set of numbers are an injection into, and
  by cardinality onto, the numbers below its size (`Ranked`), so that `Lowest` is well defined.
* `SearchAdvances`: a call makes at most three steps for each server, whatever they answer.

**Model-checked only.** The liveness properties `SelectionEnds`, `EngineLossNoticed`,
`CloseEnds`, `StreamArrives`, `Terminates` and `Ends`: they follow from fairness, and fairness from
ENABLED, which is out of the prover's reach. For `Terminates` and `Ends` the bounds above are proved, so what is
left to TLC is that a step is always possible. Every safety property a passing run
checks is a theorem.

## 5. Limits

What the code does not promise, and the properties therefore exclude by a condition:

* `syndata` and `ipfrag2` candidates are not bound to the probe's port. Another program's SYN to
  the probed address sets `_applied`; if the engine then dies, the probe's own packets go
  out untouched, the response counts as a success and the candidate may be saved.
  `AppliedMeansAltered` and `ActiveWasVerified` hold while the engine lives.
* `divert.send` may fail for the decoy and not for the packet; the flag is set before. The
  probe then went out as if untreated and counts as a success. A strategy that raises lets the
  packet through unaltered (`engine.py:175-178`), the first ClientHello to a new address too.
* The probe's socket is closed at `probes.py:69`, `set_probe(None)` runs at `autoselect.py:314`, after
  the response has been read and logged. A program that is given the port in between and talks
  to the probed address has its packet altered (`late` in `ProbeIsolation`).
* `_snapshot_doh` cannot tell a failing Get from an absent entry. With an entry of the user's in
  place `start` then fails at `Add-DnsClientDohServerAddress`, and its `stop` removes the entry with no
  command of the cleanup failing, although the comment at `dns_policy.py:193-194` speaks of removing
  "only the entry we added" (`missed` in `UserEntryKept` and `NormalExitRestores`). Nobody says then that the
  settings are restored.
* A stale rule whose Remove fails unheard (`dns_policy.py:137`) stays in force beside the new one and
  after it (`kept` in `OneRuleInForce`).
* The SYN-ACK's fingerprint and the protected flow are kept by address and local port
  (`engine.py:123`, `129`). After the port is used again, or when the server's packets take another route, a
  genuine reset may look suspect and be dropped. `ResetFilter` keeps its history the same way and promises no more.
* After a crash the next run takes the program's own DoH entry for the user's, "restores" it and
  says so (`dirty` in `HonestReport`). A timed-out command aborts the cleanup (`failed`).
* With the clock set back, entries dated in the future outlive the one just saved when the
  file is full (`clock` in `SavedIsKept`). Two processes that save at once share the temporary
  file (`overlap`).
* A `badseq_increment` that points into the server's window would let the decoy in.

Not modelled, and why:

* Validation and normalisation of the configuration: pure checks, done once before
  anything runs; what they let through are the assumptions on the constants
  (`FragmentAssumption`, `CandidatesAssumption`, ...).
* The loop of `run_manual`: that of `run_auto` without a selection. Its strategy is in
  `HelloStream` and its reset option in `PacketEngine`.
* The diagnostics after the selection and the WebSocket probe: they log and change no state.
  HTTP is an outcome of a probe or of a request.
* Runtime paths, driver loading, logging, privileges, packaging: no behaviour to check.
* Two DPIveil processes on one DNS policy: the second would remove the first one's rule at
  `dns_policy.py:132`; listed as a hazard.
* The numbers in a cache file: a `saved_at` too large for a float raises `OverflowError`, which
  neither `load` nor `save` expects; listed as a hazard.
* The header checksum and the DF bit of a fragmented packet; packets `_fragment` returns as they
  are because they are malformed or of version 6.

## 6. Findings

Each is a run whose property TLC finds violated by what the code does.

1. **`learned_hello`.** With `syndata` active, the first ClientHello to an address
   nobody resolved teaches the address and leaves unmodified: `syndata` alters SYNs
   only, and the SYN of that connection had passed before the address was known. The
   comment at `autoselect.py:191-193` says learning prevents an unmodified first
   ClientHello. For the kinds that work on ClientHellos it does (`FirstHelloAltered`).
2. **`dns_left`.** Two ways out of `run` skip `stop`, and the policy stays in Windows.
   Ctrl+C during `start` is a `KeyboardInterrupt`, which `except Exception`
   does not catch, before `run`'s `try/finally` begins (`dns_policy.py:171`); and if `SetConsoleCtrlHandler`
   fails, `run` returns 1 without stopping the policy (`app.py:162-164`). The
   repository's README says that a normal end restores the settings.
3. **`resolver_escape`.** `http.client.HTTPException`, and the `AttributeError` and
   `TypeError` of JSON of another form, are in no except clause of
   `resolve_verified` (`probes.py:223`): a broken response of the first server ends the call
   without asking the second. The comment at `probes.py:175-176` says other errors keep
   the retry.

## 7. What remains

* A composition of `run` with the DNS policy around an abstract session, which would
  show nothing the two modules do not show apart while they share no state.
* Candidates that alter some packet sizes and not others, in `Strategies`.
