-------------------------- MODULE AutoSelectProofs --------------------------
(***************************************************************************)
(* Theorems about AutoSelect, for any candidates, addresses, ports and     *)
(* packets of other programs, and any bound of the capture queue: first    *)
(* the types and what is altered when, then the probes and what the        *)
(* selection makes of their results.                                       *)
(***************************************************************************)
EXTENDS AutoSelect, TLAPS

USE DEF MaybeCandidate, Probing

LEMMA TypeInit == Init => TypeOK
<1> SUFFICES ASSUME Init PROVE TypeOK OBVIOUS
<1>1. active \in BOOLEAN /\ applied \in BOOLEAN BY DEF Init, SessionInit
<1>2. learned \in BOOLEAN /\ altered \in BOOLEAN BY DEF Init, DivertInit
<1>3. ok \in BOOLEAN /\ ownAltered \in BOOLEAN /\ late \in BOOLEAN BY DEF Init
<1> QED BY <1>1, <1>2, <1>3, AutoSelectAssumption
    DEF Init, SessionInit, DivertInit, TypeOK, SessionTypeOK, DivertTypeOK, MainTypeOK,
        MachineTypeOK, Results, NoCode

\* The steps of the main thread keep every variable in its type.
LEMMA TypeMain == TypeOK /\ MainStep => TypeOK'
<1> SUFFICES ASSUME TypeOK, MainStep PROVE TypeOK' OBVIOUS
<1> USE SentinelsAssumption, AutoSelectAssumption
<1> USE DEF TypeOK, SessionTypeOK, DivertTypeOK, MainTypeOK, MachineTypeOK, Results,
            ExitCodes, NoCode, Return, sessionVars, divertVars, handVars, mainVars, probeVars, Snapshot
<1>1. CASE AwaitEngine BY <1>1 DEF AwaitEngine
<1>2. CASE TestDirect BY <1>2 DEF TestDirect
<1>3. CASE Resolve BY <1>3 DEF Resolve, RecordDnsAnswer
<1>4. CASE LoadCached BY <1>4 DEF LoadCached
<1>5. CASE StartProbe
  <2>1. active' \in BOOLEAN /\ applied' \in BOOLEAN BY <1>5 DEF StartProbe, SetProbe
  <2>2. ownAltered' \in BOOLEAN BY <1>5 DEF StartProbe
  <2> QED BY <1>5, <2>1, <2>2 DEF StartProbe, SetProbe
<1>6. CASE Connected BY <1>6 DEF Connected, BindProbe
<1>7. CASE Responded BY <1>7 DEF Responded, SocketCloses
<1>8. CASE ProbeFails
  <2>1. ok' \in BOOLEAN BY <1>8 DEF ProbeFails
  <2> QED BY <1>8, <2>1 DEF ProbeFails, SocketCloses
<1>9. CASE Verify BY <1>9 DEF Verify, Passed
<1>10. CASE Cleanup
  <2>1. active' \in BOOLEAN /\ applied' \in BOOLEAN BY <1>10 DEF Cleanup, SetProbe
  <2>2. SessionTypeOK' BY <1>10, <2>1 DEF Cleanup, SetProbe
  <2>3. DivertTypeOK' BY <1>10 DEF Cleanup
  <2>4. MainTypeOK'
    <3>1. left \in Seq(DiscordAddrs) /\ left # <<>> BY <1>10 DEF Cleanup
    <3>2. left' \in Seq(DiscordAddrs) /\ (TryNextAddress => left' # <<>>)
      BY <1>10, <3>1 DEF Cleanup, Remaining, TryNextAddress
    <3>3. details' \in [Candidates -> Results] BY <1>10 DEF Cleanup
    <3>4. /\ (mpc' = "probe" /\ TryNextAddress) \/ mpc' \in {"pick", "activate"}
          /\ phase' \in {"direct", "cached", "scan"}
      BY <1>10 DEF Cleanup
    <3>5. mpc = "cleanup" /\ UNCHANGED <<ips, trying, ok, saved, exitCode>> BY <1>10 DEF Cleanup
    <3> QED BY <3>2, <3>3, <3>4, <3>5
  <2>5. MachineTypeOK' BY <1>10 DEF Cleanup
  <2> QED BY <2>2, <2>3, <2>4, <2>5
<1>11. CASE PickNext BY <1>11 DEF PickNext, Sel!Best, Untested
<1>12. CASE PickBest BY <1>12 DEF PickBest, Choices, Sel!Best, Successful
<1>13. CASE ActivateSelected BY <1>13 DEF ActivateSelected, Activate
<1>14. CASE Save BY <1>14 DEF Save
<1>15. CASE EngineLost BY <1>15 DEF EngineLost
<1>16. CASE Unwind
  <2>1. active' \in BOOLEAN /\ applied' \in BOOLEAN BY <1>16 DEF Unwind, SetProbe
  <2> QED BY <1>16, <2>1 DEF Unwind, SetProbe
<1>17. CASE StopEngine
  <2>1. learned' \in BOOLEAN /\ altered' \in BOOLEAN /\ late' \in BOOLEAN
    BY <1>17 DEF StopEngine, Idle
  <2> QED BY <1>17, <2>1 DEF StopEngine, Idle
<1> QED BY <1>1, <1>2, <1>3, <1>4, <1>5, <1>6, <1>7, <1>8, <1>9, <1>10, <1>11, <1>12,
           <1>13, <1>14, <1>15, <1>16, <1>17 DEF MainStep

\* So do those of the divert thread.
LEMMA TypeDivert == TypeOK /\ DivertStep => TypeOK'
<1> SUFFICES ASSUME TypeOK, DivertStep PROVE TypeOK' OBVIOUS
<1> USE DEF TypeOK, SessionTypeOK, DivertTypeOK, MainTypeOK, MachineTypeOK,
            sessionVars, divertVars, handVars, mainVars, probeVars, Snapshot
<1>1. CASE TakePacket
  <2>1. learned' \in BOOLEAN /\ altered' \in BOOLEAN /\ late' \in BOOLEAN
    BY <1>1 DEF TakePacket, TakeSnapshot
  <2>2. Head(queue) \in Packet /\ Tail(queue) \in Seq(Packet) BY <1>1 DEF TakePacket
  <2> QED BY <1>1, <2>1, <2>2 DEF TakePacket, TakeSnapshot
<1>2. CASE JudgePacket BY <1>2 DEF JudgePacket, Judge
<1>3. CASE LearnAddress BY <1>3 DEF LearnAddress, Learn, Packet
<1>4. CASE AlterPacket
  <2>1. altered' \in BOOLEAN
    BY <1>4 DEF AlterPacket, Alter, PassOn, Alters, SplitAlters, FakeTtlAlters, FakeBadSeqAlters,
       SynDataAlters, IPFragment2Alters
  <2> QED BY <1>4, <2>1 DEF AlterPacket, Alter, PassOn
<1>5. CASE MarkPacket BY <1>5 DEF MarkPacket, MarkApplied
<1>6. CASE SendPacket
  <2>1. learned' \in BOOLEAN /\ altered' \in BOOLEAN /\ late' \in BOOLEAN
    BY <1>6 DEF SendPacket, Idle
  <2>2. pkt.kind \in {"syn", "hello", "record", "udp"} BY <1>6 DEF SendPacket, Packet
  <2>3. delivered' = delivered \/ delivered' = delivered \cup {pkt.kind}
    BY <1>6 DEF SendPacket, Leaves
  <2>4. ownAltered' \in BOOLEAN BY <1>6 DEF SendPacket, Leaves
  <2>5. MachineTypeOK' BY <1>6, <2>2, <2>3, <2>4 DEF SendPacket
  <2> QED BY <1>6, <2>1, <2>5 DEF SendPacket, Idle
<1> QED BY <1>1, <1>2, <1>3, <1>4, <1>5, <1>6 DEF DivertStep

\* And those of the rest of the machine.
LEMMA TypeEnvironment == TypeOK /\ Environment => TypeOK'
<1> SUFFICES ASSUME TypeOK, Environment PROVE TypeOK' OBVIOUS
<1> USE DEF TypeOK, SessionTypeOK, DivertTypeOK, MainTypeOK, MachineTypeOK,
            sessionVars, divertVars, handVars, mainVars, probeVars, Snapshot
<1>1. CASE EngineOpens BY <1>1 DEF EngineOpens
<1>2. CASE EngineDies BY <1>2 DEF EngineDies
<1>3. CASE Transmit
  <2>1. Awaited \in {"syn", "udp", "hello"} BY DEF Awaited
  <2>2. Head(left) \in Addrs BY <1>3, AutoSelectAssumption DEF Transmit
  <2>3. ProbePacket \in Packet BY <1>3, <2>1, <2>2 DEF Transmit, ProbePacket, Packet, ServerNames
  <2>4. queue' \in Seq(Packet)
    <3>1. queue \in Seq(Packet) OBVIOUS
    <3>2. queue' = Append(queue, ProbePacket) \/ queue' = queue BY <1>3 DEF Transmit
    <3> HIDE DEF TypeOK, MachineTypeOK
    <3> QED BY <2>3, <3>1, <3>2
  <2>5. delivered' \subseteq {"syn", "hello", "record", "udp"} BY <1>3, <2>1 DEF Transmit
  <2> QED BY <1>3, <2>4, <2>5 DEF Transmit
<1>4. CASE AppSends BY <1>4, AutoSelectAssumption DEF AppSends
<1>5. CASE Interrupt BY <1>5 DEF Interrupt, SocketCloses, ExitCodes, NoCode
<1> QED BY <1>1, <1>2, <1>3, <1>4, <1>5 DEF Environment

LEMMA TypeStep == TypeOK /\ [Next]_vars => TypeOK'
<1> SUFFICES ASSUME TypeOK, [Next]_vars PROVE TypeOK' OBVIOUS
<1>1. CASE MainStep BY <1>1, TypeMain
<1>2. CASE DivertStep BY <1>2, TypeDivert
<1>3. CASE Environment BY <1>3, TypeEnvironment
<1>4. CASE UNCHANGED vars
  BY <1>4 DEF TypeOK, SessionTypeOK, DivertTypeOK, MainTypeOK, MachineTypeOK,
     vars, sessionVars, divertVars, handVars, mainVars, probeVars
<1> QED BY <1>1, <1>2, <1>3, <1>4 DEF Next, Terminated

\* Every variable keeps its type, and a step that needs a candidate, an
\* address, a port or a packet in hand has one.
THEOREM TypeCorrect == Spec => []TypeOK
BY TypeInit, TypeStep, PTL DEF Spec

-----------------------------------------------------------------------------
(* Only Discord's packets are touched.  A packet is altered on the word of *)
(* probeAddresses while candidates are tested and of trackedIps afterwards,*)
(* and an empty set of either would let everything through: so the proof   *)
(* needs both sets to hold Discord's addresses only AND to be filled in    *)
(* time, on the main thread, before the divert thread reads them.          *)

\* A packet that names Discord goes to Discord.
Honest(p) == MatchesActiveDomain(p.sni) => p.dst \in DiscordAddrs

Resolved == Probing \cup {"load", "pick", "activate", "save"}

DiscordInv ==
    /\ trackedIps \subseteq DiscordAddrs
    /\ probeAddresses \subseteq DiscordAddrs
    /\ candidate # NoCandidate /\ ~active => probeAddresses # {}
    /\ mpc \in Resolved => trackedIps # {}
    /\ active => trackedIps # {}
    /\ \A i \in DOMAIN queue : Honest(queue[i])
    /\ dpc # "idle" => Honest(pkt)
    /\ dpc = "judge" => trackedIps # {}
    /\ dpc = "learn" => Teaches(pkt)
    /\ dpc \in {"alter", "mark"} => pkt.dst \in DiscordAddrs
    /\ dpc = "send" /\ altered => pkt.dst \in DiscordAddrs
    /\ dpc \in {"judge", "learn", "alter"} => ~altered

LEMMA DiscordInit == Init => DiscordInv
BY AutoSelectAssumption DEF Init, SessionInit, DivertInit, DiscordInv, Resolved

LEMMA DiscordMain == TypeOK /\ DiscordInv /\ MainStep => DiscordInv'
<1> SUFFICES ASSUME TypeOK, DiscordInv, MainStep PROVE DiscordInv' OBVIOUS
<1> USE SentinelsAssumption, AutoSelectAssumption
<1> USE DEF DiscordInv, Resolved, Honest, Teaches, sessionVars, divertVars, handVars, mainVars, probeVars,
            Return
<1>1. CASE AwaitEngine BY <1>1 DEF AwaitEngine
<1>2. CASE TestDirect BY <1>2 DEF TestDirect
<1>3. CASE Resolve
  <2>1. \A answer \in Answers : /\ {answer[i] : i \in DOMAIN answer} # {}
                               /\ {answer[i] : i \in DOMAIN answer} \subseteq DiscordAddrs
    <3> SUFFICES ASSUME NEW answer \in Answers
                 PROVE /\ {answer[i] : i \in DOMAIN answer} # {}
                       /\ {answer[i] : i \in DOMAIN answer} \subseteq DiscordAddrs
      OBVIOUS
    <3>1. answer \in Seq(DiscordAddrs) /\ answer # <<>> OBVIOUS
    <3>2. 1 \in DOMAIN answer BY <3>1
    <3> QED BY <3>1, <3>2
  <2>2. /\ trackedIps \subseteq trackedIps' /\ trackedIps' \subseteq DiscordAddrs
        /\ mpc' = "load" => trackedIps' # {}
        /\ mpc' \in {"load", "closing"}
        /\ UNCHANGED <<candidate, probeAddresses, active>>
    BY <1>3, <2>1 DEF Resolve, RecordDnsAnswer, MatchesActiveDomain
  <2>3. UNCHANGED <<queue, divertVars>> BY <1>3 DEF Resolve
  <2> QED BY <2>2, <2>3
<1>4. CASE LoadCached BY <1>4 DEF LoadCached
<1>5. CASE StartProbe
  <2>1. Head(left) \in DiscordAddrs BY <1>5 DEF StartProbe, TypeOK, MainTypeOK
  <2> QED BY <1>5, <2>1 DEF StartProbe, SetProbe
<1>6. CASE Connected BY <1>6 DEF Connected, BindProbe
<1>7. CASE Responded BY <1>7 DEF Responded
<1>8. CASE ProbeFails BY <1>8 DEF ProbeFails
<1>9. CASE Verify BY <1>9 DEF Verify
<1>10. CASE Cleanup BY <1>10 DEF Cleanup, SetProbe
<1>11. CASE PickNext BY <1>11 DEF PickNext
<1>12. CASE PickBest BY <1>12 DEF PickBest
<1>13. CASE ActivateSelected BY <1>13 DEF ActivateSelected, Activate
<1>14. CASE Save BY <1>14 DEF Save
<1>15. CASE EngineLost BY <1>15 DEF EngineLost
<1>16. CASE Unwind BY <1>16 DEF Unwind, SetProbe
<1>17. CASE StopEngine BY <1>17 DEF StopEngine, Idle
<1> QED BY <1>1, <1>2, <1>3, <1>4, <1>5, <1>6, <1>7, <1>8, <1>9, <1>10, <1>11, <1>12,
           <1>13, <1>14, <1>15, <1>16, <1>17 DEF MainStep

LEMMA DiscordDivert == TypeOK /\ DiscordInv /\ DivertStep => DiscordInv'
<1> SUFFICES ASSUME TypeOK, DiscordInv, DivertStep PROVE DiscordInv' OBVIOUS
<1> USE DEF DiscordInv, Resolved, Honest, sessionVars, divertVars, handVars, mainVars, probeVars
<1>1. CASE TakePacket
  <2>1. queue \in Seq(Packet) /\ queue # <<>> BY <1>1 DEF TakePacket, TypeOK, MachineTypeOK
  <2>2. Honest(Head(queue)) BY <2>1
  <2>3. \A i \in DOMAIN queue' : Honest(queue'[i]) BY <1>1, <2>1 DEF TakePacket
  <2>4. candidate # NoCandidate /\ ~active /\ InScope(Head(queue))
          => Head(queue).dst \in DiscordAddrs
    BY DEF InScope
  <2> QED BY <1>1, <2>2, <2>3, <2>4 DEF TakePacket, TakeSnapshot
<1>2. CASE JudgePacket BY <1>2 DEF JudgePacket, Judge, ProtectsIp
<1>3. CASE LearnAddress BY <1>3 DEF LearnAddress, Learn, Teaches
<1>4. CASE AlterPacket BY <1>4 DEF AlterPacket, Alter, PassOn
<1>5. CASE MarkPacket BY <1>5 DEF MarkPacket, MarkApplied
<1>6. CASE SendPacket BY <1>6 DEF SendPacket, Idle
<1> QED BY <1>1, <1>2, <1>3, <1>4, <1>5, <1>6 DEF DivertStep

LEMMA DiscordEnvironment == TypeOK /\ DiscordInv /\ Environment => DiscordInv'
<1> SUFFICES ASSUME TypeOK, DiscordInv, Environment PROVE DiscordInv' OBVIOUS
<1> USE DEF DiscordInv, Resolved, Honest, Teaches, sessionVars, divertVars, handVars, mainVars, probeVars
<1>1. CASE EngineOpens BY <1>1 DEF EngineOpens
<1>2. CASE EngineDies BY <1>2 DEF EngineDies
<1>3. CASE Transmit
  <2>1. Head(left) \in DiscordAddrs BY <1>3 DEF Transmit, TypeOK, MainTypeOK
  <2>2. Honest(ProbePacket) BY <2>1 DEF ProbePacket
  <2>3. queue \in Seq(Packet) BY DEF TypeOK, MachineTypeOK
  <2>4. \A i \in DOMAIN queue' : Honest(queue'[i]) BY <1>3, <2>2, <2>3 DEF Transmit
  <2> QED BY <1>3, <2>4 DEF Transmit
<1>4. CASE AppSends
  <2>1. PICK p \in AppPackets : queue' = Append(queue, p) BY <1>4 DEF AppSends
  <2>2. Honest(p) BY AutoSelectAssumption
  <2>3. queue \in Seq(Packet) BY DEF TypeOK, MachineTypeOK
  <2>4. \A i \in DOMAIN queue' : Honest(queue'[i]) BY <2>1, <2>2, <2>3
  <2> QED BY <1>4, <2>4 DEF AppSends
<1>5. CASE Interrupt BY <1>5 DEF Interrupt
<1> QED BY <1>1, <1>2, <1>3, <1>4, <1>5 DEF Environment

LEMMA DiscordStep == TypeOK /\ DiscordInv /\ [Next]_vars => DiscordInv'
<1> SUFFICES ASSUME TypeOK, DiscordInv, [Next]_vars PROVE DiscordInv' OBVIOUS
<1>1. CASE UNCHANGED vars
  BY <1>1 DEF DiscordInv, Resolved, Honest, Teaches, vars, sessionVars, divertVars, handVars, mainVars,
     probeVars
<1> QED BY <1>1, DiscordMain, DiscordDivert, DiscordEnvironment DEF Next, Terminated

\* No packet to an address that does not serve Discord is ever altered.
THEOREM DiscordOnly == Spec => []OnlyDiscordTouched
<1>1. DiscordInv => OnlyDiscordTouched BY DEF DiscordInv, OnlyDiscordTouched
<1> QED BY <1>1, TypeInit, TypeStep, DiscordInit, DiscordStep, PTL DEF Spec

-----------------------------------------------------------------------------
(* What the session protects, it protects until the program ends: the      *)
(* session is reset by probes only, and once a strategy is active the main *)
(* thread never tests another one.                                         *)

ActiveInv == active => mpc \in {"save", "hold", "closing", "exited"}

LEMMA ActiveInit == Init => ActiveInv
BY DEF Init, SessionInit, ActiveInv

\* One step: what is active stays so until the end, and no address is forgotten.
LEMMA ActiveStep ==
    ASSUME TypeOK, ActiveInv, [Next]_vars
    PROVE  ActiveInv' /\ (active => active') /\ trackedIps \subseteq trackedIps'
<1> USE DEF ActiveInv, Return, sessionVars, divertVars, handVars, mainVars, probeVars
<1>1. CASE MainStep
  <2>1. CASE AwaitEngine \/ TestDirect \/ LoadCached
    BY <2>1 DEF AwaitEngine, TestDirect, LoadCached
  <2>2. CASE Resolve BY <2>2 DEF Resolve, RecordDnsAnswer
  <2>3. CASE StartProbe BY <2>3 DEF StartProbe, SetProbe
  <2>4. CASE Connected BY <2>4 DEF Connected, BindProbe
  <2>5. CASE Responded \/ ProbeFails \/ Verify BY <2>5 DEF Responded, ProbeFails, Verify
  <2>6. CASE Cleanup BY <2>6 DEF Cleanup, SetProbe
  <2>7. CASE PickNext \/ PickBest BY <2>7 DEF PickNext, PickBest
  <2>8. CASE ActivateSelected BY <2>8 DEF ActivateSelected, Activate
  <2>9. CASE Save \/ EngineLost \/ StopEngine BY <2>9 DEF Save, EngineLost, StopEngine
  <2>10. CASE Unwind BY <2>10 DEF Unwind, SetProbe
  <2> QED BY <1>1, <2>1, <2>2, <2>3, <2>4, <2>5, <2>6, <2>7, <2>8, <2>9, <2>10 DEF MainStep
<1>2. CASE DivertStep
  <2>1. CASE LearnAddress BY <2>1 DEF LearnAddress, Learn
  <2>2. CASE MarkPacket BY <2>2 DEF MarkPacket, MarkApplied
  <2>3. CASE TakePacket \/ JudgePacket \/ AlterPacket \/ SendPacket
    <3>1. CASE TakePacket BY <3>1 DEF TakePacket, TakeSnapshot
    <3>2. CASE JudgePacket BY <3>2 DEF JudgePacket, Judge
    <3>3. CASE AlterPacket BY <3>3 DEF AlterPacket, Alter, PassOn
    <3>4. CASE SendPacket BY <3>4 DEF SendPacket
    <3> QED BY <2>3, <3>1, <3>2, <3>3, <3>4
  <2> QED BY <1>2, <2>1, <2>2, <2>3 DEF DivertStep
<1>3. CASE Environment
  <2>1. CASE Interrupt BY <2>1 DEF Interrupt, ProbeUnwinds
  <2>2. CASE EngineOpens \/ EngineDies \/ Transmit \/ AppSends
    BY <2>2 DEF EngineOpens, EngineDies, Transmit, AppSends
  <2> QED BY <1>3, <2>1, <2>2 DEF Environment
<1>4. CASE UNCHANGED vars BY <1>4 DEF vars
<1> QED BY <1>1, <1>2, <1>3, <1>4 DEF Next, Terminated

\* protects_ip, once true of an address, stays true of it.
THEOREM ProtectionMonotone == Spec => ProtectionLasts
<1>1. ASSUME TypeOK, ActiveInv, [Next]_vars
      PROVE  [\A a \in Addrs : ProtectsIp(a) => ProtectsIp(a)']_vars
  BY <1>1, ActiveStep DEF ProtectsIp
<1>2. TypeOK /\ ActiveInv /\ [Next]_vars => ActiveInv' BY ActiveStep
<1> QED BY <1>1, <1>2, TypeInit, TypeStep, ActiveInit, PTL DEF Spec, ProtectionLasts

-----------------------------------------------------------------------------
(* The first ClientHello.  The snapshot may be stale, so what matters is   *)
(* the candidate in it.                                                    *)

Catches(c) == Kind[c] \in TcpKinds \ {"syndata"} /\ c \notin Inert

\* The last conjunct needs a strategy that does not raise.
FirstInv ==
    /\ active => candidate \in Candidates
    /\ dpc # "idle" /\ snap.active => snap.candidate \in Candidates
    /\ dpc = "mark" => ~snap.active
    /\ "raise" \notin EngineFaults /\ dpc = "send" /\ snap.active /\ Catches(snap.candidate)
         /\ pkt.kind = "hello" /\ pkt.sni = "discord" => altered

LEMMA FirstInit == Init => FirstInv
BY DEF Init, SessionInit, DivertInit, FirstInv

LEMMA FirstMain == TypeOK /\ FirstInv /\ MainStep => FirstInv'
<1> SUFFICES ASSUME TypeOK, FirstInv, MainStep PROVE FirstInv' OBVIOUS
<1> USE DEF FirstInv, Catches, Return, sessionVars, divertVars, handVars, mainVars, probeVars
<1>1. CASE AwaitEngine \/ TestDirect \/ LoadCached
  BY <1>1 DEF AwaitEngine, TestDirect, LoadCached
<1>2. CASE Resolve BY <1>2 DEF Resolve, RecordDnsAnswer
<1>3. CASE StartProbe BY <1>3 DEF StartProbe, SetProbe
<1>4. CASE Connected BY <1>4 DEF Connected, BindProbe
<1>5. CASE Responded \/ ProbeFails \/ Verify BY <1>5 DEF Responded, ProbeFails, Verify
<1>6. CASE Cleanup BY <1>6 DEF Cleanup, SetProbe
<1>7. CASE PickNext \/ PickBest BY <1>7 DEF PickNext, PickBest
<1>8. CASE ActivateSelected BY <1>8 DEF ActivateSelected, Activate, TypeOK, MainTypeOK
<1>9. CASE Save \/ EngineLost BY <1>9 DEF Save, EngineLost
<1>10. CASE StopEngine BY <1>10 DEF StopEngine, Idle
<1>11. CASE Unwind BY <1>11 DEF Unwind, SetProbe
<1> QED BY <1>1, <1>2, <1>3, <1>4, <1>5, <1>6, <1>7, <1>8, <1>9, <1>10, <1>11 DEF MainStep

\* A Discord name is either judged against the tracked addresses or learned; in
\* both cases the candidate sees the packet.
LEMMA FirstDivert == TypeOK /\ FirstInv /\ DivertStep => FirstInv'
<1> SUFFICES ASSUME TypeOK, FirstInv, DivertStep PROVE FirstInv' OBVIOUS
<1> USE DEF FirstInv, sessionVars, divertVars, handVars, mainVars, probeVars
<1>1. CASE TakePacket
  <2>1. active => candidate # NoCandidate BY SentinelsAssumption
  <2>2. active /\ Catches(candidate) /\ Head(queue).kind = "hello" => InScope(Head(queue))
    BY DEF Catches, InScope, Transport, TcpKinds, UdpKinds
  <2>3. dpc' \in {"send", "judge", "alter"} BY <1>1 DEF TakePacket, TakeSnapshot
  <2> QED BY <1>1, <2>1, <2>2, <2>3 DEF TakePacket, TakeSnapshot
<1>2. CASE JudgePacket
  <2>1. pkt.kind = "hello" /\ pkt.sni = "discord" => Teaches(pkt) BY DEF Teaches, MatchesActiveDomain
  <2> QED BY <1>2, <2>1 DEF JudgePacket, Judge
<1>3. CASE LearnAddress BY <1>3 DEF LearnAddress, Learn
<1>4. CASE AlterPacket
  <2>1. snap.candidate \in Candidates /\ Catches(snap.candidate)
          /\ pkt.kind = "hello" /\ pkt.sni = "discord"
          => Alters(snap.candidate, pkt, ForceIp)
    BY DEF Catches, ForceIp, Alters, SplitAlters, FakeTtlAlters, FakeBadSeqAlters, MatchesTarget,
       MatchesActiveDomain, TcpKinds
  <2> QED BY <1>4, <2>1 DEF AlterPacket, Alter, PassOn
<1>5. CASE MarkPacket BY <1>5 DEF MarkPacket, MarkApplied
<1>6. CASE SendPacket BY <1>6 DEF SendPacket, Idle
<1> QED BY <1>1, <1>2, <1>3, <1>4, <1>5, <1>6 DEF DivertStep

LEMMA FirstStep == TypeOK /\ FirstInv /\ [Next]_vars => FirstInv'
<1> SUFFICES ASSUME TypeOK, FirstInv, [Next]_vars PROVE FirstInv' OBVIOUS
<1> USE DEF FirstInv, Catches
<1>1. CASE EngineOpens \/ EngineDies \/ Transmit \/ AppSends
  BY <1>1 DEF EngineOpens, EngineDies, Transmit, AppSends, sessionVars, divertVars, handVars
<1>2. CASE Interrupt BY <1>2 DEF Interrupt, sessionVars, divertVars, handVars
<1>3. CASE UNCHANGED vars BY <1>3 DEF vars, sessionVars, divertVars, handVars
<1> HIDE DEF FirstInv
<1> QED BY <1>1, <1>2, <1>3, FirstMain, FirstDivert DEF Next, Environment, Terminated

\* No ClientHello with a Discord name leaves unaltered under a strategy for
\* ClientHellos, unless the strategy raises.
THEOREM FirstHelloSafe ==
    ASSUME "raise" \notin EngineFaults PROVE Spec => []FirstHelloAltered
<1>1. FirstInv => FirstHelloAltered BY DEF FirstInv, Catches, FirstHelloAltered
<1> QED BY <1>1, TypeInit, TypeStep, FirstInit, FirstStep, PTL DEF Spec

-----------------------------------------------------------------------------
(* While a probe runs, the session holds its candidate and its address, and *)
(* no port but the one of its socket, which it may hold longer than the     *)
(* socket is open.                                                         *)

Running == {"connecting", "handshake", "verify", "cleanup", "unwind"}
Open == {"connecting", "handshake"}

RunInv ==
    /\ mpc \in Running =>
         /\ candidate = trying /\ ~active
         /\ probeAddresses = {Head(left)}
         /\ engine # "starting"
    /\ mpc \in Open <=> probePort # NoPort
    /\ probePort # NoPort => probePort \in Ports
    /\ mpc \in {"ready", "closing", "exited"} \/ engine # "starting"
    /\ port # NoPort /\ probePort # NoPort => port = probePort
    /\ port # NoPort => mpc \in Running
    /\ mpc = "connecting" => Transport(trying) = "tcp"
    /\ mpc = "handshake" /\ Transport(trying) = "tcp" => port = probePort

LEMMA RunInit == Init => RunInv
BY DEF Init, SessionInit, RunInv, Running, Open

LEMMA RunMain == TypeOK /\ RunInv /\ MainStep => RunInv'
<1> SUFFICES ASSUME TypeOK, RunInv, MainStep PROVE RunInv' OBVIOUS
<1> USE DEF RunInv, Running, Open, Return, Transport, sessionVars, divertVars, handVars, mainVars, probeVars
<1>1. CASE AwaitEngine \/ TestDirect \/ LoadCached
  BY <1>1 DEF AwaitEngine, TestDirect, LoadCached
<1>2. CASE Resolve BY <1>2 DEF Resolve, RecordDnsAnswer
<1>3. CASE StartProbe
  <2>1. probePort' \in Ports BY <1>3 DEF StartProbe
  <2>2. mpc' = IF Transport(trying) = "udp" THEN "handshake" ELSE "connecting"
    BY <1>3 DEF StartProbe
  <2>3. /\ candidate' = trying /\ active' = FALSE /\ port' = NoPort
        /\ probeAddresses' = {Head(left)}
        /\ UNCHANGED <<trying, left, engine>> /\ engine # "starting"
    BY <1>3 DEF StartProbe, SetProbe
  <2> QED BY <2>1, <2>2, <2>3, SentinelsAssumption
<1>4. CASE Connected BY <1>4, SentinelsAssumption DEF Connected, BindProbe
<1>5. CASE Responded BY <1>5 DEF Responded, SocketCloses
<1>6. CASE ProbeFails BY <1>6 DEF ProbeFails, SocketCloses
<1>7. CASE Verify BY <1>7 DEF Verify
<1>8. CASE Cleanup BY <1>8 DEF Cleanup, SetProbe
<1>9. CASE PickNext \/ PickBest BY <1>9 DEF PickNext, PickBest
<1>10. CASE ActivateSelected BY <1>10 DEF ActivateSelected, Activate
<1>11. CASE Save \/ EngineLost BY <1>11 DEF Save, EngineLost, Holding
<1>12. CASE StopEngine BY <1>12 DEF StopEngine
<1>13. CASE Unwind BY <1>13 DEF Unwind, SetProbe
<1> QED BY <1>1, <1>2, <1>3, <1>4, <1>5, <1>6, <1>7, <1>8, <1>9, <1>10, <1>11, <1>12, <1>13
    DEF MainStep

LEMMA RunStep == TypeOK /\ RunInv /\ [Next]_vars => RunInv'
<1> SUFFICES ASSUME TypeOK, RunInv, [Next]_vars PROVE RunInv' OBVIOUS
<1> USE DEF RunInv, Running, Open, Transport, sessionVars, divertVars, handVars, mainVars, probeVars
<1>1. CASE TakePacket BY <1>1 DEF TakePacket, TakeSnapshot
<1>2. CASE JudgePacket \/ AlterPacket BY <1>2 DEF JudgePacket, Judge, AlterPacket, Alter, PassOn
<1>3. CASE LearnAddress BY <1>3 DEF LearnAddress, Learn
<1>4. CASE MarkPacket BY <1>4 DEF MarkPacket, MarkApplied
<1>5. CASE SendPacket BY <1>5 DEF SendPacket
<1>6. CASE EngineOpens \/ EngineDies \/ Transmit \/ AppSends
  BY <1>6 DEF EngineOpens, EngineDies, Transmit, AppSends
<1>7. CASE Interrupt BY <1>7 DEF Interrupt, ProbeUnwinds, SocketCloses
<1>8. CASE UNCHANGED vars BY <1>8 DEF vars
<1> HIDE DEF RunInv
<1> QED BY <1>1, <1>2, <1>3, <1>4, <1>5, <1>6, <1>7, <1>8, RunMain
    DEF Next, DivertStep, Environment, Terminated

-----------------------------------------------------------------------------
(* Packets in flight.  A port is given to a probe only when no live packet  *)
(* carries it, and to nobody else while the probe's socket is open.         *)

OwnPacket(p) ==
    /\ p.own
    /\ p.dst = Head(left)
    /\ p.kind = "udp" <=> Transport(trying) = "udp"
    /\ p.kind = "hello" => mpc # "connecting" /\ p.sni = "discord"

FlightInv == \A p \in InFlight : p.src = probePort => OwnPacket(p)

LEMMA FlightInit == Init => FlightInv
BY DEF Init, DivertInit, FlightInv, InFlight

\* Only Transmit and AppSends put packets into the queue.
LEMMA FlightShrinks ==
    ASSUME TypeOK, [Next]_vars, ~Transmit, ~AppSends
    PROVE  InFlight' \subseteq InFlight
<1> USE DEF InFlight, sessionVars, divertVars, handVars, mainVars, probeVars
<1>1. CASE TakePacket
  <2>1. queue \in Seq(Packet) /\ queue # <<>> BY <1>1 DEF TakePacket, TypeOK, MachineTypeOK
  <2>2. Head(queue) \in {queue[i] : i \in DOMAIN queue} BY <2>1
  <2>3. {queue'[i] : i \in DOMAIN queue'} \subseteq {queue[i] : i \in DOMAIN queue}
    BY <1>1, <2>1 DEF TakePacket
  <2>4. pkt' = Head(queue) BY <1>1 DEF TakePacket, TakeSnapshot
  <2> QED BY <2>2, <2>3, <2>4
<1>2. CASE JudgePacket BY <1>2 DEF JudgePacket, Judge
<1>3. CASE LearnAddress BY <1>3 DEF LearnAddress, Learn
<1>4. CASE AlterPacket BY <1>4 DEF AlterPacket, Alter, PassOn
<1>5. CASE MarkPacket BY <1>5 DEF MarkPacket, MarkApplied
<1>6. CASE SendPacket BY <1>6 DEF SendPacket, Idle
<1>7. CASE StopEngine
  <2>1. queue' = <<>> /\ dpc' = "idle" BY <1>7 DEF StopEngine, Idle
  <2> QED BY <2>1
<1>8. CASE MainStep /\ ~StopEngine
  <2>1. UNCHANGED <<queue, dpc, pkt>>
    <3>1. CASE AwaitEngine \/ TestDirect \/ Resolve \/ LoadCached \/ StartProbe
      BY <3>1 DEF AwaitEngine, TestDirect, Resolve, LoadCached, StartProbe
    <3>2. CASE Connected \/ Responded \/ ProbeFails \/ Verify \/ Cleanup
      BY <3>2 DEF Connected, Responded, ProbeFails, Verify, Cleanup
    <3>3. CASE PickNext \/ PickBest \/ ActivateSelected \/ Save \/ EngineLost \/ Unwind
      BY <3>3 DEF PickNext, PickBest, ActivateSelected, Save, EngineLost, Unwind
    <3> QED BY <1>8, <3>1, <3>2, <3>3 DEF MainStep
  <2> QED BY <2>1
<1>9. CASE EngineDies
  <2>1. queue' = <<>> /\ UNCHANGED <<dpc, pkt>> BY <1>9 DEF EngineDies
  <2> QED BY <2>1
<1>10. CASE EngineOpens \/ Interrupt \/ UNCHANGED vars
  <2>1. UNCHANGED <<queue, dpc, pkt>> BY <1>10 DEF EngineOpens, Interrupt, vars
  <2> QED BY <2>1
<1> QED BY <1>1, <1>2, <1>3, <1>4, <1>5, <1>6, <1>7, <1>8, <1>9, <1>10
    DEF Next, DivertStep, Environment, Terminated

\* The socket is closed before the main thread turns to another candidate or address.
LEMMA PortStays ==
    ASSUME TypeOK, RunInv, [Next]_vars, ~StartProbe
    PROVE  probePort' # NoPort =>
             /\ UNCHANGED <<probePort, trying, left>>
             /\ mpc \in Open /\ mpc' \in Open
             /\ mpc' = "connecting" => mpc = "connecting"
<1> USE DEF RunInv, Running, Open, sessionVars, divertVars, handVars, mainVars, probeVars
<1>1. CASE AwaitEngine \/ TestDirect \/ Resolve \/ LoadCached
  BY <1>1 DEF AwaitEngine, TestDirect, Resolve, LoadCached, Return
<1>2. CASE Connected \/ Responded \/ ProbeFails \/ Verify \/ Cleanup
  BY <1>2 DEF Connected, Responded, ProbeFails, SocketCloses, Verify, Cleanup
<1>3. CASE PickNext \/ PickBest \/ ActivateSelected \/ Save \/ EngineLost \/ Unwind \/ StopEngine
  <2>1. mpc \notin Open /\ probePort' = probePort
    BY <1>3 DEF PickNext, PickBest, ActivateSelected, Save, EngineLost, Holding, Unwind, StopEngine
  <2> QED BY <2>1
<1>4. CASE DivertStep
  <2>1. UNCHANGED mainVars /\ probePort' = probePort
    BY <1>4 DEF DivertStep, TakePacket, JudgePacket, LearnAddress, AlterPacket, MarkPacket, SendPacket
  <2> QED BY <2>1
<1>5. CASE EngineOpens \/ EngineDies \/ Transmit \/ AppSends \/ UNCHANGED vars
  <2>1. UNCHANGED mainVars /\ probePort' = probePort
    BY <1>5 DEF EngineOpens, EngineDies, Transmit, AppSends, vars
  <2> QED BY <2>1
<1>6. CASE Interrupt BY <1>6 DEF Interrupt, SocketCloses
<1> QED BY <1>1, <1>2, <1>3, <1>4, <1>5, <1>6 DEF Next, MainStep, Environment, Terminated

LEMMA FlightStep == TypeOK /\ TypeOK' /\ RunInv /\ FlightInv /\ [Next]_vars => FlightInv'
<1> SUFFICES ASSUME TypeOK, TypeOK', RunInv, FlightInv, [Next]_vars,
                    NEW p \in InFlight', p.src = probePort'
             PROVE  OwnPacket(p)'
  BY DEF FlightInv
<1>1. CASE StartProbe
  <2>1. ~Transmit /\ ~AppSends
    BY <1>1 DEF StartProbe, Transmit, AppSends, TypeOK, MainTypeOK, mainVars
  <2>2. p \in InFlight BY <2>1, FlightShrinks
  <2> QED BY <1>1, <2>2 DEF StartProbe
<1>2. CASE ~StartProbe /\ Transmit
  <2>1. queue \in Seq(Packet) BY DEF TypeOK, MachineTypeOK
  <2>2. p \in InFlight \/ p = ProbePacket
    BY <1>2, <2>1 DEF Transmit, InFlight, divertVars, handVars
  <2>3. UNCHANGED <<mpc, trying, left, probePort>> BY <1>2 DEF Transmit, mainVars
  <2>4. OwnPacket(ProbePacket)
    BY <1>2 DEF Transmit, OwnPacket, ProbePacket, Awaited, RunInv, Transport
  <2> QED BY <2>2, <2>3, <2>4 DEF FlightInv, OwnPacket, Transport
<1>3. CASE ~StartProbe /\ AppSends
  <2>1. queue \in Seq(Packet) BY DEF TypeOK, MachineTypeOK
  <2>2. UNCHANGED <<mpc, trying, left, probePort>> BY <1>3 DEF AppSends, mainVars, probeVars
  <2>3. p \in InFlight BY <1>3, <2>1, <2>2 DEF AppSends, InFlight, divertVars, handVars
  <2> QED BY <2>2, <2>3 DEF FlightInv, OwnPacket, Transport
<1>4. CASE ~StartProbe /\ ~Transmit /\ ~AppSends
  <2>1. p \in InFlight BY <1>4, FlightShrinks
  <2>2. p \in Packet
    BY <2>1 DEF InFlight, TypeOK, MachineTypeOK, DivertTypeOK
  <2>3. probePort' # NoPort BY <2>2, SentinelsAssumption DEF Packet
  <2> QED BY <1>4, <2>1, <2>3, PortStays DEF FlightInv, OwnPacket, Transport, Open
<1> QED BY <1>1, <1>2, <1>3, <1>4

-----------------------------------------------------------------------------
(* The packet in hand.  Whatever the main thread does meanwhile, a packet  *)
(* of the running probe was taken with the probe's candidate in the        *)
(* snapshot, is in scope, and leaves altered if the candidate alters any.  *)

\* Does the candidate ever alter a packet of a probe, and of which kind?
Potent(c) == c \notin Inert \/ Kind[c] \in {"fake_ttl", "fake_badseq", "syndata"}
WorksOn(c) == IF Kind[c] = "syndata" THEN "syn"
              ELSE IF Transport(c) = "udp" THEN "udp" ELSE "hello"

\* No strategy raises.
Whole == "raise" \notin EngineFaults

Bound(c) == Kind[c] \notin {"syndata", "ipfrag2"}

HandInv ==
    /\ dpc \in {"judge", "learn"} => snap.active
    /\ dpc = "mark" => altered /\ ~snap.active
    /\ dpc \in {"judge", "learn", "alter"} => ~altered
    /\ dpc = "send" /\ altered => snap.candidate \in Candidates
    /\ dpc \in {"mark", "send"} /\ altered /\ ~snap.active => Potent(snap.candidate)
    /\ /\ dpc \in {"alter", "mark"} \/ (dpc = "send" /\ altered)
       /\ ~snap.active /\ Bound(snap.candidate)
       => pkt.own \/ late
    /\ dpc # "idle" /\ pkt.src = probePort =>
         /\ ~snap.active /\ snap.candidate = trying
         /\ pkt.kind = WorksOn(trying) =>
              dpc \in {"alter", "mark"} \/ (dpc = "send" /\ (Whole /\ Potent(trying) => altered))
         /\ dpc = "send" /\ altered => applied

LEMMA HandInit == Init => HandInv
BY DEF Init, DivertInit, HandInv

\* What a candidate alters on probation, and that it alters what it works on.
LEMMA AltersPotent ==
    ASSUME NEW c \in Candidates, NEW p
    PROVE  /\ Alters(c, p, FALSE) => Potent(c)
           /\ OwnPacket(p) /\ p.kind = WorksOn(c) /\ Potent(c) => Alters(c, p, FALSE)
<1>1. Kind[c] \in {"multisplit", "multidisorder", "fake_ttl", "fake_badseq", "syndata", "ipfrag2"}
  BY CandidatesAssumption DEF TcpKinds, UdpKinds
<1> QED BY <1>1
    DEF Alters, SplitAlters, FakeTtlAlters, FakeBadSeqAlters, SynDataAlters, IPFragment2Alters,
        Potent, WorksOn, Transport, UdpKinds, OwnPacket, MatchesTarget, MatchesActiveDomain

\* A step that keeps the packet in hand and the running probe.
LEMMA HandKept ==
    ASSUME HandInv, UNCHANGED handVars,
           probePort' = probePort, trying' = trying, pkt.src = probePort => applied' = applied
    PROVE  HandInv'
BY DEF HandInv, divertVars, handVars, Potent, WorksOn, Bound, Transport

\* A step after which no probe's socket is open.
LEMMA HandLeft ==
    ASSUME TypeOK, HandInv, UNCHANGED handVars, probePort' = NoPort
    PROVE  HandInv'
<1>1. dpc # "idle" => pkt.src \in Ports BY DEF TypeOK, DivertTypeOK, Packet
<1> QED BY <1>1, SentinelsAssumption DEF HandInv, divertVars, handVars, Potent, WorksOn, Bound, Transport

LEMMA HandMain == TypeOK /\ RunInv /\ HandInv /\ MainStep => HandInv'
<1> SUFFICES ASSUME TypeOK, RunInv, HandInv, MainStep PROVE HandInv' OBVIOUS
<1> USE DEF sessionVars, mainVars, probeVars
<1>1. CASE AwaitEngine \/ TestDirect
  BY <1>1, HandKept DEF AwaitEngine, TestDirect
<1>2. CASE Resolve
  <2>1. UNCHANGED <<applied, handVars, probePort, trying>>
    BY <1>2 DEF Resolve, RecordDnsAnswer
  <2> QED BY <2>1, HandKept
<1>3. CASE LoadCached \/ PickNext \/ PickBest \/ ActivateSelected \/ Save \/ EngineLost \/ Cleanup
           \/ Verify \/ Unwind
  <2>1. mpc \notin Open /\ UNCHANGED <<handVars, probePort>>
    BY <1>3 DEF LoadCached, PickNext, PickBest, ActivateSelected, Save, EngineLost, Holding, Cleanup,
       Verify, Unwind, Open
  <2> QED BY <2>1, HandLeft DEF RunInv
<1>4. CASE StartProbe
  <2>1. UNCHANGED handVars /\ probePort' \in Ports \ {p.src : p \in InFlight} BY <1>4 DEF StartProbe
  <2>2. dpc # "idle" => pkt.src # probePort' BY <2>1 DEF InFlight
  <2> QED BY <2>1, <2>2 DEF HandInv, divertVars, handVars, Potent, WorksOn, Bound, Transport
<1>5. CASE Connected BY <1>5, HandKept DEF Connected, BindProbe
<1>6. CASE Responded \/ ProbeFails BY <1>6, HandLeft DEF Responded, ProbeFails, SocketCloses
<1>7. CASE StopEngine BY <1>7 DEF StopEngine, Idle, HandInv
<1> QED BY <1>1, <1>2, <1>3, <1>4, <1>5, <1>6, <1>7 DEF MainStep

LEMMA HandDivert == TypeOK /\ RunInv /\ FlightInv /\ HandInv /\ DivertStep => HandInv'
<1> SUFFICES ASSUME TypeOK, RunInv, FlightInv, HandInv, DivertStep PROVE HandInv' OBVIOUS
<1> USE DEF sessionVars, divertVars, handVars, mainVars, probeVars
<1>1. CASE TakePacket
  <2> DEFINE p == Head(queue)
  <2>1. queue \in Seq(Packet) /\ queue # <<>> BY <1>1 DEF TakePacket, TypeOK, MachineTypeOK
  <2>2. p \in Packet /\ p \in InFlight BY <2>1 DEF InFlight
  <2>3. p.src \in Ports BY <2>2 DEF Packet
  <2>4. /\ pkt' = p /\ snap' = [candidate |-> candidate, active |-> active] /\ altered' = FALSE
        /\ dpc' = IF candidate = NoCandidate THEN "send"
                  ELSE IF ~InScope(p) THEN "send"
                  ELSE IF active THEN "judge" ELSE "alter"
        /\ late' = (probePort = NoPort)
        /\ UNCHANGED <<probePort, trying, applied>>
    BY <1>1 DEF TakePacket, TakeSnapshot
  <2>5. ASSUME p.src = probePort
        PROVE  /\ candidate = trying /\ ~active
               /\ trying \in Candidates
               /\ p.kind = WorksOn(trying) => InScope(p)
    <3>1. mpc \in Open /\ trying \in Candidates
      BY <2>3, <2>5, SentinelsAssumption DEF RunInv, Open, TypeOK, MainTypeOK
    <3>2. OwnPacket(p) BY <2>2, <2>5 DEF FlightInv
    <3>3. p.kind = "hello" => mpc # "connecting" BY <3>2 DEF OwnPacket
    <3>4. candidate = trying /\ ~active /\ probeAddresses = {Head(left)} BY <3>1 DEF RunInv, Running, Open
    <3>5. p.dst = Head(left) BY <3>2 DEF OwnPacket
    <3>6. ASSUME p.kind = WorksOn(trying) PROVE InScope(p)
      <4>1. Transport(trying) = "tcp" /\ Kind[trying] # "syndata" => port = probePort
        BY <3>1, <3>3, <3>6 DEF RunInv, WorksOn, Open
      <4> QED BY <4>1, <2>5, <3>2, <3>4, <3>5, <3>6 DEF InScope, WorksOn, OwnPacket, Transport
    <3> QED BY <3>1, <3>4, <3>6
  <2>6. ASSUME ~active, candidate # NoCandidate, InScope(p), Bound(candidate)
        PROVE  p.own \/ probePort = NoPort
    <3>1. candidate \in Candidates BY <2>6 DEF TypeOK, SessionTypeOK, MaybeCandidate
    <3>2. Transport(candidate) # "udp"
      BY <3>1, <2>6, CandidatesAssumption DEF Bound, Transport, UdpKinds
    <3>3. p.src = port BY <3>2, <2>6 DEF InScope, Bound
    <3>4. port = probePort \/ probePort = NoPort BY <2>3, <3>3, SentinelsAssumption DEF RunInv
    <3> QED BY <2>2, <3>3, <3>4 DEF FlightInv, OwnPacket
  <2> HIDE DEF p
  <2>7. (dpc' # "idle" /\ pkt'.src = probePort') =>
          /\ ~snap'.active /\ snap'.candidate = trying'
          /\ pkt'.kind = WorksOn(trying) => dpc' = "alter"
    BY <2>4, <2>5, SentinelsAssumption
  <2>8. dpc' \in {"judge", "send", "alter"} /\ (dpc' = "judge" => active) BY <2>4
  <2>9. snap'.candidate = candidate /\ snap'.active = active BY <2>4
  <2>10. dpc' = "alter" /\ ~snap'.active /\ Bound(snap'.candidate) => pkt'.own \/ late'
    BY <2>4, <2>6, <2>9
  <2>11. WorksOn(trying)' = WorksOn(trying) BY <2>4 DEF WorksOn, Transport
  <2>12. Bound(snap.candidate)' = Bound(snap'.candidate) BY DEF Bound
  <2> QED BY <2>4, <2>7, <2>8, <2>9, <2>10, <2>11, <2>12 DEF HandInv
<1>2. CASE JudgePacket BY <1>2 DEF JudgePacket, Judge, HandInv, WorksOn, Transport, Bound, Potent, Whole
<1>3. CASE LearnAddress BY <1>3 DEF LearnAddress, Learn, HandInv, WorksOn, Transport, Bound, Potent, Whole
<1>4. CASE AlterPacket
  <2>1. dpc = "alter" /\ ~altered /\ UNCHANGED <<pkt, snap, late, probePort, trying, applied>>
    BY <1>4 DEF AlterPacket, Alter, PassOn, HandInv
  <2>2. snap.candidate \in Candidates BY <2>1 DEF TypeOK, DivertTypeOK
  <2>3. CASE Alter
    <3>1. /\ altered' = Alters(snap.candidate, pkt, ForceIp)
          /\ dpc' = IF ~snap.active /\ altered' THEN "mark" ELSE "send"
      BY <2>3 DEF Alter, Counts
    <3>2. ~snap.active => altered' = Alters(snap.candidate, pkt, FALSE)
      <4>1. ~snap.active => ForceIp = FALSE BY DEF ForceIp
      <4> QED BY <3>1, <4>1
    <3>3. ~snap.active /\ altered' => Potent(snap.candidate) BY <2>2, <3>2, AltersPotent
    <3>4. pkt.src = probePort => OwnPacket(pkt) BY <2>1 DEF FlightInv, InFlight
    <3>5. pkt.src = probePort /\ pkt.kind = WorksOn(trying) /\ Potent(trying) => altered'
      BY <2>1, <2>2, <3>2, <3>4, AltersPotent DEF HandInv
    <3> QED BY <2>1, <2>2, <3>1, <3>3, <3>5 DEF HandInv, WorksOn, Transport, Bound, Potent, Whole
  <2>4. CASE PassOn /\ ~Whole
    <3>1. dpc' = "send" /\ altered' = altered BY <2>4 DEF PassOn
    <3> QED BY <2>1, <2>4, <3>1 DEF HandInv, WorksOn, Transport, Bound, Potent, Whole
  <2> QED BY <1>4, <2>3, <2>4 DEF AlterPacket, Whole
<1>5. CASE MarkPacket
  <2>1. /\ dpc = "mark" /\ dpc' = "send" /\ applied' = (applied \/ candidate = snap.candidate)
        /\ UNCHANGED <<pkt, snap, altered, late, probePort, trying>>
    BY <1>5 DEF MarkPacket, MarkApplied
  <2>2. pkt.src \in Ports /\ snap.candidate \in Candidates
    BY <2>1 DEF TypeOK, DivertTypeOK, Packet
  <2>3. pkt.src = probePort => applied'
    <3>1. pkt.src = probePort => mpc \in Running BY <2>2, SentinelsAssumption DEF RunInv, Open, Running
    <3> QED BY <2>1, <3>1 DEF RunInv, HandInv
  <2> QED BY <2>1, <2>2, <2>3 DEF HandInv, WorksOn, Transport, Bound, Potent, Whole
<1>6. CASE SendPacket BY <1>6 DEF SendPacket, Idle, HandInv
<1> QED BY <1>1, <1>2, <1>3, <1>4, <1>5, <1>6 DEF DivertStep

LEMMA HandStep == TypeOK /\ RunInv /\ FlightInv /\ HandInv /\ [Next]_vars => HandInv'
<1> SUFFICES ASSUME TypeOK, RunInv, FlightInv, HandInv, [Next]_vars PROVE HandInv' OBVIOUS
<1>1. CASE EngineOpens \/ EngineDies \/ Transmit \/ AppSends \/ UNCHANGED vars
  BY <1>1, HandKept
  DEF EngineOpens, EngineDies, Transmit, AppSends, vars, mainVars, probeVars, sessionVars
<1>2. CASE Interrupt BY <1>2, HandLeft DEF Interrupt, SocketCloses
<1> QED BY <1>1, <1>2, HandMain, HandDivert DEF Next, Environment, Terminated

\* A candidate that is bound to the probe's port alters the probe's packets only,
\* and those of whoever got the port between the end of the socket and set_probe(None).
THEOREM ProbesIsolated == Spec => []ProbeIsolation
<1>1. HandInv => ProbeIsolation BY DEF HandInv, Bound, ProbeIsolation
<1> QED BY <1>1, TypeInit, TypeStep, RunInit, RunStep, FlightInit, FlightStep, HandInit, HandStep,
           PTL DEF Spec

-----------------------------------------------------------------------------
(* The result of a probe.                                                  *)

Waiting == {"connecting", "handshake", "verify"}

ResultInv ==
    /\ ownAltered /\ mpc \in Waiting => applied
    /\ applied /\ ~active => candidate \in Candidates /\ Potent(candidate)
    /\ mpc = "handshake" /\ Transport(trying) = "tcp" => "syn" \in delivered
    /\ mpc = "verify" => WorksOn(trying) \in delivered

\* With the engine alive, what a candidate works on is answered altered or not at
\* all. A decoy that is lost on its own would be answered, too.
DeliveredInv ==
    engine = "up" /\ mpc \in Waiting /\ Potent(trying) /\ WorksOn(trying) \in delivered
        => ownAltered

LEMMA ResultInit == Init => ResultInv /\ DeliveredInv
BY DEF Init, SessionInit, ResultInv, DeliveredInv, Waiting

\* A step that touches neither the probe nor its result.
LEMMA ResultKept ==
    ASSUME UNCHANGED <<candidate, active, applied, trying, delivered, ownAltered>>,
           mpc' = mpc \/ mpc' \notin Waiting
    PROVE  /\ ResultInv => ResultInv'
           /\ (engine' = "up" => engine = "up") /\ DeliveredInv => DeliveredInv'
BY DEF ResultInv, DeliveredInv, Waiting, WorksOn, Potent, Transport

LEMMA ResultMain == TypeOK /\ RunInv /\ ResultInv /\ MainStep => ResultInv'
<1> SUFFICES ASSUME TypeOK, RunInv, ResultInv, MainStep PROVE ResultInv' OBVIOUS
<1> USE DEF sessionVars, mainVars, probeVars, Return
<1>1. CASE AwaitEngine \/ TestDirect BY <1>1, ResultKept DEF AwaitEngine, TestDirect, Waiting
<1>2. CASE Resolve
  <2>1. UNCHANGED <<candidate, active, applied, trying, delivered, ownAltered>> /\ mpc' \notin Waiting
    BY <1>2 DEF Resolve, RecordDnsAnswer, Waiting
  <2> QED BY <2>1, ResultKept
<1>3. CASE LoadCached \/ PickNext \/ PickBest
  <2>1. UNCHANGED <<candidate, active, applied, delivered, ownAltered>> /\ mpc' \notin Waiting
    BY <1>3 DEF LoadCached, PickNext, PickBest, Waiting
  <2> QED BY <2>1 DEF ResultInv, Waiting, Potent
<1>4. CASE StartProbe
  <2>1. applied' = FALSE /\ ownAltered' = FALSE /\ trying' = trying
        /\ mpc' \in {"connecting", "handshake"}
        /\ (mpc' = "handshake" => Transport(trying) = "udp")
    BY <1>4 DEF StartProbe, SetProbe
  <2> QED BY <2>1 DEF ResultInv, Transport
<1>5. CASE Connected
  <2>1. "syn" \in delivered /\ mpc' = "handshake" /\ mpc = "connecting"
        /\ UNCHANGED <<candidate, active, applied, trying, delivered, ownAltered>>
    BY <1>5 DEF Connected, BindProbe
  <2> QED BY <2>1 DEF ResultInv, Waiting, Potent
<1>6. CASE Responded
  <2>1. Awaited \in delivered /\ mpc' = "verify" /\ mpc = "handshake"
        /\ UNCHANGED <<candidate, active, applied, trying, delivered, ownAltered>>
    BY <1>6 DEF Responded, SocketCloses
  <2>2. WorksOn(trying) \in {"syn", Awaited} /\ (WorksOn(trying) = "syn" => Transport(trying) = "tcp")
    BY <2>1 DEF Awaited, WorksOn, Transport, UdpKinds
  <2>3. WorksOn(trying) \in delivered BY <2>1, <2>2 DEF ResultInv
  <2> QED BY <2>1, <2>3 DEF ResultInv, Waiting, Potent, WorksOn, Transport
<1>7. CASE ProbeFails \/ Verify BY <1>7, ResultKept DEF ProbeFails, SocketCloses, Verify, Waiting
<1>8. CASE Cleanup \/ Unwind
  <2>1. applied' = FALSE /\ mpc' \notin Waiting BY <1>8 DEF Cleanup, Unwind, SetProbe, Waiting
  <2> QED BY <2>1 DEF ResultInv, Waiting
<1>9. CASE ActivateSelected
  <2>1. active' = TRUE /\ mpc' = "save" BY <1>9 DEF ActivateSelected, Activate
  <2> QED BY <2>1 DEF ResultInv, Waiting
<1>10. CASE Save \/ EngineLost \/ StopEngine
  BY <1>10, ResultKept DEF Save, EngineLost, StopEngine, Waiting
<1> QED BY <1>1, <1>2, <1>3, <1>4, <1>5, <1>6, <1>7, <1>8, <1>9, <1>10 DEF MainStep

LEMMA ResultStep == TypeOK /\ RunInv /\ HandInv /\ ResultInv /\ [Next]_vars => ResultInv'
<1> SUFFICES ASSUME TypeOK, RunInv, HandInv, ResultInv, [Next]_vars PROVE ResultInv' OBVIOUS
<1> USE DEF sessionVars, mainVars, probeVars
<1>1. CASE TakePacket \/ JudgePacket \/ LearnAddress \/ AlterPacket
  <2>1. UNCHANGED <<candidate, active, applied, trying, delivered, ownAltered, mpc>>
    <3>1. CASE TakePacket BY <3>1 DEF TakePacket, TakeSnapshot
    <3>2. CASE JudgePacket BY <3>2 DEF JudgePacket, Judge
    <3>3. CASE LearnAddress BY <3>3 DEF LearnAddress, Learn
    <3>4. CASE AlterPacket BY <3>4 DEF AlterPacket, Alter, PassOn
    <3> QED BY <1>1, <3>1, <3>2, <3>3, <3>4
  <2> QED BY <2>1, ResultKept
<1>2. CASE MarkPacket
  <2>1. /\ dpc = "mark" /\ applied' = (applied \/ candidate = snap.candidate)
        /\ UNCHANGED <<candidate, active, trying, delivered, ownAltered, mpc>>
    BY <1>2 DEF MarkPacket, MarkApplied
  <2>2. snap.candidate \in Candidates BY <2>1 DEF TypeOK, DivertTypeOK
  <2>3. Potent(snap.candidate) BY <2>1 DEF HandInv
  <2> QED BY <2>1, <2>2, <2>3 DEF ResultInv, Waiting, Potent, WorksOn, Transport
<1>3. CASE SendPacket
  <2>1. UNCHANGED <<candidate, active, applied, trying, mpc>> /\ dpc = "send"
        /\ delivered \subseteq delivered'
        /\ (ownAltered' => ownAltered \/ (FromProbe /\ altered))
    BY <1>3 DEF SendPacket, Leaves
  <2>2. FromProbe /\ altered => applied BY <2>1 DEF FromProbe, HandInv
  <2> QED BY <2>1, <2>2 DEF ResultInv, Waiting, Potent, WorksOn, Transport
<1>4. CASE EngineOpens \/ EngineDies \/ AppSends \/ UNCHANGED vars
  BY <1>4, ResultKept DEF EngineOpens, EngineDies, AppSends, vars
<1>5. CASE Transmit
  <2>1. UNCHANGED <<candidate, active, applied, trying, ownAltered, mpc>> /\ delivered \subseteq delivered'
    BY <1>5 DEF Transmit
  <2> QED BY <2>1 DEF ResultInv, Waiting, Potent, WorksOn, Transport
<1>6. CASE Interrupt
  <2>1. mpc' \notin Waiting /\ UNCHANGED <<candidate, active, applied, trying, delivered, ownAltered>>
    BY <1>6 DEF Interrupt, SocketCloses, Waiting
  <2> QED BY <2>1, ResultKept
<1> QED BY <1>1, <1>2, <1>3, <1>4, <1>5, <1>6, ResultMain DEF Next, DivertStep, Environment, Terminated

LEMMA DeliveredStep ==
    ASSUME "decoy" \notin EngineFaults, Whole
    PROVE  TypeOK /\ RunInv /\ HandInv /\ DeliveredInv /\ [Next]_vars => DeliveredInv'
<1> SUFFICES ASSUME TypeOK, RunInv, HandInv, DeliveredInv, [Next]_vars PROVE DeliveredInv' OBVIOUS
<1> USE DEF sessionVars, mainVars, probeVars, DeliveredInv, Waiting
<1>1. CASE StartProbe
  <2>1. delivered' = {} BY <1>1 DEF StartProbe
  <2> QED BY <2>1
<1>2. CASE SendPacket
  <2>1. dpc = "send" /\ UNCHANGED <<mpc, engine, trying, probePort>> BY <1>2 DEF SendPacket
  <2>2. WorksOn(trying)' = WorksOn(trying) /\ Potent(trying)' = Potent(trying)
    BY <2>1 DEF WorksOn, Potent, Transport
  <2>3. CASE FromProbe /\ Leaves(altered)
    <3>1. delivered' = delivered \cup {pkt.kind} /\ ownAltered' = (ownAltered \/ altered)
      BY <2>3 DEF Leaves
    <3>2. pkt.kind = WorksOn(trying) /\ Potent(trying) => altered
      BY <2>1, <2>3 DEF FromProbe, HandInv
    <3> QED BY <2>1, <2>2, <3>1, <3>2
  <2>4. CASE UNCHANGED <<delivered, ownAltered>> BY <2>1, <2>2, <2>4
  <2> QED BY <1>2, <2>3, <2>4 DEF SendPacket, Leaves
<1>3. CASE Transmit
  <2>1. engine = "up" => UNCHANGED delivered BY <1>3 DEF Transmit
  <2> QED BY <1>3, <2>1 DEF Transmit, WorksOn, Potent, Transport
<1>4. CASE EngineOpens
  <2>1. mpc \notin Waiting /\ mpc' = mpc BY <1>4 DEF EngineOpens, RunInv
  <2> QED BY <2>1
<1>5. CASE Connected \/ Responded
  <2>1. UNCHANGED <<trying, delivered, ownAltered, engine>> /\ mpc \in Waiting
    BY <1>5 DEF Connected, Responded, SocketCloses
  <2> QED BY <2>1 DEF WorksOn, Potent, Transport
<1>6. CASE MainStep /\ ~StartProbe /\ ~Connected /\ ~Responded
  <2>1. mpc' \notin Waiting
    <3>1. CASE AwaitEngine \/ TestDirect \/ Resolve \/ LoadCached
      BY <3>1 DEF AwaitEngine, TestDirect, Resolve, LoadCached, Return
    <3>2. CASE ProbeFails \/ Verify \/ Cleanup BY <3>2 DEF ProbeFails, Verify, Cleanup
    <3>3. CASE PickNext \/ PickBest \/ ActivateSelected \/ Save \/ EngineLost \/ Unwind \/ StopEngine
      BY <3>3 DEF PickNext, PickBest, ActivateSelected, Save, EngineLost, Unwind, StopEngine, Return
    <3> QED BY <1>6, <3>1, <3>2, <3>3 DEF MainStep
  <2> QED BY <2>1
<1>7. CASE DivertStep /\ ~SendPacket
  <2>1. UNCHANGED <<mpc, engine, trying, delivered, ownAltered>>
    BY <1>7 DEF DivertStep, TakePacket, JudgePacket, LearnAddress, AlterPacket, MarkPacket
  <2> QED BY <2>1 DEF WorksOn, Potent, Transport
<1>8. CASE EngineDies \/ AppSends \/ UNCHANGED vars
  BY <1>8 DEF EngineDies, AppSends, vars, WorksOn, Potent, Transport
<1>9. CASE Interrupt BY <1>9 DEF Interrupt
<1> QED BY <1>1, <1>2, <1>3, <1>4, <1>5, <1>6, <1>7, <1>8, <1>9 DEF Next, Environment, Terminated

\* With the engine alive, the flag says what happened to the packets of this probe.
LEMMA ResultTrue == RunInv /\ ResultInv /\ DeliveredInv => AppliedMeansAltered
BY DEF RunInv, Running, ResultInv, DeliveredInv, Waiting, AppliedMeansAltered

\* probe_applied() tells the truth about the probe, as long as the engine lives,
\* what is sent is sent whole and no strategy raises.
THEOREM AppliedTrue ==
    ASSUME "decoy" \notin EngineFaults, Whole PROVE Spec => []AppliedMeansAltered
<1>1. TypeOK /\ RunInv /\ HandInv /\ DeliveredInv /\ [Next]_vars => DeliveredInv' BY DeliveredStep
<1> QED BY <1>1, TypeInit, TypeStep, RunInit, RunStep, FlightInit, FlightStep, HandInit, HandStep,
           ResultInit, ResultStep, ResultTrue, PTL DEF Spec

-----------------------------------------------------------------------------
(* The scan.  What the main thread does between two probes follows from    *)
(* the results it has collected.                                           *)

ScanInv ==
    /\ mpc \in {"ready", "direct", "resolve", "load"} => phase = "direct"
    /\ mpc \in Probing => phase \in {"cached", "scan"}
    /\ mpc = "pick" => phase = "scan"
    /\ phase # "scan" => Untested = Candidates
    /\ phase = "scan" /\ mpc \in Probing => trying \in Sel!Best(Untested)
    /\ mpc = "activate" =>
         phase = "cached" \/ (Untested = {} /\ trying \in Sel!Best(Successful))

LEMMA ScanInit == Init => ScanInv
BY DEF Init, ScanInv, Untested, Probing

\* A step that leaves the results alone and the main thread where it is, or ends it.
LEMMA ScanKept ==
    ASSUME ScanInv, UNCHANGED <<phase, trying, details>>,
           mpc' = mpc \/ mpc' \in {"save", "hold", "unwind", "closing", "exited"}
    PROVE  ScanInv'
BY DEF ScanInv, Untested, Successful, Sel!Best, Probing

LEMMA ScanMain == TypeOK /\ ScanInv /\ MainStep => ScanInv'
<1> SUFFICES ASSUME TypeOK, ScanInv, MainStep PROVE ScanInv' OBVIOUS
<1> USE DEF Return, mainVars
<1> DEFINE SameResults == UNCHANGED details
<1>0. SameResults => /\ Untested' = Untested /\ Successful' = Successful
                     /\ Sel!Best(Untested)' = Sel!Best(Untested)
                     /\ Sel!Best(Successful)' = Sel!Best(Successful)
  BY DEF Untested, Successful, Sel!Best
<1>1. CASE AwaitEngine \/ TestDirect \/ Resolve
  <2>1. SameResults /\ phase' = phase /\ phase = "direct"
        /\ mpc' \in {"direct", "hold", "resolve", "load", "closing"}
    BY <1>1 DEF AwaitEngine, TestDirect, Resolve, ScanInv
  <2> HIDE DEF SameResults
  <2> QED BY <1>0, <2>1 DEF ScanInv, Probing
<1>2. CASE LoadCached
  <2>1. SameResults /\ Untested = Candidates
        /\ ((mpc' = "probe" /\ phase' = "cached") \/ (mpc' = "pick" /\ phase' = "scan"))
    BY <1>2 DEF LoadCached, ScanInv
  <2> HIDE DEF SameResults
  <2> QED BY <1>0, <2>1 DEF ScanInv, Probing
<1>3. CASE StartProbe \/ Connected \/ Responded \/ ProbeFails \/ Verify
  <2>1. SameResults /\ UNCHANGED <<phase, trying>> /\ mpc \in Probing
        /\ mpc' \in Probing
    BY <1>3 DEF StartProbe, Connected, Responded, ProbeFails, Verify, Probing
  <2> HIDE DEF SameResults
  <2> QED BY <1>0, <2>1 DEF ScanInv, Probing
<1>4. CASE Cleanup
  <2>1. mpc = "cleanup" /\ trying' = trying BY <1>4 DEF Cleanup
  <2>2. CASE TryNextAddress
    <3>1. SameResults /\ phase' = phase /\ mpc' = "probe" BY <1>4, <2>2 DEF Cleanup
    <3> HIDE DEF SameResults
    <3> QED BY <1>0, <2>1, <3>1 DEF ScanInv, Probing
  <2>3. CASE ~TryNextAddress /\ phase = "cached"
    <3>1. SameResults /\ mpc' \in {"activate", "pick"} /\ Untested = Candidates
          /\ phase' = IF mpc' = "activate" THEN "cached" ELSE "scan"
      BY <1>4, <2>3 DEF Cleanup, ScanInv
    <3> HIDE DEF SameResults
    <3> QED BY <1>0, <2>1, <3>1 DEF ScanInv, Probing
  <2>4. CASE ~TryNextAddress /\ phase # "cached"
    <3>1. mpc' = "pick" /\ phase' = phase /\ phase = "scan"
      BY <1>4, <2>1, <2>4 DEF Cleanup, ScanInv, Probing
    <3> QED BY <2>1, <3>1 DEF ScanInv, Probing
  <2> QED BY <2>2, <2>3, <2>4
<1>5. CASE PickNext
  <2>1. SameResults /\ phase' = phase /\ phase = "scan" /\ mpc' = "probe"
        /\ trying' \in Sel!Best(Untested)
    BY <1>5 DEF PickNext, ScanInv
  <2>2. trying' \in Sel!Best(Untested)' BY <1>0, <2>1
  <2> HIDE DEF SameResults
  <2> QED BY <1>0, <2>1, <2>2 DEF ScanInv, Probing
<1>6. CASE PickBest
  <2>1. SameResults /\ phase' = phase /\ phase = "scan"
        /\ (mpc' = "closing"
              \/ (mpc' = "activate" /\ Untested = {} /\ trying' \in Sel!Best(Successful)))
    BY <1>6 DEF PickBest, Choices, ScanInv
  <2> HIDE DEF SameResults
  <2> QED BY <1>0, <2>1 DEF ScanInv, Probing
<1>7. CASE ActivateSelected \/ Save \/ EngineLost \/ Unwind \/ StopEngine
  <2>1. UNCHANGED <<phase, trying, details>> /\ mpc' \in {"save", "hold", "closing", "exited"}
    BY <1>7 DEF ActivateSelected, Save, EngineLost, Unwind, StopEngine
  <2> QED BY <2>1, ScanKept
<1> QED BY <1>1, <1>2, <1>3, <1>4, <1>5, <1>6, <1>7 DEF MainStep

LEMMA ScanStep == TypeOK /\ ScanInv /\ [Next]_vars => ScanInv'
<1> SUFFICES ASSUME TypeOK, ScanInv, [Next]_vars PROVE ScanInv' OBVIOUS
<1>1. CASE DivertStep \/ EngineOpens \/ EngineDies \/ Transmit \/ AppSends \/ UNCHANGED vars
  <2>1. UNCHANGED mainVars
    <3>1. CASE DivertStep
      BY <3>1 DEF DivertStep, TakePacket, JudgePacket, LearnAddress, AlterPacket, MarkPacket, SendPacket
    <3>2. CASE EngineOpens \/ EngineDies \/ Transmit \/ AppSends \/ UNCHANGED vars
      BY <3>2 DEF EngineOpens, EngineDies, Transmit, AppSends, vars
    <3> QED BY <1>1, <3>1, <3>2
  <2> QED BY <2>1, ScanKept DEF mainVars
<1>2. CASE Interrupt BY <1>2, ScanKept DEF Interrupt
<1> QED BY <1>1, <1>2, ScanMain DEF Next, Environment, Terminated

-----------------------------------------------------------------------------
(* Refinement.  A probe's clean-up is a Test, activating is a choice, and  *)
(* nothing else that happens is visible in Selection.                      *)

SelTested == Candidates \ Untested
SelChosen == IF active THEN candidate ELSE NoCandidate
SelVars == <<SelTested, Successful, SelChosen>>

LEMMA SelectsInit == Init => Sel!SelectionInit
BY DEF Init, SessionInit, Sel!SelectionInit, Untested, Successful

\* A step that leaves the results and the choice alone.
LEMMA SelectsStutter ==
    ASSUME UNCHANGED details, UNCHANGED <<active, candidate>> \/ (~active /\ ~active')
    PROVE  UNCHANGED SelVars
<1>1. active' = active \/ (~active /\ ~active') OBVIOUS
<1>2. SelChosen' = SelChosen BY DEF SelChosen
<1>3. SelTested' = SelTested /\ Successful' = Successful BY DEF SelTested, Untested, Successful
<1> QED BY <1>2, <1>3 DEF SelVars

\* The end of a candidate's test.
LEMMA SelectsTest ==
    ASSUME TypeOK, ActiveInv, RunInv, ScanInv, Cleanup,
           ~TryNextAddress, phase # "cached"
    PROVE  Sel!Test(trying)
<1>1. mpc = "cleanup" /\ phase = "scan" /\ trying \in Sel!Best(Untested) /\ trying \in Candidates
  BY DEF Cleanup, ScanInv, TypeOK, MainTypeOK, Probing
<1>2. ~active /\ ~active' BY <1>1 DEF Cleanup, SetProbe, RunInv, Running
<1>3. details' = [details EXCEPT ![trying] = IF ok THEN "pass" ELSE "fail"] BY DEF Cleanup
<1>4. details \in [Candidates -> Results] /\ ok \in BOOLEAN BY DEF TypeOK, MainTypeOK
<1>5. /\ details'[trying] = IF ok THEN "pass" ELSE "fail"
      /\ \A c \in Candidates : c # trying => details'[c] = details[c]
  BY <1>1, <1>3, <1>4
<1>6. Untested' = Untested \ {trying} BY <1>5 DEF Untested
<1>7. Successful' = Successful \/ Successful' = Successful \cup {trying}
  BY <1>1, <1>5 DEF Successful, Sel!Best, Untested
<1>8. trying \in Sel!Best(Candidates \ (Candidates \ Untested))
  <2>1. Candidates \ (Candidates \ Untested) = Untested BY DEF Untested
  <2> QED BY <1>1, <2>1
<1>9. (Candidates \ Untested)' = (Candidates \ Untested) \cup {trying} BY <1>1, <1>6 DEF Sel!Best
<1> QED BY <1>2, <1>7, <1>8, <1>9 DEF Sel!Test

\* The strategy that activates: remembered, or the best of the scan.
LEMMA SelectsChoose ==
    ASSUME TypeOK, ActiveInv, ScanInv, ActivateSelected
    PROVE  Sel!ChooseRemembered(trying) \/ Sel!ChooseBest(trying)
<1>1. /\ mpc = "activate" /\ active' = TRUE /\ candidate' = trying /\ UNCHANGED details
  BY DEF ActivateSelected, Activate, mainVars
<1>2. ~active BY <1>1 DEF ActiveInv
<1>3. (Candidates \ Untested)' = Candidates \ Untested /\ Successful' = Successful
  BY <1>1 DEF Untested, Successful
<1>4. CASE phase = "cached"
  <2>1. Candidates \ Untested = {} BY <1>4 DEF ScanInv
  <2> QED BY <1>1, <1>2, <1>3, <2>1 DEF Sel!ChooseRemembered
<1>5. CASE Untested = {} /\ trying \in Sel!Best(Successful)
  <2>1. Candidates \ Untested = Candidates BY <1>5
  <2> QED BY <1>1, <1>2, <1>3, <1>5, <2>1 DEF Sel!ChooseBest
<1> QED BY <1>1, <1>4, <1>5 DEF ScanInv

\* Every step of the session is a step of Selection or invisible there.
LEMMA SelectsStep ==
    ASSUME TypeOK, ActiveInv, RunInv, ScanInv, [Next]_vars
    PROVE  [Sel!SelectionNext]_SelVars
<1> USE DEF sessionVars, divertVars, handVars, mainVars, probeVars
<1>1. CASE Cleanup /\ ~TryNextAddress /\ phase # "cached"
  <2>1. Sel!Test(trying) BY <1>1, SelectsTest
  <2>2. trying \in Candidates BY <1>1 DEF Cleanup, TypeOK, MainTypeOK, Probing
  <2> QED BY <2>1, <2>2 DEF Sel!SelectionNext
<1>2. CASE ActivateSelected
  <2>1. trying \in Candidates BY <1>2 DEF ActivateSelected, TypeOK, MainTypeOK
  <2> QED BY <1>2, <2>1, SelectsChoose DEF Sel!SelectionNext
<1>3. CASE Cleanup /\ (TryNextAddress \/ phase = "cached")
  <2>1. UNCHANGED details /\ ~active /\ ~active'
    BY <1>3 DEF Cleanup, SetProbe, RunInv, Running
  <2> QED BY <2>1, SelectsStutter
<1>4. CASE StartProbe \/ Unwind
  <2>1. UNCHANGED details /\ ~active /\ ~active' BY <1>4 DEF StartProbe, Unwind, SetProbe, ActiveInv
  <2> QED BY <2>1, SelectsStutter
<1>5. CASE MainStep /\ ~Cleanup /\ ~StartProbe /\ ~Unwind /\ ~ActivateSelected
  <2>1. UNCHANGED <<details, active, candidate>>
    <3>1. CASE AwaitEngine \/ TestDirect \/ LoadCached \/ Responded \/ ProbeFails \/ Verify
      BY <3>1 DEF AwaitEngine, TestDirect, LoadCached, Responded, ProbeFails, Verify
    <3>2. CASE Resolve \/ Connected BY <3>2 DEF Resolve, RecordDnsAnswer, Connected, BindProbe
    <3>3. CASE PickNext \/ PickBest \/ Save \/ EngineLost \/ StopEngine
      BY <3>3 DEF PickNext, PickBest, Save, EngineLost, StopEngine
    <3> QED BY <1>5, <3>1, <3>2, <3>3 DEF MainStep
  <2> QED BY <2>1, SelectsStutter
<1>6. CASE DivertStep
  <2>1. UNCHANGED <<details, active, candidate>>
    <3>1. CASE TakePacket BY <3>1 DEF TakePacket, TakeSnapshot
    <3>2. CASE JudgePacket BY <3>2 DEF JudgePacket, Judge
    <3>3. CASE LearnAddress BY <3>3 DEF LearnAddress, Learn
    <3>4. CASE AlterPacket BY <3>4 DEF AlterPacket, Alter, PassOn
    <3>5. CASE MarkPacket BY <3>5 DEF MarkPacket, MarkApplied
    <3>6. CASE SendPacket BY <3>6 DEF SendPacket
    <3> QED BY <1>6, <3>1, <3>2, <3>3, <3>4, <3>5, <3>6 DEF DivertStep
  <2> QED BY <2>1, SelectsStutter
<1>7. CASE EngineOpens \/ EngineDies \/ Transmit \/ AppSends \/ UNCHANGED vars
  <2>1. UNCHANGED <<details, active, candidate>>
    BY <1>7 DEF EngineOpens, EngineDies, Transmit, AppSends, vars
  <2> QED BY <2>1, SelectsStutter
<1>8. CASE Interrupt
  <2>1. UNCHANGED <<details, active, candidate>> BY <1>8 DEF Interrupt
  <2> QED BY <2>1, SelectsStutter
<1> QED BY <1>1, <1>2, <1>3, <1>4, <1>5, <1>6, <1>7, <1>8 DEF Next, MainStep, Environment, Terminated

\* The session, whatever packets fly and whenever the engine dies, keeps the
\* promise of Selection: each candidate tested once, best first, the choice final.
THEOREM SessionSelects == Spec => Selects
<1>1. ASSUME TypeOK, ActiveInv, RunInv, ScanInv, [Next]_vars
      PROVE  [Sel!SelectionNext]_(Sel!selectionVars)
  BY <1>1, SelectsStep DEF SelVars, SelTested, SelChosen, Sel!selectionVars
<1>2. TypeOK /\ ActiveInv /\ [Next]_vars => ActiveInv' BY ActiveStep
<1> QED BY <1>1, <1>2, TypeInit, TypeStep, ActiveInit, RunInit, RunStep, ScanInit, ScanStep,
           SelectsInit, PTL DEF Spec, Selects, Sel!SelectionSpec

-----------------------------------------------------------------------------
(* Giving up.  A verified candidate is never forgotten: it is the one in   *)
(* hand, or the scan has it, or the session is past the tests.             *)

Settled == {"activate", "save", "hold", "unwind", "closing", "exited"}

Over == {"unwind", "closing", "exited"}

LossInv ==
    /\ \A c \in verified :
         details[c] = "pass" \/ (mpc = "cleanup" /\ ok /\ c = trying) \/ mpc \in Settled
    /\ exitCode # NoCode => mpc \in Over
    /\ saved # NoCandidate => mpc \in {"hold", "closing", "exited"}
    /\ exitCode = 2 => verified = {} /\ ~active /\ saved = NoCandidate

LEMMA LossInit == Init => LossInv
BY DEF Init, LossInv, NoCode, Over

\* A step before the tests end that keeps the results, or one that ends the session.
LEMMA LossKept ==
    ASSUME UNCHANGED <<details, verified, saved>>, mpc # "cleanup", LossInv,
           \/ UNCHANGED exitCode /\ exitCode # 2
           \/ exitCode' \in {0, 1} /\ mpc' = "closing",
           mpc \in Settled => mpc' \in Settled,
           exitCode' = exitCode /\ exitCode # NoCode => mpc' \in Over,
           saved # NoCandidate => mpc' \in {"hold", "closing", "exited"}
    PROVE  LossInv'
BY DEF LossInv, NoCode, Over

LEMMA LossMain ==
    TypeOK /\ ActiveInv /\ ScanInv /\ ResultInv /\ LossInv /\ MainStep => LossInv'
<1> SUFFICES ASSUME TypeOK, ActiveInv, ScanInv, ResultInv, LossInv, MainStep PROVE LossInv' OBVIOUS
<1> USE DEF Return, mainVars, sessionVars, Settled, Over
<1>1. CASE AwaitEngine \/ TestDirect \/ Resolve \/ LoadCached
  <2>1. /\ UNCHANGED <<details, verified, saved>> /\ mpc \in {"ready", "direct", "resolve", "load"}
        /\ exitCode' = exitCode \/ (exitCode' = 1 /\ mpc' = "closing")
    BY <1>1 DEF AwaitEngine, TestDirect, Resolve, LoadCached
  <2> QED BY <2>1, LossKept DEF LossInv, NoCode
<1>2. CASE StartProbe \/ Connected \/ Responded \/ ProbeFails
  <2>1. /\ UNCHANGED <<details, verified, saved, exitCode>>
        /\ mpc \in {"probe", "connecting", "handshake"}
    BY <1>2 DEF StartProbe, Connected, Responded, ProbeFails
  <2> QED BY <2>1, LossKept DEF LossInv, NoCode
<1>3. CASE Verify
  <2>1. /\ mpc = "verify" /\ mpc' = "cleanup" /\ ok' = applied
        /\ verified' = IF ownAltered THEN verified \cup {trying} ELSE verified
        /\ UNCHANGED <<details, trying, saved, exitCode>>
    BY <1>3 DEF Verify, Passed
  <2>2. ownAltered => ok' BY <2>1 DEF ResultInv, Waiting
  <2> QED BY <2>1, <2>2 DEF LossInv, NoCode
<1>4. CASE Cleanup
  <2>1. mpc = "cleanup" /\ UNCHANGED <<verified, saved, exitCode, trying, ok>> BY <1>4 DEF Cleanup
  <2>2. saved = NoCandidate /\ exitCode = NoCode BY <2>1 DEF LossInv
  <2>3. ASSUME NEW c \in verified PROVE details'[c] = "pass" \/ mpc' \in Settled
    <3>1. c \in Candidates /\ details \in [Candidates -> Results] /\ trying \in Candidates
      BY <2>1 DEF TypeOK, MachineTypeOK, MainTypeOK, Probing
    <3>2. details[c] = "pass" \/ (ok /\ c = trying) BY <2>1 DEF LossInv
    <3>3. details[c] = "pass" => phase = "scan" /\ c # trying
      BY <2>1, <3>1 DEF ScanInv, Untested, Probing, Sel!Best
    <3>4. CASE ok /\ c = trying
      <4>1. ~TryNextAddress BY <3>4 DEF TryNextAddress
      <4> QED BY <1>4, <3>1, <3>4, <4>1 DEF Cleanup
    <3>5. CASE details[c] = "pass"
      <4>1. details' = details \/ details' = [details EXCEPT ![trying] = IF ok THEN "pass" ELSE "fail"]
        BY <1>4 DEF Cleanup
      <4> QED BY <3>1, <3>3, <3>5, <4>1
    <3> QED BY <3>2, <3>4, <3>5
  <2> QED BY <2>1, <2>2, <2>3 DEF LossInv, NoCode
<1>5. CASE PickNext
  <2>1. UNCHANGED <<details, verified, saved, exitCode>> /\ mpc = "pick" BY <1>5 DEF PickNext
  <2> QED BY <2>1, LossKept DEF LossInv, NoCode
<1>6. CASE PickBest
  <2>1. mpc = "pick" /\ UNCHANGED <<details, verified, saved, active>> BY <1>6 DEF PickBest
  <2>2. ~active /\ saved = NoCandidate /\ exitCode = NoCode BY <2>1 DEF ActiveInv, LossInv
  <2>3. Successful = {} => verified = {}
    BY <2>1 DEF LossInv, Successful, TypeOK, MachineTypeOK
  <2>4. \/ mpc' = "activate" /\ exitCode' = exitCode
        \/ Successful = {} /\ mpc' = "closing" /\ exitCode' = 2
    BY <1>6 DEF PickBest
  <2> QED BY <2>1, <2>2, <2>3, <2>4 DEF LossInv
<1>7. CASE ActivateSelected
  <2>1. UNCHANGED <<details, verified, saved, exitCode>> /\ mpc = "activate" /\ mpc' = "save"
    BY <1>7 DEF ActivateSelected
  <2> QED BY <2>1, LossKept DEF LossInv, NoCode
<1>8. CASE Save
  <2>1. UNCHANGED <<details, verified, exitCode>> /\ mpc = "save" /\ mpc' = "hold" BY <1>8 DEF Save
  <2>2. exitCode = NoCode BY <2>1 DEF LossInv
  <2> QED BY <2>1, <2>2 DEF LossInv, NoCode
<1>9. CASE EngineLost
  <2>1. UNCHANGED <<details, verified, saved>> /\ mpc = "hold" /\ mpc' = "closing" /\ exitCode' = 1
    BY <1>9 DEF EngineLost, Holding
  <2> QED BY <2>1, LossKept
<1>10. CASE StopEngine
  <2>1. /\ UNCHANGED <<details, verified, saved, exitCode, active>>
        /\ mpc = "closing" /\ mpc' = "exited"
    BY <1>10 DEF StopEngine
  <2> QED BY <2>1 DEF LossInv
<1>11. CASE Unwind
  <2>1. /\ UNCHANGED <<details, verified, saved, exitCode>> /\ ~active'
        /\ mpc = "unwind" /\ mpc' = "closing"
    BY <1>11 DEF Unwind, SetProbe
  <2> QED BY <2>1 DEF LossInv
<1> QED BY <1>1, <1>2, <1>3, <1>4, <1>5, <1>6, <1>7, <1>8, <1>9, <1>10, <1>11 DEF MainStep

LEMMA LossStep ==
    TypeOK /\ ActiveInv /\ RunInv /\ ScanInv /\ ResultInv /\ LossInv /\ [Next]_vars => LossInv'
<1> SUFFICES ASSUME TypeOK, ActiveInv, RunInv, ScanInv, ResultInv, LossInv, [Next]_vars
             PROVE  LossInv'
  OBVIOUS
<1>1. CASE DivertStep \/ EngineOpens \/ EngineDies \/ Transmit \/ AppSends \/ UNCHANGED vars
  <2>1. UNCHANGED mainVars /\ UNCHANGED <<verified, active>>
    <3>1. CASE TakePacket BY <3>1 DEF TakePacket, TakeSnapshot, sessionVars
    <3>2. CASE JudgePacket BY <3>2 DEF JudgePacket, Judge, sessionVars
    <3>3. CASE LearnAddress BY <3>3 DEF LearnAddress, Learn
    <3>4. CASE AlterPacket BY <3>4 DEF AlterPacket, Alter, PassOn, sessionVars
    <3>5. CASE MarkPacket BY <3>5 DEF MarkPacket, MarkApplied
    <3>6. CASE SendPacket BY <3>6 DEF SendPacket, sessionVars
    <3>7. CASE EngineOpens \/ EngineDies \/ Transmit \/ AppSends \/ UNCHANGED vars
      BY <3>7 DEF EngineOpens, EngineDies, Transmit, AppSends, vars, sessionVars
    <3> QED BY <1>1, <3>1, <3>2, <3>3, <3>4, <3>5, <3>6, <3>7 DEF DivertStep
  <2> QED BY <2>1 DEF LossInv, Settled, Over, mainVars
<1>2. CASE Interrupt
  <2>1. /\ UNCHANGED <<details, verified, saved>>
        /\ mpc' = IF mpc \in Running \ {"unwind"} THEN "unwind" ELSE "closing"
        /\ exitCode' = 0
    BY <1>2 DEF Interrupt, ProbeUnwinds, Running
  <2>2. saved # NoCandidate => mpc' = "closing" BY <2>1 DEF LossInv, Running
  <2> QED BY <2>1, <2>2 DEF LossInv, Settled, Over, NoCode
<1> QED BY <1>1, <1>2, LossMain DEF Next, Environment, Terminated

\* run_auto gives up only if nothing was verified, and leaves nothing behind.
THEOREM GivesUpLast == Spec => []GivesUpEmptyHanded
<1>1. LossInv => GivesUpEmptyHanded BY DEF LossInv, GivesUpEmptyHanded
<1>2. TypeOK /\ ActiveInv /\ [Next]_vars => ActiveInv' BY ActiveStep
<1> QED BY <1>1, <1>2, TypeInit, TypeStep, ActiveInit, RunInit, RunStep, FlightInit, FlightStep,
           HandInit, HandStep, ResultInit, ResultStep, ScanInit, ScanStep, LossInit, LossStep,
           PTL DEF Spec

-----------------------------------------------------------------------------
(* The active strategy.  With the engine alive, success in the scan, in    *)
(* the hand of the main thread and in the session is verified success.     *)

EarnedInv ==
    /\ engine = "starting" => ~active /\ mpc \in {"ready", "closing", "exited"}
    /\ engine = "up" =>
         /\ mpc = "cleanup" /\ ok => trying \in verified
         /\ mpc \in {"activate", "save"} => trying \in verified
         /\ active => candidate \in verified
    /\ engine # "down" => Successful \subseteq verified

LEMMA EarnedInit == Init => EarnedInv
BY DEF Init, SessionInit, EarnedInv, Successful

\* A step that leaves what was earned, and what it was earned for, alone.
LEMMA EarnedKept ==
    ASSUME EarnedInv, verified \subseteq verified', details' = details,
           engine' = engine \/ engine' = "down",
           \/ UNCHANGED <<mpc, trying, ok>>
           \/ mpc' \notin {"cleanup", "activate", "save"} /\ engine # "starting"
           \/ mpc' \in {"closing", "exited"},
           UNCHANGED <<active, candidate>> \/ ~active'
    PROVE  EarnedInv'
BY DEF EarnedInv, Successful

LEMMA EarnedMain ==
    ASSUME TypeOK, RunInv, ScanInv, EarnedInv, AppliedMeansAltered, MainStep
    PROVE  EarnedInv'
<1> USE DEF Return, mainVars, sessionVars
<1>1. CASE AwaitEngine
  <2>1. /\ UNCHANGED <<verified, details, engine, active, candidate>>
        /\ mpc' = "closing" \/ (mpc' = "direct" /\ engine = "up")
    BY <1>1 DEF AwaitEngine
  <2> QED BY <2>1, EarnedKept
<1>2. CASE TestDirect \/ Resolve \/ LoadCached \/ PickNext
  <2>1. /\ UNCHANGED <<verified, details, engine, active, candidate>> /\ engine # "starting"
        /\ mpc' \notin {"cleanup", "activate", "save"}
    BY <1>2 DEF TestDirect, Resolve, RecordDnsAnswer, LoadCached, PickNext, EarnedInv
  <2> QED BY <2>1, EarnedKept
<1>3. CASE StartProbe \/ Connected \/ Responded
  <2>1. /\ UNCHANGED <<verified, details, engine>> /\ engine # "starting"
        /\ mpc' \notin {"cleanup", "activate", "save"}
        /\ UNCHANGED <<active, candidate>> \/ ~active'
    BY <1>3 DEF StartProbe, SetProbe, Connected, BindProbe, Responded, EarnedInv
  <2> QED BY <2>1, EarnedKept
<1>4. CASE ProbeFails
  <2>1. /\ UNCHANGED <<verified, details, engine, active, candidate, trying>>
        /\ ok' = FALSE /\ mpc' = "cleanup" /\ mpc \in {"connecting", "handshake"}
    BY <1>4 DEF ProbeFails
  <2> QED BY <2>1 DEF EarnedInv, Successful
<1>5. CASE Verify
  <2>1. /\ mpc = "verify" /\ mpc' = "cleanup" /\ ok' = applied
        /\ verified' = IF ownAltered THEN verified \cup {trying} ELSE verified
        /\ UNCHANGED <<details, trying, engine, active, candidate>>
    BY <1>5 DEF Verify, Passed
  <2>2. engine = "up" /\ ok' => trying \in verified' BY <2>1 DEF AppliedMeansAltered
  <2> QED BY <2>1, <2>2 DEF EarnedInv, Successful
<1>6. CASE Cleanup
  <2>1. /\ mpc = "cleanup" /\ UNCHANGED <<verified, trying, ok, engine>>
        /\ ~active' /\ engine # "starting"
    BY <1>6 DEF Cleanup, SetProbe, EarnedInv
  <2>2. mpc' \in {"probe", "pick"} \/ (mpc' = "activate" /\ ok) BY <1>6 DEF Cleanup
  <2>3. Successful' \subseteq Successful \cup (IF ok THEN {trying} ELSE {})
    <3>1. details' = details \/ details' = [details EXCEPT ![trying] = IF ok THEN "pass" ELSE "fail"]
      BY <1>6 DEF Cleanup
    <3>2. details \in [Candidates -> Results] BY DEF TypeOK, MainTypeOK
    <3> QED BY <3>1, <3>2 DEF Successful
  <2>4. engine = "up" => Successful' \subseteq verified
    BY <2>1, <2>3 DEF EarnedInv
  <2> QED BY <2>1, <2>2, <2>4 DEF EarnedInv, TypeOK, MachineTypeOK
<1>7. CASE PickBest
  <2>1. /\ UNCHANGED <<verified, details, engine, active, candidate>> /\ engine # "starting"
        /\ mpc' = "closing" \/ (mpc' = "activate" /\ trying' \in Successful)
    BY <1>7 DEF PickBest, Choices, Sel!Best, EarnedInv
  <2>2. Successful' = Successful BY <2>1 DEF Successful
  <2> QED BY <2>1, <2>2 DEF EarnedInv
<1>8. CASE ActivateSelected
  <2>1. /\ mpc = "activate" /\ mpc' = "save" /\ candidate' = trying
        /\ UNCHANGED <<verified, details, engine, trying>>
    BY <1>8 DEF ActivateSelected, Activate
  <2> QED BY <2>1 DEF EarnedInv, Successful
<1>9. CASE Save \/ EngineLost
  <2>1. /\ UNCHANGED <<verified, details, engine, active, candidate>> /\ engine # "starting"
        /\ mpc' \in {"hold", "closing"}
    BY <1>9 DEF Save, EngineLost, EarnedInv
  <2> QED BY <2>1, EarnedKept
<1>10. CASE StopEngine
  <2>1. engine' = "down" BY <1>10 DEF StopEngine
  <2> QED BY <2>1 DEF EarnedInv
<1>11. CASE Unwind
  <2>1. UNCHANGED <<verified, details, engine>> /\ mpc' = "closing" /\ ~active'
    BY <1>11 DEF Unwind, SetProbe
  <2> QED BY <2>1, EarnedKept
<1> QED BY <1>1, <1>2, <1>3, <1>4, <1>5, <1>6, <1>7, <1>8, <1>9, <1>10, <1>11 DEF MainStep

LEMMA EarnedStep ==
    TypeOK /\ RunInv /\ ScanInv /\ EarnedInv /\ AppliedMeansAltered /\ [Next]_vars => EarnedInv'
<1> SUFFICES ASSUME TypeOK, RunInv, ScanInv, EarnedInv, AppliedMeansAltered, [Next]_vars
             PROVE  EarnedInv'
  OBVIOUS
<1> USE DEF mainVars, sessionVars
<1>1. CASE DivertStep \/ Transmit \/ AppSends \/ UNCHANGED vars
  <2>1. UNCHANGED mainVars /\ UNCHANGED <<verified, active, candidate, engine>>
    <3>1. CASE TakePacket BY <3>1 DEF TakePacket, TakeSnapshot
    <3>2. CASE JudgePacket BY <3>2 DEF JudgePacket, Judge
    <3>3. CASE LearnAddress BY <3>3 DEF LearnAddress, Learn
    <3>4. CASE AlterPacket BY <3>4 DEF AlterPacket, Alter, PassOn
    <3>5. CASE MarkPacket BY <3>5 DEF MarkPacket, MarkApplied
    <3>6. CASE SendPacket BY <3>6 DEF SendPacket
    <3>7. CASE Transmit \/ AppSends \/ UNCHANGED vars BY <3>7 DEF Transmit, AppSends, vars
    <3> QED BY <1>1, <3>1, <3>2, <3>3, <3>4, <3>5, <3>6, <3>7 DEF DivertStep
  <2> QED BY <2>1, EarnedKept
<1>2. CASE EngineOpens
  <2>1. engine = "starting" /\ engine' = "up" /\ UNCHANGED <<mainVars, verified, active, candidate>>
    BY <1>2 DEF EngineOpens
  <2> QED BY <2>1 DEF EarnedInv, Successful
<1>3. CASE EngineDies
  <2>1. engine' = "down" BY <1>3 DEF EngineDies
  <2> QED BY <2>1 DEF EarnedInv
<1>4. CASE Interrupt
  <2>1. /\ UNCHANGED <<verified, details, engine, active, candidate>>
        /\ mpc' = "closing" \/ (mpc' = "unwind" /\ mpc \in Running)
    BY <1>4 DEF Interrupt, ProbeUnwinds, Running
  <2> QED BY <2>1, EarnedKept DEF RunInv
<1> QED BY <1>1, <1>2, <1>3, <1>4, EarnedMain DEF Next, Environment, Terminated

\* As long as the engine lives, the active strategy is one that was verified
\* (no decoy lost on its own, no strategy that raises: see AppliedTrue).
THEOREM ActiveEarned ==
    ASSUME "decoy" \notin EngineFaults, Whole PROVE Spec => []ActiveWasVerified
<1>1. TypeOK /\ RunInv /\ HandInv /\ DeliveredInv /\ [Next]_vars => DeliveredInv' BY DeliveredStep
<1>2. EarnedInv => ActiveWasVerified BY DEF EarnedInv, ActiveWasVerified
<1> QED BY <1>1, <1>2, TypeInit, TypeStep, RunInit, RunStep, FlightInit, FlightStep, HandInit,
           HandStep, ResultInit, ResultStep, ResultTrue, ScanInit, ScanStep, EarnedInit, EarnedStep,
           PTL DEF Spec

=============================================================================
