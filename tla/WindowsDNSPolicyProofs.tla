----------------------- MODULE WindowsDNSPolicyProofs -----------------------
(***************************************************************************)
(* Theorems about WindowsDNSPolicy, for any set of faults and any number   *)
(* of launches.                                                            *)
(***************************************************************************)
EXTENDS WindowsDNSPolicy, TLAPS

USE DnsAssumption DEF Threads, StartSteps, StopBody, Entries, Nobody, Mishap, Mishaps

LEMMA TypeInit == Init => TypeOK
<1> SUFFICES ASSUME Init PROVE TypeOK OBVIOUS
<1>1. /\ present \in BOOLEAN /\ started \in BOOLEAN /\ stopped \in BOOLEAN
      /\ errors \in BOOLEAN /\ registered \in BOOLEAN /\ missed \in BOOLEAN
      /\ wrong \subseteq Mishaps
  BY DEF Init
<1> QED BY <1>1 DEF Init, TypeOK

\* A new process starts with every field in its type.
LEMMA FreshFields ==
    FreshProcess => /\ present' \in BOOLEAN /\ started' \in BOOLEAN /\ stopped' \in BOOLEAN
                    /\ errors' \in BOOLEAN /\ registered' \in BOOLEAN
BY DEF FreshProcess

\* Whatever happens to it, _cleanup_stale_rules adds no rule.
LEMMA Remaining ==
    CleanupStaleRules => rules' \subseteq rules /\ UNCHANGED <<doh, userDoh, missed>>
<1> SUFFICES ASSUME CleanupStaleRules PROVE rules' \subseteq rules /\ UNCHANGED <<doh, userDoh, missed>>
  OBVIOUS
<1>1. CASE RulesBecome(rules \ Stale) BY <1>1 DEF RulesBecome
<1>2. CASE SomeStay BY <1>2 DEF SomeStay, Stale, RulesBecome
<1>3. CASE UNCHANGED windows BY <1>3 DEF windows
<1> QED BY <1>1, <1>2, <1>3 DEF CleanupStaleRules

LEMMA TypeStart == TypeOK /\ StartStep => TypeOK'
<1> SUFFICES ASSUME TypeOK, StartStep PROVE TypeOK' OBVIOUS
<1> USE DEF TypeOK, windows, policyVars, EntryBecomes, RulesBecome, StartFails
<1>1. CASE SnapshotDoh
  <2>1. present' \in BOOLEAN /\ missed' \in BOOLEAN /\ wrong' \subseteq Mishaps
    BY <1>1 DEF SnapshotDoh
  <2>2. original' \in Entries /\ mpc = "snapshot" /\ mpc' \in {"stale", "exit"}
    BY <1>1 DEF SnapshotDoh
  <2>3. /\ UNCHANGED <<rules, doh, userDoh, ruleNames, started, stopped, lock, errors>>
        /\ UNCHANGED <<spc, registered, report, runs>>
    BY <1>1 DEF SnapshotDoh
  <2> QED BY <2>1, <2>2, <2>3
<1>2. CASE CleanupStaleRules
  <2>1. rules' \subseteq 1..MaxRuns /\ UNCHANGED <<doh, userDoh, missed>>
    BY <1>2, Remaining
  <2>2. mpc' \in {"configure", "exit"} /\ wrong' \subseteq Mishaps BY <1>2 DEF CleanupStaleRules
  <2> QED BY <1>2, <2>1, <2>2 DEF CleanupStaleRules
<1>3. CASE ConfigureDoh
  <2>1. doh' \in Entries /\ UNCHANGED <<rules, userDoh, missed>> BY <1>3 DEF ConfigureDoh
  <2>2. \/ mpc' = "add" /\ UNCHANGED spc
        \/ mpc' = "stop" /\ spc' = [spc EXCEPT !["main"] = "acquire"]
    BY <1>3 DEF ConfigureDoh
  <2>3. UNCHANGED <<policyVars, registered, report, runs, wrong>> BY <1>3 DEF ConfigureDoh
  <2>4. mpc = "configure" BY <1>3 DEF ConfigureDoh
  <2> QED BY <2>1, <2>2, <2>3, <2>4
<1>4. CASE AddRule
  <2>1. mpc = "add" /\ runs \in 1..MaxRuns BY <1>4 DEF AddRule
  <2>2. rules' \subseteq 1..MaxRuns /\ UNCHANGED <<doh, userDoh, missed>> BY <1>4, <2>1 DEF AddRule
  <2>3. ruleNames' \subseteq 1..MaxRuns BY <1>4, <2>1 DEF AddRule
  <2>4. \/ mpc' = "flush" /\ UNCHANGED spc
        \/ mpc' = "stop" /\ spc' = [spc EXCEPT !["main"] = "acquire"]
    BY <1>4 DEF AddRule
  <2>5. /\ UNCHANGED <<present, original, started, stopped, lock, errors>>
        /\ UNCHANGED <<registered, report, runs>>
    BY <1>4 DEF AddRule
  <2>6. wrong' \subseteq Mishaps BY <1>4 DEF AddRule
  <2> QED BY <2>1, <2>2, <2>3, <2>4, <2>5, <2>6
<1>5. CASE FlushAndStart
  <2>1. started' \in BOOLEAN BY <1>5 DEF FlushAndStart
  <2>2. \/ mpc' = "register" /\ UNCHANGED spc
        \/ mpc' = "stop" /\ spc' = [spc EXCEPT !["main"] = "acquire"]
    BY <1>5 DEF FlushAndStart
  <2> QED BY <1>5, <2>1, <2>2 DEF FlushAndStart
<1>6. CASE RegisterHandler
  <2>1. registered' \in BOOLEAN /\ wrong' \subseteq Mishaps BY <1>6 DEF RegisterHandler
  <2> QED BY <1>6, <2>1 DEF RegisterHandler
<1> QED BY <1>1, <1>2, <1>3, <1>4, <1>5, <1>6 DEF StartStep

LEMMA TypeStop == ASSUME NEW t \in Threads PROVE TypeOK /\ StopStep(t) => TypeOK'
<1> SUFFICES ASSUME TypeOK, StopStep(t) PROVE TypeOK' OBVIOUS
<1> USE DEF TypeOK, windows, policyVars, EntryBecomes, RulesBecome, Goto, Raise, Report
<1>1. CASE EnterStop(t)
  <2>1. stopped' \in BOOLEAN /\ errors' \in BOOLEAN BY <1>1 DEF EnterStop
  <2> QED BY <1>1, <2>1 DEF EnterStop, MustWait
<1>2. CASE RemoveRules(t)
  <2>1. errors' \in BOOLEAN /\ wrong' \subseteq Mishaps BY <1>2 DEF RemoveRules
  <2>2. /\ rules' \subseteq 1..MaxRuns /\ UNCHANGED <<doh, userDoh, missed>>
        /\ ruleNames' \subseteq 1..MaxRuns
    BY <1>2 DEF RemoveRules
  <2>3. \/ spc' = [spc EXCEPT ![t] = "restore"] /\ UNCHANGED lock
        \/ spc' = [spc EXCEPT ![t] = "raised"] /\ lock' = Nobody
    BY <1>2 DEF RemoveRules
  <2>4. spc[t] = "remove" /\ UNCHANGED <<present, original, started, stopped>>
                          /\ UNCHANGED <<mpc, registered, report, runs>>
    BY <1>2 DEF RemoveRules
  <2> QED BY <2>1, <2>2, <2>3, <2>4
<1>3. CASE RestoreDoh(t)
  <2>1. errors' \in BOOLEAN /\ wrong' \subseteq Mishaps BY <1>3 DEF RestoreDoh
  <2>2. doh' \in Entries /\ UNCHANGED <<rules, userDoh, missed>> BY <1>3 DEF RestoreDoh, Restored
  <2>3. \/ spc' = [spc EXCEPT ![t] = "flush"] /\ UNCHANGED lock
        \/ spc' = [spc EXCEPT ![t] = "raised"] /\ lock' = Nobody
    BY <1>3 DEF RestoreDoh
  <2>4. spc[t] = "restore" /\ UNCHANGED <<ruleNames, present, original, started, stopped>>
                           /\ UNCHANGED <<mpc, registered, report, runs>>
    BY <1>3 DEF RestoreDoh
  <2> QED BY <2>1, <2>2, <2>3, <2>4
<1>4. CASE Flush(t)
  <2>1. errors' \in BOOLEAN /\ wrong' \subseteq Mishaps BY <1>4 DEF Flush
  <2> QED BY <1>4, <2>1 DEF Flush
<1>5. CASE FinishStop(t)
  <2>1. started' \in BOOLEAN BY <1>5 DEF FinishStop
  <2> QED BY <1>5, <2>1 DEF FinishStop, Released
<1> QED BY <1>1, <1>2, <1>3, <1>4, <1>5 DEF StopStep

\* The steps that end a session or the process.
LEMMA TypeOthers ==
    TypeOK /\ (LeaveRun \/ Exit \/ ConsoleCloses \/ Environment) => TypeOK'
<1> SUFFICES ASSUME TypeOK, LeaveRun \/ Exit \/ ConsoleCloses \/ Environment
             PROVE TypeOK' OBVIOUS
<1> USE DEF TypeOK, windows, policyVars, Goto
<1>1. CASE LeaveRun
  <2>1. registered' \in BOOLEAN BY <1>1 DEF LeaveRun
  <2> QED BY <1>1, <2>1 DEF LeaveRun
<1>2. CASE Exit
  <2>1. wrong' \subseteq Mishaps BY <1>2 DEF Exit, CutShort
  <2> QED BY <1>2, <2>1, FreshFields DEF Exit, FreshProcess
<1>3. CASE ConsoleCloses
  <2>1. wrong' \subseteq Mishaps BY <1>3 DEF ConsoleCloses, CutShort
  <2> QED BY <1>3, <2>1, FreshFields DEF ConsoleCloses, FreshProcess
<1>4. CASE Launch BY <1>4, FreshFields DEF Launch, FreshProcess
<1>5. CASE EndSession
  <2>1. mpc = "run" /\ mpc' = "stop" /\ spc' = [spc EXCEPT !["main"] = "acquire"]
    BY <1>5 DEF EndSession
  <2>2. UNCHANGED <<windows, policyVars, registered, report, runs, wrong>> BY <1>5 DEF EndSession
  <2> QED BY <2>1, <2>2
<1>6. CASE CloseConsole BY <1>6 DEF CloseConsole
<1>7. CASE Crash BY <1>7, FreshFields DEF Crash, FreshProcess
<1>8. CASE InterruptStart BY <1>8 DEF InterruptStart
<1>9. CASE InterruptStop
  <2>1. wrong' \subseteq Mishaps BY <1>9 DEF InterruptStop
  <2> QED BY <1>9, <2>1 DEF InterruptStop
<1> QED BY <1>1, <1>2, <1>3, <1>4, <1>5, <1>6, <1>7, <1>8, <1>9 DEF Environment

LEMMA TypeStep == TypeOK /\ [Next]_vars => TypeOK'
<1> SUFFICES ASSUME TypeOK, [Next]_vars PROVE TypeOK' OBVIOUS
<1>1. CASE UNCHANGED vars BY <1>1 DEF TypeOK, vars, windows, policyVars
<1> QED BY <1>1, TypeStart, TypeStop, TypeOthers
    DEF Next, Rest, MainStep, HandlerStep

\* Every variable keeps its type, and _stop_lock is held by exactly the thread
\* inside the body of stop().
THEOREM TypeCorrect == Spec => []TypeOK
BY TypeInit, TypeStep, PTL DEF Spec

-----------------------------------------------------------------------------
(* The close handler never returns while the main thread is cleaning up.   *)
(* stop() returns at once when the flag is set, and the flag is set before *)
(* the cleanup begins; what saves the early return is that the flag is     *)
(* read under the lock the cleanup holds.  And the flag never falls again, *)
(* so no thread enters the body after another has returned.                *)

Begun == \A t \in Threads : spc[t] \in StopBody \cup {"returned"} => stopped
Over == \A t \in Threads : spc[t] = "returned" => \A u \in Threads : spc[u] \notin StopBody
CloseInv == Begun /\ Over

LEMMA CloseInit == Init => CloseInv
BY DEF Init, CloseInv, Begun, Over

LEMMA CloseStop ==
    ASSUME NEW t \in Threads PROVE TypeOK /\ CloseInv /\ StopStep(t) => CloseInv'
<1> SUFFICES ASSUME TypeOK, CloseInv, StopStep(t) PROVE CloseInv' OBVIOUS
<1>1. spc \in [Threads -> StopBody \cup {"idle", "acquire", "returned", "raised"}]
  BY DEF TypeOK
<1>2. \A u \in Threads : lock = u <=> spc[u] \in StopBody BY DEF TypeOK
<1>3. CASE EnterStop(t)
  <2>1. lock = Nobody /\ spc[t] = "acquire" BY <1>3 DEF EnterStop, MustWait
  <2>2. \A u \in Threads : spc[u] \notin StopBody BY <1>2, <2>1
  <2>3. CASE stopped
    <3>1. UNCHANGED stopped /\ spc' = [spc EXCEPT ![t] = "returned"]
      BY <1>3, <2>3 DEF EnterStop, Goto
    <3> QED BY <1>1, <2>2, <2>3, <3>1 DEF CloseInv, Begun, Over
  <2>4. CASE ~stopped
    <3>1. stopped' = TRUE /\ spc' = [spc EXCEPT ![t] = "remove"]
      BY <1>3, <2>4 DEF EnterStop, Goto
    <3>2. \A u \in Threads : spc[u] # "returned" BY <2>4 DEF CloseInv, Begun
    <3> QED BY <1>1, <3>1, <3>2 DEF CloseInv, Begun, Over
  <2> QED BY <2>3, <2>4
<1>4. CASE ~EnterStop(t)
  <2>1. PICK step \in StopBody \cup {"returned", "raised"} :
          spc[t] \in StopBody /\ spc' = [spc EXCEPT ![t] = step] /\ UNCHANGED stopped
    BY <1>4 DEF StopStep, RemoveRules, RestoreDoh, Flush, FinishStop, Goto, Raise
  <2>2. stopped BY <2>1 DEF CloseInv, Begun
  <2>3. \A u \in Threads : spc[u] # "returned" BY <2>1 DEF CloseInv, Over
  <2>4. \A u \in Threads : u # t => spc[u] \notin StopBody BY <1>2, <2>1
  <2> QED BY <1>1, <2>1, <2>2, <2>3, <2>4 DEF CloseInv, Begun, Over
<1> QED BY <1>3, <1>4

LEMMA CloseStep == TypeOK /\ CloseInv /\ [Next]_vars => CloseInv'
<1> SUFFICES ASSUME TypeOK, CloseInv, [Next]_vars PROVE CloseInv' OBVIOUS
<1>1. spc \in [Threads -> StopBody \cup {"idle", "acquire", "returned", "raised"}]
  BY DEF TypeOK
<1>2. CASE UNCHANGED <<spc, stopped>> BY <1>2 DEF CloseInv, Begun, Over
<1>3. CASE FreshProcess BY <1>3 DEF CloseInv, Begun, Over, FreshProcess
<1>4. ASSUME NEW t \in Threads, NEW step \in {"acquire", "raised"},
             spc' = [spc EXCEPT ![t] = step], UNCHANGED stopped
      PROVE  CloseInv'
  BY <1>1, <1>4 DEF CloseInv, Begun, Over
<1>5. ASSUME NEW t \in Threads, StopStep(t) PROVE CloseInv' BY <1>5, CloseStop
<1>6. CASE StartStep
  <2>1. UNCHANGED stopped
    BY <1>6 DEF StartStep, SnapshotDoh, CleanupStaleRules, ConfigureDoh, AddRule,
                FlushAndStart, RegisterHandler, policyVars
  <2>2. UNCHANGED spc \/ spc' = [spc EXCEPT !["main"] = "acquire"]
    BY <1>6 DEF StartStep, SnapshotDoh, CleanupStaleRules, ConfigureDoh, AddRule,
                FlushAndStart, RegisterHandler, StartFails
  <2> QED BY <1>2, <1>4, <2>1, <2>2
<1>7. CASE LeaveRun BY <1>2, <1>7 DEF LeaveRun, policyVars
<1>8. CASE Exit \/ ConsoleCloses BY <1>3, <1>8 DEF Exit, ConsoleCloses
<1>9. CASE Environment
  <2>1. CASE Launch \/ Crash BY <1>3, <2>1 DEF Launch, Crash
  <2>2. CASE EndSession BY <1>4, <2>2 DEF EndSession, policyVars
  <2>3. CASE CloseConsole BY <1>4, <2>3 DEF CloseConsole, Goto, policyVars
  <2>4. CASE InterruptStart BY <1>2, <2>4 DEF InterruptStart, policyVars
  <2>5. CASE InterruptStop BY <1>4, <2>5 DEF InterruptStop, Goto
  <2> QED BY <1>9, <2>1, <2>2, <2>3, <2>4, <2>5 DEF Environment
<1>10. CASE UNCHANGED vars BY <1>2, <1>10 DEF vars, policyVars
<1> QED BY <1>5, <1>6, <1>7, <1>8, <1>9, <1>10 DEF Next, Rest, MainStep, HandlerStep

\* Once stop() has returned on the handler's thread, no thread is inside the
\* cleanup: Windows may end the process.
THEOREM CloseSafe == Spec => []CloseWaitsForCleanup
<1>1. CloseInv => CloseWaitsForCleanup BY DEF CloseInv, Over, CloseWaitsForCleanup, CutShort
<1> QED BY <1>1, TypeInit, TypeStep, CloseInit, CloseStep, PTL DEF Spec

-----------------------------------------------------------------------------
(* The user's DoH entry survives.  stop() takes an entry away only if the  *)
(* snapshot saw none, so the snapshot must come before any stop(), and     *)
(* must still stand when a thread restores from it.  Once a snapshot has   *)
(* missed an entry, the next stop() takes it away: nothing is claimed then.*)

Taken == \/ mpc \in {"stale", "configure", "add", "flush", "register", "run", "stop"}
         \/ registered
         \/ \E t \in Threads : spc[t] # "idle"

UserInv == userDoh = "user" /\ ~missed =>
    doh # "absent" /\ (Taken => present /\ original # "absent")

LEMMA UserInit == Init => UserInv
BY DEF Init, UserInv, Taken

LEMMA UserStep == TypeOK /\ UserInv /\ [Next]_vars => UserInv'
<1> SUFFICES ASSUME TypeOK, UserInv, [Next]_vars, userDoh' = "user", ~missed'
             PROVE  doh' # "absent" /\ (Taken' => present' /\ original' # "absent")
  BY DEF UserInv
<1> USE DEF UserInv, Taken
<1>1. userDoh = "user" /\ ~missed
  BY Remaining DEF Next, Rest, MainStep, HandlerStep, Environment, StartStep, StopStep, SnapshotDoh,
     TypeOK, ConfigureDoh, AddRule, FlushAndStart, RegisterHandler, EnterStop,
     RemoveRules, RestoreDoh, Flush, FinishStop, LeaveRun, Exit, Launch, EndSession,
     CloseConsole, ConsoleCloses, Crash, InterruptStart, InterruptStop, EntryBecomes,
     RulesBecome, windows, vars
<1>2. doh # "absent" BY <1>1
<1>3. CASE Taken /\ UNCHANGED <<doh, present, original>> BY <1>1, <1>3
<1>4. CASE FreshProcess /\ UNCHANGED doh /\ mpc' \in {"off", "snapshot"}
  BY <1>2, <1>4 DEF FreshProcess
<1>5. CASE SnapshotDoh
  <2>1. /\ mpc = "snapshot" /\ UNCHANGED <<doh, registered, spc>>
        /\ \/ mpc' = "stale" /\ present' = (doh # "absent") /\ original' = doh
           \/ mpc' = "exit" /\ UNCHANGED <<present, original>>
    BY <1>5 DEF SnapshotDoh
  <2>2. CASE Taken BY <1>1, <1>2, <2>1, <2>2
  <2>3. CASE ~Taken BY <1>2, <2>1, <2>3
  <2> QED BY <2>2, <2>3
<1>6. CASE CleanupStaleRules
  BY <1>3, <1>6, Remaining DEF CleanupStaleRules, policyVars
<1>7. CASE ConfigureDoh
  BY <1>1, <1>7 DEF ConfigureDoh, EntryBecomes, windows, policyVars
<1>8. CASE AddRule BY <1>3, <1>8 DEF AddRule, RulesBecome, windows
<1>9. CASE FlushAndStart BY <1>3, <1>9 DEF FlushAndStart, windows
<1>10. CASE RegisterHandler BY <1>3, <1>10 DEF RegisterHandler, windows, policyVars
<1>11. ASSUME NEW t \in Threads, StopStep(t)
       PROVE  doh' # "absent" /\ (Taken' => present' /\ original' # "absent")
  <2>1. spc[t] # "idle"
    BY <1>11 DEF StopStep, EnterStop, RemoveRules, RestoreDoh, Flush, FinishStop
  <2>2. present /\ original # "absent" BY <1>1, <2>1
  <2>3. UNCHANGED <<present, original>>
    BY <1>11 DEF StopStep, EnterStop, RemoveRules, RestoreDoh, Flush, FinishStop
  <2>4. doh' \in {doh, original}
    BY <1>11, <2>2 DEF StopStep, EnterStop, RemoveRules, RestoreDoh, Flush, FinishStop,
                       EntryBecomes, RulesBecome, Restored, windows
  <2> QED BY <1>2, <2>2, <2>3, <2>4
<1>12. CASE LeaveRun BY <1>3, <1>12 DEF LeaveRun, windows, policyVars
<1>13. CASE Exit \/ ConsoleCloses BY <1>4, <1>13 DEF Exit, ConsoleCloses, windows
<1>14. CASE Environment
  <2>1. CASE Launch \/ Crash BY <1>4, <2>1 DEF Launch, Crash, windows
  <2>2. CASE EndSession BY <1>3, <2>2 DEF EndSession, windows, policyVars
  <2>3. CASE CloseConsole BY <1>3, <2>3 DEF CloseConsole, windows, policyVars
  <2>4. CASE InterruptStart
    BY <1>1, <1>2, <2>4 DEF InterruptStart, windows, policyVars
  <2>5. CASE InterruptStop BY <1>3, <2>5 DEF InterruptStop, windows
  <2> QED BY <1>14, <2>1, <2>2, <2>3, <2>4, <2>5 DEF Environment
<1>15. CASE UNCHANGED vars BY <1>1, <1>15 DEF vars, windows, policyVars
<1> QED BY <1>5, <1>6, <1>7, <1>8, <1>9, <1>10, <1>11, <1>12, <1>13, <1>14, <1>15
        DEF Next, Rest, MainStep, HandlerStep, StartStep

\* A DoH entry the user has is never taken away, with any faults and over any number
\* of runs, as long as no snapshot took an entry for absent.
THEOREM UserEntrySafe == Spec => []UserEntryKept
<1>1. UserInv => UserEntryKept BY DEF UserInv, UserEntryKept
<1> QED BY <1>1, TypeInit, TypeStep, UserInit, UserStep, PTL DEF Spec

-----------------------------------------------------------------------------
(* The rule in force.  Until the session runs, the main thread is alone:   *)
(* the handler cannot stop what is not yet registered.                     *)

StartInv ==
    /\ mpc = "off" => ~registered /\ ~started /\ ~stopped /\ \A t \in Threads : spc[t] = "idle"
    /\ mpc \in StartSteps =>
         ~registered /\ ~stopped /\ spc["handler"] = "idle" /\ report = "none"
    /\ mpc \in StartSteps \ {"register"} => ~started
    /\ mpc = "exit" => ~registered /\ spc["main"] \in {"idle", "returned", "raised"}
    /\ \A t \in Threads : spc[t] = "raised" => "failed" \in wrong
    /\ mpc \in {"snapshot", "stale", "configure", "add"} => ruleNames = {}
    /\ mpc \in {"configure", "add"} /\ "kept" \notin wrong => rules = {}
    /\ mpc \in {"flush", "register", "run"} /\ ~stopped =>
         ruleNames = {runs} /\ runs \in rules /\ ("kept" \notin wrong => rules = {runs})

LEMMA StartInit == Init => StartInv
BY DEF Init, StartInv

LEMMA StartStart == TypeOK /\ StartInv /\ StartStep => StartInv'
<1> SUFFICES ASSUME TypeOK, StartInv, StartStep PROVE StartInv' OBVIOUS
<1> USE DEF StartInv, windows, policyVars, EntryBecomes, RulesBecome
<1>0. spc["main"] = "idle" /\ spc["handler"] = "idle"
      /\ spc \in [Threads -> StopBody \cup {"idle", "acquire", "returned", "raised"}]
  BY DEF TypeOK, StartStep, SnapshotDoh, CleanupStaleRules, ConfigureDoh, AddRule, FlushAndStart,
         RegisterHandler
<1>1. CASE SnapshotDoh
  <2>1. /\ mpc = "snapshot" /\ mpc' \in {"stale", "exit"} /\ wrong \subseteq wrong'
        /\ UNCHANGED <<ruleNames, started, stopped, spc, registered, report>>
    BY <1>1 DEF SnapshotDoh
  <2> QED BY <1>0, <2>1
<1>2. CASE CleanupStaleRules
  <2>1. /\ mpc = "stale" /\ mpc' \in {"configure", "exit"} /\ wrong \subseteq wrong'
        /\ UNCHANGED <<policyVars, spc, registered, report>>
    BY <1>2 DEF CleanupStaleRules
  <2>2. mpc' = "configure" /\ "kept" \notin wrong' => rules' = {}
    BY <1>2 DEF CleanupStaleRules, Stale
  <2> QED BY <1>0, <2>1, <2>2
<1>3. CASE ConfigureDoh
  <2>1. /\ mpc = "configure" /\ UNCHANGED <<rules, policyVars, registered, report, runs, wrong>>
        /\ \/ mpc' = "add" /\ UNCHANGED spc
           \/ mpc' = "stop" /\ spc' = [spc EXCEPT !["main"] = "acquire"]
    BY <1>3 DEF ConfigureDoh, StartFails
  <2> QED BY <1>0, <2>1
<1>4. CASE AddRule
  <2>1. /\ mpc = "add" /\ UNCHANGED <<started, stopped, registered, report, runs>>
        /\ wrong \subseteq wrong'
        /\ \/ mpc' = "flush" /\ UNCHANGED spc /\ ruleNames' = {runs} /\ rules' = rules \cup {runs}
           \/ mpc' = "stop" /\ spc' = [spc EXCEPT !["main"] = "acquire"]
    BY <1>4 DEF AddRule, StartFails
  <2> QED BY <1>0, <2>1
<1>5. CASE FlushAndStart
  <2>1. /\ mpc = "flush" /\ UNCHANGED <<rules, ruleNames, stopped, registered, report, runs, wrong>>
        /\ \/ mpc' = "register" /\ UNCHANGED spc
           \/ mpc' = "stop" /\ spc' = [spc EXCEPT !["main"] = "acquire"]
    BY <1>5 DEF FlushAndStart, StartFails
  <2> QED BY <1>0, <2>1
<1>6. CASE RegisterHandler
  <2>1. /\ mpc = "register" /\ UNCHANGED <<rules, policyVars, spc, report, runs>>
        /\ wrong \subseteq wrong' /\ (mpc' = "run" \/ (mpc' = "exit" /\ UNCHANGED registered))
    BY <1>6 DEF RegisterHandler
  <2> QED BY <1>0, <2>1
<1> QED BY <1>1, <1>2, <1>3, <1>4, <1>5, <1>6 DEF StartStep

\* A thread of stop() finds the session running or over.
LEMMA StartStop ==
    ASSUME NEW t \in Threads
    PROVE  TypeOK /\ CloseInv /\ StartInv /\ StopStep(t) => StartInv'
<1> SUFFICES ASSUME TypeOK, CloseInv, StartInv, StopStep(t) PROVE StartInv' OBVIOUS
<1>1. spc \in [Threads -> StopBody \cup {"idle", "acquire", "returned", "raised"}]
  BY DEF TypeOK
<1>2. /\ spc[t] \in StopBody \cup {"acquire"} /\ UNCHANGED <<mpc, registered, runs>>
      /\ wrong \subseteq wrong' /\ (stopped => stopped') /\ (started' => started)
  BY DEF StopStep, EnterStop, RemoveRules, RestoreDoh, Flush, FinishStop, Raise
<1>3. mpc \notin StartSteps \cup {"off"}
  <2>1. mpc \in StartSteps => spc["main"] = "idle" /\ spc["handler"] = "idle"
    BY DEF TypeOK, StartInv
  <2> QED BY <1>2, <2>1 DEF StartInv
<1>4. PICK step \in StopBody \cup {"returned", "raised"} :
        spc' = [spc EXCEPT ![t] = step] /\ (step = "raised" => "failed" \in wrong')
  BY DEF StopStep, EnterStop, RemoveRules, RestoreDoh, Flush, FinishStop, Raise, Goto
<1>5. mpc = "exit" => spc'["main"] \in {"idle", "returned", "raised"}
  <2>1. mpc = "exit" => t # "main" BY <1>2 DEF StartInv
  <2> QED BY <1>1, <1>4, <2>1 DEF StartInv
<1>6. mpc = "run" /\ ~stopped' => UNCHANGED <<rules, ruleNames>>
  <2>1. spc[t] \in StopBody => stopped BY DEF CloseInv, Begun
  <2> QED BY <1>2, <2>1 DEF StopStep, EnterStop, RemoveRules, RestoreDoh, Flush, FinishStop, windows
<1> QED BY <1>1, <1>2, <1>3, <1>4, <1>5, <1>6 DEF StartInv

LEMMA StartOthers ==
    TypeOK /\ StartInv /\ (LeaveRun \/ Exit \/ ConsoleCloses \/ Environment) => StartInv'
<1> SUFFICES ASSUME TypeOK, StartInv, LeaveRun \/ Exit \/ ConsoleCloses \/ Environment
             PROVE  StartInv'
  OBVIOUS
<1> USE DEF StartInv, windows, policyVars
<1>0. spc \in [Threads -> StopBody \cup {"idle", "acquire", "returned", "raised"}]
  BY DEF TypeOK
<1>1. CASE LeaveRun BY <1>1 DEF LeaveRun
<1>2. CASE Exit \/ ConsoleCloses \/ Launch \/ Crash
  <2>1. FreshProcess /\ (mpc' = "off" \/ (mpc' = "snapshot" /\ report' = "none"))
    BY <1>2 DEF Exit, ConsoleCloses, Launch, Crash
  <2> QED BY <2>1 DEF FreshProcess
<1>3. CASE EndSession
  <2>1. mpc = "run" /\ mpc' = "stop" /\ spc' = [spc EXCEPT !["main"] = "acquire"]
        /\ UNCHANGED wrong
    BY <1>3 DEF EndSession
  <2> QED BY <1>0, <2>1
<1>4. CASE CloseConsole
  <2>1. registered /\ spc' = [spc EXCEPT !["handler"] = "acquire"]
        /\ UNCHANGED <<windows, policyVars, mpc, registered, report, runs, wrong>>
    BY <1>4 DEF CloseConsole, Goto
  <2> QED BY <1>0, <2>1
<1>5. CASE InterruptStart
  <2>1. mpc \in StartSteps /\ mpc' = "exit" /\ wrong \subseteq wrong' /\ UNCHANGED <<spc, registered>>
    BY <1>5 DEF InterruptStart
  <2>2. spc["main"] = "idle" BY <2>1 DEF TypeOK
  <2> QED BY <2>1, <2>2
<1>6. CASE InterruptStop
  <2>1. mpc = "stop" /\ UNCHANGED mpc /\ wrong' = wrong \cup {"failed"} BY <1>6 DEF InterruptStop
  <2> QED BY <2>1
<1> QED BY <1>1, <1>2, <1>3, <1>4, <1>5, <1>6 DEF Environment

LEMMA StartStays == TypeOK /\ CloseInv /\ StartInv /\ [Next]_vars => StartInv'
<1> SUFFICES ASSUME TypeOK, CloseInv, StartInv, [Next]_vars PROVE StartInv' OBVIOUS
<1>1. CASE UNCHANGED vars BY <1>1 DEF StartInv, vars, windows, policyVars
<1> QED BY <1>1, StartStart, StartStop, StartOthers DEF Next, Rest, MainStep, HandlerStep

\* While the policy is in force, this run's rule routes Discord's names, alone unless
\* the removal of a stale one failed unheard.
THEOREM RuleAlone == Spec => []OneRuleInForce
<1>1. StartInv => OneRuleInForce BY DEF StartInv, OneRuleInForce
<1> QED BY <1>1, TypeInit, TypeStep, CloseInit, CloseStep, StartInit, StartStays, PTL DEF Spec

-----------------------------------------------------------------------------
(* The clean-up.  stop() works with the rule names and the snapshot it     *)
(* finds, so a thread about to enter it must find the whole of them; and   *)
(* each step of its body leaves what the next one counts on, unless a      *)
(* command failed, which then is on record (errors, or the run's history). *)
(* All this is about a run that began with Windows as the user left it and *)
(* whose snapshot saw what was there; BlindInv is about one whose snapshot *)
(* did not: adding an entry that exists fails, so it never gets started.   *)

SnapOK == present = (userDoh # "absent") /\ original = userDoh

\* What a thread has got done when it stands at its step of the body.
Stage(t) ==
    /\ spc[t] = "remove" => rules = ruleNames
    /\ spc[t] = "restore" => rules = {}
    /\ spc[t] \in {"flush", "finish"} => AsBefore

\* Has every command of stop() succeeded so far, as far as its caller is told?
NoFailure == (started /\ ~errors) \/ "failed" \notin wrong

CleanInv == "dirty" \notin wrong /\ "missed" \notin wrong =>
    /\ "kept" \notin wrong
    /\ mpc \in {"snapshot", "stale"} => AsBefore
    /\ Taken => SnapOK
    /\ started /\ ~stopped => rules = ruleNames
    /\ mpc = "stop" /\ ~stopped /\ "failed" \notin wrong => rules = ruleNames
    /\ mpc = "exit" /\ ~stopped /\ "failed" \notin wrong => spc["handler"] = "idle"
    /\ NoFailure => \A t \in Threads : Stage(t)
    /\ report = "restored" => AsBefore /\ (mpc # "off" => stopped /\ ~CutShort)
    /\ wrong = {} => /\ mpc = "off" => AsBefore
                     /\ mpc = "exit" /\ ~stopped => AsBefore
                     /\ stopped /\ ~CutShort => AsBefore

\* Of no rules, none can stay.
LEMMA NoneStay == ASSUME rules = {} PROVE ~SomeStay
<1>1. ASSUME NEW kept \in SUBSET rules PROVE kept = {}
  <2>1. \A x : x \notin kept BY Zenon
  <2> QED BY <2>1, Zenon
<1> QED BY <1>1 DEF SomeStay, Stale

LEMMA CleanInit == Init => CleanInv
BY DEF Init, CleanInv, Taken, Stage, AsBefore, SnapOK, CutShort

\* start(): nobody is inside stop() yet.
LEMMA CleanStart == TypeOK /\ StartInv /\ CleanInv /\ StartStep => CleanInv'
<1> SUFFICES ASSUME TypeOK, StartInv, CleanInv, StartStep, "dirty" \notin wrong', "missed" \notin wrong'
             PROVE  CleanInv'
  BY DEF CleanInv
<1> USE DEF windows, policyVars, EntryBecomes, RulesBecome, AsBefore, Taken, SnapOK, StartFails
<1>0. /\ spc["main"] = "idle" /\ spc["handler"] = "idle" /\ ~registered /\ ~stopped
      /\ report = "none"
      /\ spc \in [Threads -> StopBody \cup {"idle", "acquire", "returned", "raised"}]
      /\ mpc \in StartSteps
  BY DEF TypeOK, StartInv, StartStep, SnapshotDoh, CleanupStaleRules, ConfigureDoh, AddRule,
         FlushAndStart, RegisterHandler
<1>1. /\ "dirty" \notin wrong /\ "missed" \notin wrong /\ wrong \subseteq wrong'
      /\ UNCHANGED <<stopped, report, userDoh>>
      /\ spc' = spc \/ spc' = [spc EXCEPT !["main"] = "acquire"]
  <2>1. wrong \subseteq wrong' /\ UNCHANGED <<stopped, report, userDoh>>
    BY Remaining DEF StartStep, SnapshotDoh, CleanupStaleRules, ConfigureDoh, AddRule, FlushAndStart,
           RegisterHandler
  <2>2. spc' = spc \/ spc' = [spc EXCEPT !["main"] = "acquire"]
    BY DEF StartStep, SnapshotDoh, CleanupStaleRules, ConfigureDoh, AddRule, FlushAndStart,
           RegisterHandler
  <2> QED BY <2>1, <2>2
<1>2. \A t \in Threads : spc'[t] \in {"idle", "acquire"} BY <1>0, <1>1
<1>3. ~CutShort' /\ \A t \in Threads : Stage(t)' BY <1>2 DEF CutShort, Stage
<1>4. SUFFICES /\ "kept" \notin wrong'
               /\ mpc' \in {"snapshot", "stale"} => AsBefore'
               /\ Taken' => SnapOK'
               /\ started' => rules' = ruleNames'
               /\ mpc' = "stop" /\ "failed" \notin wrong' => rules' = ruleNames'
               /\ mpc' = "exit" => spc'["handler"] = "idle"
               /\ wrong' = {} /\ mpc' = "exit" => AsBefore'
               /\ mpc' # "off"
  BY <1>0, <1>1, <1>3 DEF CleanInv
<1>5. spc'["handler"] = "idle" /\ "kept" \notin wrong BY <1>0, <1>1 DEF CleanInv
<1>6. CASE SnapshotDoh
  <2>1. AsBefore /\ UNCHANGED <<rules, doh, userDoh, wrong>>
    BY <1>1, <1>6 DEF SnapshotDoh, CleanInv
  <2>2. mpc = "snapshot" /\ UNCHANGED <<started, ruleNames, registered, spc>> BY <1>6 DEF SnapshotDoh
  <2>3. ~started BY <2>2 DEF StartInv
  <2>4. \/ mpc' = "stale" /\ present' = (doh # "absent") /\ original' = doh
        \/ mpc' = "exit"
    BY <1>6 DEF SnapshotDoh
  <2>5. Taken' => mpc' = "stale" BY <1>0, <2>2, <2>4
  <2> QED BY <1>5, <2>1, <2>2, <2>3, <2>4, <2>5
<1>7. CASE CleanupStaleRules
  <2>1. mpc = "stale" /\ mpc' \in {"configure", "exit"}
        /\ UNCHANGED <<doh, policyVars, registered, spc>> /\ rules' \subseteq rules
    BY <1>7, Remaining DEF CleanupStaleRules
  <2>2. AsBefore /\ SnapOK BY <1>1, <2>1 DEF CleanInv
  <2>3. ~started BY <2>1 DEF StartInv
  <2>4. ~SomeStay BY <2>2, NoneStay
  <2>5. UNCHANGED wrong BY <1>7, <2>4 DEF CleanupStaleRules
  <2> QED BY <1>1, <1>5, <2>1, <2>2, <2>3, <2>5
<1>8. CASE ConfigureDoh
  <2>1. mpc = "configure" /\ mpc' \in {"add", "stop"} /\ UNCHANGED <<rules, policyVars, wrong>>
    BY <1>8 DEF ConfigureDoh
  <2>2. rules = {} /\ ruleNames = {} /\ ~started BY <1>5, <2>1 DEF StartInv
  <2>3. SnapOK BY <1>1, <2>1 DEF CleanInv
  <2> QED BY <1>1, <1>5, <2>1, <2>2, <2>3
<1>9. CASE AddRule
  <2>1. mpc = "add" /\ mpc' \in {"flush", "stop"} /\ UNCHANGED <<present, original, started>>
    BY <1>9 DEF AddRule
  <2>2. rules = {} /\ ruleNames = {} /\ ~started BY <1>5, <2>1 DEF StartInv
  <2>3. SnapOK BY <1>1, <2>1 DEF CleanInv
  <2>4. mpc' = "stop" /\ "failed" \notin wrong' => UNCHANGED <<rules, ruleNames>>
    BY <1>9 DEF AddRule
  <2>5. mpc' = "flush" => rules' = ruleNames' BY <1>9, <2>2 DEF AddRule
  <2>6. "kept" \notin wrong' BY <1>5, <1>9 DEF AddRule
  <2> QED BY <2>5, <2>6, <1>1, <1>5, <2>1, <2>2, <2>3, <2>4
<1>10. CASE FlushAndStart
  <2>1. mpc = "flush" /\ mpc' \in {"register", "stop"}
        /\ UNCHANGED <<rules, ruleNames, present, original, wrong>>
    BY <1>10 DEF FlushAndStart
  <2>2. rules = ruleNames BY <1>0, <1>5, <2>1 DEF StartInv
  <2>3. SnapOK BY <1>1, <2>1 DEF CleanInv
  <2> QED BY <1>1, <1>5, <2>1, <2>2, <2>3
<1>11. CASE RegisterHandler
  <2>1. /\ mpc = "register" /\ UNCHANGED <<rules, policyVars, spc>>
        /\ mpc' = "run" \/ (mpc' = "exit" /\ "left" \in wrong')
        /\ wrong' \subseteq wrong \cup {"left"}
    BY <1>11 DEF RegisterHandler
  <2>2. rules = ruleNames BY <1>0, <1>5, <2>1 DEF StartInv
  <2>3. SnapOK BY <1>1, <2>1 DEF CleanInv
  <2> QED BY <1>1, <1>5, <2>1, <2>2, <2>3
<1> QED BY <1>6, <1>7, <1>8, <1>9, <1>10, <1>11 DEF StartStep

\* stop(): the thread in the body is alone there, and no other can follow it.
LEMMA CleanStop ==
    ASSUME NEW t \in Threads
    PROVE  TypeOK /\ CloseInv /\ StartInv /\ CleanInv /\ StopStep(t) => CleanInv'
<1> SUFFICES ASSUME TypeOK, CloseInv, StartInv, CleanInv, StopStep(t), "dirty" \notin wrong', "missed" \notin wrong'
             PROVE  CleanInv'
  BY DEF CleanInv
<1> USE DEF windows, EntryBecomes, RulesBecome, AsBefore, SnapOK
<1>0. spc \in [Threads -> StopBody \cup {"idle", "acquire", "returned", "raised"}]
  BY DEF TypeOK
<1>1. /\ spc[t] \in StopBody \cup {"acquire"} /\ wrong \subseteq wrong'
      /\ wrong' \subseteq wrong \cup {"failed"}
      /\ UNCHANGED <<mpc, registered, userDoh, present, original>>
      /\ (stopped => stopped')
  BY DEF StopStep, EnterStop, RemoveRules, RestoreDoh, Flush, FinishStop, Raise
<1>2. "dirty" \notin wrong /\ "missed" \notin wrong /\ "kept" \notin wrong' /\ Taken /\ SnapOK
  BY <1>1 DEF CleanInv, Taken
<1>3. mpc \notin StartSteps \cup {"off"}
  <2>1. mpc \in StartSteps => spc["main"] = "idle" /\ spc["handler"] = "idle"
    BY DEF TypeOK, StartInv
  <2> QED BY <1>1, <2>1 DEF StartInv
<1>4. \A u \in Threads : u # t /\ spc[t] \in StopBody => spc[u] \notin StopBody
  BY DEF TypeOK
<1>5. CASE EnterStop(t) /\ stopped
  <2>1. /\ UNCHANGED <<windows, ruleNames, started, errors, report, wrong, stopped>>
        /\ spc' = [spc EXCEPT ![t] = "returned"] /\ spc[t] = "acquire"
    BY <1>5 DEF EnterStop, Goto
  <2>2. \A u \in Threads : Stage(u) => Stage(u)' BY <1>0, <2>1 DEF Stage
  <2>3. CutShort' <=> CutShort BY <1>0, <2>1 DEF CutShort
  <2> QED BY <1>1, <1>2, <1>3, <1>5, <2>1, <2>2, <2>3 DEF CleanInv, NoFailure
<1>6. CASE EnterStop(t) /\ ~stopped
  <2>1. /\ UNCHANGED <<windows, ruleNames, started, report, wrong>> /\ stopped' /\ ~errors'
        /\ spc' = [spc EXCEPT ![t] = "remove"] /\ spc[t] = "acquire" /\ lock = Nobody
    BY <1>6 DEF EnterStop, Goto, MustWait
  <2>2. CutShort' BY <1>0, <2>1 DEF CutShort
  <2>3. report # "restored" BY <1>2, <1>3, <1>6 DEF CleanInv
  <2>4. \A u \in Threads : u # t => spc'[u] \notin StopBody BY <1>0, <2>1 DEF TypeOK
  <2>5. started \/ "failed" \notin wrong => rules = ruleNames
    <3>1. mpc \in {"run", "stop", "exit"} BY <1>3 DEF TypeOK
    <3>2. mpc = "run" => rules = ruleNames BY <1>1, <1>2, <1>6 DEF StartInv
    <3>3. mpc = "exit" => t = "handler" BY <2>1 DEF StartInv
    <3> QED BY <1>2, <1>6, <2>1, <3>1, <3>2, <3>3 DEF CleanInv
  <2>6. NoFailure' => \A u \in Threads : Stage(u)'
    BY <1>0, <2>1, <2>4, <2>5 DEF NoFailure, Stage
  <2> QED BY <1>1, <1>2, <1>3, <2>1, <2>2, <2>3, <2>6 DEF CleanInv
<1>7. ASSUME spc[t] \in StopBody PROVE stopped /\ CutShort /\ report # "restored"
  <2>1. stopped /\ CutShort BY <1>7 DEF CloseInv, Begun, CutShort
  <2> QED BY <1>2, <1>3, <2>1 DEF CleanInv
<1>8. CASE spc[t] \in StopBody /\ \E step \in {"restore", "flush", "finish"} :
             /\ spc' = [spc EXCEPT ![t] = step] /\ UNCHANGED <<started, stopped, report>>
             /\ NoFailure' => NoFailure
             /\ Stage(t) /\ NoFailure' => Stage(t)'
  <2>1. CutShort' BY <1>0, <1>8 DEF CutShort
  <2>2. \A u \in Threads : u # t => spc'[u] \notin StopBody BY <1>0, <1>4, <1>8
  <2>3. NoFailure' => \A u \in Threads : Stage(u)' BY <1>2, <1>8, <2>2 DEF CleanInv, Stage
  <2> QED BY <1>1, <1>2, <1>3, <1>7, <1>8, <2>1, <2>3 DEF CleanInv
<1>9. CASE spc[t] \in StopBody /\ Raise(t) /\ UNCHANGED <<started, stopped, report>>
  <2>1. "failed" \in wrong' /\ spc' = [spc EXCEPT ![t] = "raised"] BY <1>9 DEF Raise, Goto
  <2>2. \A u \in Threads : spc'[u] \notin StopBody BY <1>0, <1>4, <1>9, <2>1
  <2> QED BY <1>1, <1>2, <1>3, <1>7, <1>9, <2>1, <2>2 DEF CleanInv, Stage
<1>10. CASE RemoveRules(t)
  <2>1. spc[t] = "remove" /\ UNCHANGED <<started, stopped, report>> BY <1>10 DEF RemoveRules
  <2>2. CASE /\ rules' = rules \ ruleNames /\ spc' = [spc EXCEPT ![t] = "restore"]
             /\ UNCHANGED <<errors, wrong>>
    <3>1. Stage(t) => Stage(t)' BY <1>0, <2>1, <2>2 DEF Stage
    <3>2. NoFailure' <=> NoFailure BY <2>1, <2>2 DEF NoFailure
    <3> QED BY <1>8, <2>1, <2>2, <3>1, <3>2
  <2>3. CASE errors' = TRUE /\ spc' = [spc EXCEPT ![t] = "restore"] /\ "failed" \in wrong'
    <3>1. ~NoFailure' BY <2>3 DEF NoFailure
    <3> QED BY <1>8, <2>1, <2>3, <3>1
  <2>4. CASE Raise(t) BY <1>9, <2>1, <2>4
  <2> QED BY <1>10, <2>2, <2>3, <2>4 DEF RemoveRules, Report, Goto
<1>11. CASE RestoreDoh(t)
  <2>1. spc[t] = "restore" /\ UNCHANGED <<started, stopped, report>> BY <1>11 DEF RestoreDoh
  <2>2. Restored = userDoh BY <1>2 DEF Restored, TypeOK
  <2>3. CASE /\ doh' = Restored /\ spc' = [spc EXCEPT ![t] = "flush"]
             /\ UNCHANGED <<rules, errors, wrong>>
    <3>1. Stage(t) => Stage(t)' BY <1>0, <1>1, <2>1, <2>2, <2>3 DEF Stage
    <3>2. NoFailure' <=> NoFailure BY <2>1, <2>3 DEF NoFailure
    <3> QED BY <1>8, <2>1, <2>3, <3>1, <3>2
  <2>4. CASE errors' = TRUE /\ spc' = [spc EXCEPT ![t] = "flush"] /\ "failed" \in wrong'
    <3>1. ~NoFailure' BY <2>4 DEF NoFailure
    <3> QED BY <1>8, <2>1, <2>4, <3>1
  <2>5. CASE Raise(t) BY <1>9, <2>1, <2>5
  <2> QED BY <1>11, <2>3, <2>4, <2>5 DEF RestoreDoh, Report, Goto
<1>12. CASE Flush(t)
  <2>1. spc[t] = "flush" /\ UNCHANGED <<started, stopped, report, windows>> BY <1>12 DEF Flush
  <2>2. CASE spc' = [spc EXCEPT ![t] = "finish"] /\ UNCHANGED <<errors, wrong>>
    <3>1. Stage(t) => Stage(t)' BY <1>0, <2>1, <2>2 DEF Stage
    <3>2. NoFailure' <=> NoFailure BY <2>1, <2>2 DEF NoFailure
    <3> QED BY <1>8, <2>1, <2>2, <3>1, <3>2
  <2>3. CASE errors' = TRUE /\ spc' = [spc EXCEPT ![t] = "finish"] /\ "failed" \in wrong'
    <3>1. ~NoFailure' BY <2>3 DEF NoFailure
    <3> QED BY <1>8, <2>1, <2>3, <3>1
  <2>4. CASE Raise(t) BY <1>9, <2>1, <2>4
  <2> QED BY <1>12, <2>2, <2>3, <2>4 DEF Flush, Report, Goto
<1>13. CASE FinishStop(t)
  <2>1. /\ spc[t] = "finish" /\ spc' = [spc EXCEPT ![t] = "returned"]
        /\ started' = FALSE /\ UNCHANGED <<windows, ruleNames, stopped, errors, wrong>>
        /\ report' = IF ~started THEN report ELSE IF errors THEN "errors" ELSE "restored"
    BY <1>13 DEF FinishStop, Goto
  <2>2. \A u \in Threads : spc'[u] \notin StopBody BY <1>0, <1>4, <2>1
  <2>3. NoFailure => AsBefore BY <1>2, <2>1 DEF CleanInv, Stage
  <2>4. report' = "restored" => NoFailure BY <1>7, <2>1 DEF NoFailure
  <2>5. "failed" \notin wrong => NoFailure BY DEF NoFailure
  <2>6. ~CutShort' /\ \A u \in Threads : Stage(u)' BY <2>2 DEF CutShort, Stage
  <2>7. stopped' BY <1>7, <2>1
  <2>8. wrong' = {} => AsBefore' BY <2>1, <2>3, <2>5
  <2>9. report' = "restored" => AsBefore' BY <2>1, <2>3, <2>4
  <2> QED BY <1>1, <1>2, <1>3, <2>6, <2>7, <2>8, <2>9 DEF CleanInv
<1> QED BY <1>5, <1>6, <1>10, <1>11, <1>12, <1>13 DEF StopStep

\* The ends of a session, of run() and of the process.
LEMMA CleanOthers ==
    TypeOK /\ CloseInv /\ StartInv /\ CleanInv /\ (LeaveRun \/ Exit \/ ConsoleCloses \/ Environment)
        => CleanInv'
<1> SUFFICES ASSUME TypeOK, CloseInv, StartInv, CleanInv,
                    LeaveRun \/ Exit \/ ConsoleCloses \/ Environment, "dirty" \notin wrong', "missed" \notin wrong'
             PROVE  CleanInv'
  BY DEF CleanInv
<1> USE DEF windows, policyVars, AsBefore, SnapOK
<1>0. spc \in [Threads -> StopBody \cup {"idle", "acquire", "returned", "raised"}]
  BY DEF TypeOK
<1>1. ASSUME FreshProcess, UNCHANGED windows, mpc' = "off", "kept" \notin wrong',
             report' = "restored" => AsBefore, wrong' = {} => AsBefore
      PROVE  CleanInv'
  BY <1>1 DEF FreshProcess, CleanInv, Taken, Stage, CutShort
<1>2. CASE Launch
  <2>1. /\ FreshProcess /\ UNCHANGED windows /\ mpc' = "snapshot" /\ report' = "none"
        /\ AsBefore /\ wrong' = {}
    BY <1>2 DEF Launch
  <2> QED BY <2>1 DEF FreshProcess, CleanInv, Taken, Stage, CutShort
<1>3. CASE Crash
  <2>1. /\ FreshProcess /\ UNCHANGED <<windows, report>> /\ mpc' = "off" /\ wrong' = wrong \cup {"left"}
    BY <1>3 DEF Crash
  <2>2. "kept" \notin wrong' /\ (report' = "restored" => AsBefore) BY <2>1 DEF CleanInv
  <2> QED BY <1>1, <2>1, <2>2
<1>4. CASE Exit \/ ConsoleCloses
  <2>1. /\ FreshProcess /\ UNCHANGED <<windows, report>> /\ mpc' = "off" /\ wrong \subseteq wrong'
        /\ wrong' \subseteq wrong \cup {"failed"} /\ (wrong' = {} => ~CutShort)
        /\ mpc = "exit" \/ spc["handler"] \in {"returned", "raised"}
    BY <1>4 DEF Exit, ConsoleCloses
  <2>2. "kept" \notin wrong' /\ (report' = "restored" => AsBefore) BY <2>1 DEF CleanInv
  <2>3. ASSUME wrong' = {} PROVE AsBefore
    <3>1. wrong = {} /\ ~CutShort /\ spc["handler"] # "raised" BY <2>1, <2>3 DEF StartInv
    <3>2. mpc = "exit" \/ stopped BY <2>1, <3>1 DEF CloseInv, Begun
    <3> QED BY <3>1, <3>2 DEF CleanInv
  <2> QED BY <1>1, <2>1, <2>2, <2>3
<1>5. CASE LeaveRun
  <2>1. /\ mpc = "stop" /\ mpc' = "exit" /\ spc["main"] \in {"returned", "raised"}
        /\ UNCHANGED <<windows, policyVars, spc, report, wrong>>
    BY <1>5 DEF LeaveRun
  <2>2. spc["main"] = "returned" => stopped BY DEF CloseInv, Begun
  <2>3. spc["main"] = "raised" => "failed" \in wrong BY DEF StartInv
  <2>4. UNCHANGED <<NoFailure, CutShort>> /\ \A t \in Threads : Stage(t) => Stage(t)'
    BY <2>1 DEF NoFailure, CutShort, Stage
  <2>5. Taken BY <2>1 DEF Taken
  <2> QED BY <2>1, <2>2, <2>3, <2>4, <2>5 DEF CleanInv
<1>6. CASE EndSession
  <2>1. /\ mpc = "run" /\ mpc' = "stop" /\ spc' = [spc EXCEPT !["main"] = "acquire"]
        /\ UNCHANGED <<windows, policyVars, report, wrong>>
    BY <1>6 DEF EndSession
  <2>2. ~stopped => rules = ruleNames BY <2>1 DEF StartInv, CleanInv
  <2>3. spc["main"] = "idle" BY <2>1 DEF TypeOK
  <2>4. UNCHANGED <<NoFailure, CutShort>> /\ \A t \in Threads : Stage(t) => Stage(t)'
    BY <1>0, <2>1, <2>3 DEF NoFailure, CutShort, Stage
  <2>5. Taken BY <2>1 DEF Taken
  <2> QED BY <2>1, <2>2, <2>4, <2>5 DEF CleanInv
<1>7. CASE CloseConsole
  <2>1. /\ registered /\ spc["handler"] = "idle" /\ spc' = [spc EXCEPT !["handler"] = "acquire"]
        /\ UNCHANGED <<windows, policyVars, mpc, report, wrong>>
    BY <1>7 DEF CloseConsole, Goto
  <2>2. mpc \notin {"exit", "off"} /\ Taken BY <2>1 DEF StartInv, Taken
  <2>3. UNCHANGED <<NoFailure, CutShort>> /\ \A t \in Threads : Stage(t) => Stage(t)'
    BY <1>0, <2>1 DEF NoFailure, CutShort, Stage
  <2> QED BY <2>1, <2>2, <2>3 DEF CleanInv
<1>8. CASE InterruptStart
  <2>1. /\ mpc \in StartSteps /\ mpc' = "exit" /\ "left" \in wrong'
        /\ wrong' = wrong \cup {"left"}
        /\ UNCHANGED <<windows, policyVars, spc, registered, report>>
    BY <1>8 DEF InterruptStart
  <2>2. spc["main"] = "idle" /\ spc["handler"] = "idle" /\ ~registered /\ report = "none"
    BY <2>1 DEF TypeOK, StartInv
  <2>3. ~Taken' BY <2>1, <2>2 DEF Taken
  <2>4. \A t \in Threads : Stage(t)' BY <2>1, <2>2 DEF Stage
  <2> QED BY <1>8, <2>1, <2>2, <2>3, <2>4 DEF CleanInv, InterruptStart
<1>9. CASE InterruptStop
  <2>1. /\ mpc = "stop" /\ spc["main"] \in StopBody \cup {"acquire"}
        /\ spc' = [spc EXCEPT !["main"] = "raised"] /\ wrong' = wrong \cup {"failed"}
        /\ UNCHANGED <<windows, ruleNames, present, original, started, stopped, errors, mpc, report>>
    BY <1>9 DEF InterruptStop, Goto
  <2>2. Taken BY <2>1 DEF Taken
  <2>3. CutShort' => CutShort BY <1>0, <2>1 DEF CutShort
  <2>4. NoFailure' => NoFailure /\ \A t \in Threads : Stage(t) => Stage(t)'
    BY <1>0, <2>1 DEF NoFailure, Stage
  <2> QED BY <2>1, <2>2, <2>3, <2>4 DEF CleanInv
<1> QED BY <1>2, <1>3, <1>4, <1>5, <1>6, <1>7, <1>8, <1>9 DEF Environment

LEMMA CleanStep == TypeOK /\ CloseInv /\ StartInv /\ CleanInv /\ [Next]_vars => CleanInv'
<1> SUFFICES ASSUME TypeOK, CloseInv, StartInv, CleanInv, [Next]_vars PROVE CleanInv' OBVIOUS
<1>1. CASE UNCHANGED vars
  BY <1>1 DEF CleanInv, Taken, Stage, NoFailure, AsBefore, SnapOK, CutShort, vars, windows, policyVars
<1> QED BY <1>1, CleanStart, CleanStop, CleanOthers DEF Next, Rest, MainStep, HandlerStep

\* A run whose snapshot missed an entry fails to add it again, and stops.
BlindInv == "missed" \in wrong =>
    /\ ~started /\ report = "none"
    /\ mpc \notin {"snapshot", "add", "flush", "register", "run"}
    /\ mpc \in {"stale", "configure"} => ~present /\ doh # "absent"

LEMMA BlindInit == Init => BlindInv
BY DEF Init, BlindInv

LEMMA BlindStep == TypeOK /\ StartInv /\ BlindInv /\ [Next]_vars => BlindInv'
<1> SUFFICES ASSUME TypeOK, StartInv, BlindInv, [Next]_vars, "missed" \in wrong' PROVE BlindInv'
  BY DEF BlindInv
<1> USE DEF BlindInv, windows, policyVars
<1>1. CASE SnapshotDoh
  <2>1. /\ mpc = "snapshot" /\ UNCHANGED <<doh, started, report>> /\ mpc' \in {"stale", "exit"}
        /\ mpc' = "exit" \/ (present' = FALSE /\ doh # "absent") \/ UNCHANGED wrong
    BY <1>1 DEF SnapshotDoh
  <2>2. ~started /\ report = "none" BY <2>1 DEF StartInv
  <2> QED BY <2>1, <2>2
<1>2. ASSUME "missed" \in wrong PROVE BlindInv'
  <2>1. CASE CleanupStaleRules
    <3>1. mpc = "stale" /\ mpc' \in {"configure", "exit"} /\ UNCHANGED <<doh, present, started, report>>
      BY <2>1, Remaining DEF CleanupStaleRules
    <3> QED BY <1>2, <3>1
  <2>2. CASE ConfigureDoh BY <1>2, <2>2 DEF ConfigureDoh, CanConfigure, StartFails
  <2>3. ASSUME NEW t \in Threads, StopStep(t) PROVE BlindInv'
    <3>1. spc[t] # "idle" /\ UNCHANGED mpc /\ (started' => started)
          /\ (~started => UNCHANGED report)
      BY <2>3 DEF StopStep, EnterStop, RemoveRules, RestoreDoh, Flush, FinishStop
    <3>2. mpc \notin StartSteps BY <3>1 DEF StartInv, TypeOK
    <3> QED BY <1>2, <3>1, <3>2
  <2>4. CASE LeaveRun BY <1>2, <2>4 DEF LeaveRun
  <2>5. CASE Exit \/ ConsoleCloses \/ Crash
    BY <1>2, <2>5 DEF Exit, ConsoleCloses, Crash, FreshProcess
  <2>6. CASE EndSession BY <1>2, <2>6 DEF EndSession
  <2>7. CASE CloseConsole BY <1>2, <2>7 DEF CloseConsole
  <2>8. CASE InterruptStart BY <1>2, <2>8 DEF InterruptStart
  <2>9. CASE InterruptStop BY <1>2, <2>9 DEF InterruptStop
  <2>10. CASE UNCHANGED vars BY <1>2, <2>10 DEF vars
  <2>11. CASE Launch BY <2>11 DEF Launch
  <2>12. CASE SnapshotDoh \/ AddRule \/ FlushAndStart \/ RegisterHandler
    BY <1>2, <2>12 DEF SnapshotDoh, AddRule, FlushAndStart, RegisterHandler
  <2> QED BY <2>1, <2>2, <2>3, <2>4, <2>5, <2>6, <2>7, <2>8, <2>9, <2>10, <2>11, <2>12
          DEF Next, Rest, MainStep, HandlerStep, StartStep, Environment
<1>3. CASE "missed" \notin wrong /\ ~SnapshotDoh
  <2>1. UNCHANGED wrong \/ wrong' \subseteq wrong \cup {"kept", "failed", "left"} \/ wrong' \subseteq {"dirty"}
    BY <1>3 DEF Next, Rest, MainStep, HandlerStep, Environment, StartStep, StopStep,
       CleanupStaleRules, ConfigureDoh, AddRule, FlushAndStart, RegisterHandler, EnterStop,
       RemoveRules, RestoreDoh, Flush, FinishStop, Raise, LeaveRun, Exit, Launch, EndSession,
       CloseConsole, ConsoleCloses, Crash, InterruptStart, InterruptStop, vars
  <2> QED BY <1>3, <2>1
<1> QED BY <1>1, <1>2, <1>3

\* "previous DoH settings restored" is logged only when it is so.
THEOREM ReportHonest == Spec => []HonestReport
<1>1. CleanInv /\ BlindInv => HonestReport BY DEF CleanInv, BlindInv, HonestReport
<1> QED BY <1>1, TypeInit, TypeStep, CloseInit, CloseStep, StartInit, StartStays, CleanInit, CleanStep,
           BlindInit, BlindStep, PTL DEF Spec

\* Without a mishap, Windows is as the user left it when the process is gone.
THEOREM ExitRestores == Spec => []NormalExitRestores
<1>1. CleanInv => NormalExitRestores BY DEF CleanInv, NormalExitRestores
<1> QED BY <1>1, TypeInit, TypeStep, CloseInit, CloseStep, StartInit, StartStays, CleanInit, CleanStep,
           PTL DEF Spec

=============================================================================
