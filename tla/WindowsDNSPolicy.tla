-------------------------- MODULE WindowsDNSPolicy --------------------------
(***************************************************************************)
(* The temporary DNS policy of dpiveil.dns_policy and the life of the      *)
(* process around it (app.run): started before the session, stopped by the *)
(* main thread's finally clause or by the console-close handler, whichever *)
(* comes first.  Windows keeps the policy when the process is gone, so the *)
(* model runs the program several times on one machine.                    *)
(***************************************************************************)
EXTENDS Naturals, FiniteSets

CONSTANTS
    Faults,         \* which failures may happen
    MaxRuns         \* bound: how often the program is launched

AllFaults == {"psfail",     \* a command exits with an error and no effect
              "timeout",    \* a command is killed after its timeout, done or not
              "silent",     \* a command inside a script run by start() fails and the
                            \* script does not (-ErrorAction SilentlyContinue)
              "noname",     \* Add-DnsClientNrptRule names no rule
              "register",   \* SetConsoleCtrlHandler fails
              "interrupt",  \* Ctrl+C outside the session
              "crash"}      \* the process is killed

ASSUME DnsAssumption == Faults \subseteq AllFaults /\ MaxRuns \in Nat

VARIABLES           \* Windows
    rules,          \* NRPT rules that carry the program's MARKER
    doh,            \* the DoH entry of the resolver
    userDoh,        \* history: what it is without the program
    missed          \* history: has a run taken an entry that exists for absent?

VARIABLES           \* the process
    mpc,            \* the main thread's next step
    ruleNames,      \* rule_names
    present,        \* doh_was_present
    original,       \* original_doh
    started,        \* started
    stopped,        \* _stopped
    lock,           \* the holder of _stop_lock
    errors,         \* stop(): has a command failed?
    spc,            \* each thread's step in stop()
    registered,     \* is the console-close handler installed?
    report,         \* what stop() logged
    runs,           \* launches so far
    wrong           \* history: what went wrong in this run, a set of Mishaps

windows == <<rules, doh, userDoh, missed>>
policyVars == <<ruleNames, present, original, started, stopped, lock, errors>>
vars == <<windows, policyVars, mpc, spc, registered, report, runs, wrong>>

Threads == {"main", "handler"}
Nobody == "nobody"
Entries == {"absent", "user", "ours"}
StopBody == {"remove", "restore", "flush", "finish"}
StartSteps == {"snapshot", "stale", "configure", "add", "flush", "register"}

\* Windows was not as the user left it when the run began; the snapshot took an
\* entry that exists for absent; a rule of an earlier run stayed; a command that
\* should have cleaned up failed or was cut short, or made a rule without saying its
\* name; the process left without calling stop().
Mishaps == {"dirty", "missed", "kept", "failed", "left"}

AsBefore == rules = {} /\ doh = userDoh

\* Every variable holds a value of its kind, and the lock is held by the one
\* thread inside stop()'s with block.
TypeOK ==
    /\ rules \subseteq 1..MaxRuns
    /\ doh \in Entries
    /\ userDoh \in {"absent", "user"}
    /\ missed \in BOOLEAN
    /\ mpc \in StartSteps \cup {"off", "run", "stop", "exit"}
    /\ ruleNames \subseteq 1..MaxRuns
    /\ present \in BOOLEAN
    /\ original \in Entries
    /\ started \in BOOLEAN
    /\ stopped \in BOOLEAN
    /\ lock \in Threads \cup {Nobody}
    /\ errors \in BOOLEAN
    /\ spc \in [Threads -> StopBody \cup {"idle", "acquire", "returned", "raised"}]
    /\ \A t \in Threads : lock = t <=> spc[t] \in StopBody
    /\ mpc \notin {"stop", "exit"} => spc["main"] = "idle"
    /\ registered \in BOOLEAN
    /\ report \in {"none", "restored", "errors"}
    /\ runs \in 0..MaxRuns
    /\ mpc # "off" => runs \in 1..MaxRuns
    /\ wrong \subseteq Mishaps

\* The fields of a new WindowsDNSPolicy, and a process without a history.
FreshProcess ==
    /\ ruleNames' = {}
    /\ present' = FALSE
    /\ original' = "absent"
    /\ started' = FALSE
    /\ stopped' = FALSE
    /\ lock' = Nobody
    /\ errors' = FALSE
    /\ spc' = [t \in Threads |-> "idle"]
    /\ registered' = FALSE

Init ==
    /\ rules = {}
    /\ userDoh \in {"absent", "user"}
    /\ doh = userDoh
    /\ missed = FALSE
    /\ mpc = "off"
    /\ ruleNames = {}
    /\ present = FALSE
    /\ original = "absent"
    /\ started = FALSE
    /\ stopped = FALSE
    /\ lock = Nobody
    /\ errors = FALSE
    /\ spc = [t \in Threads |-> "idle"]
    /\ registered = FALSE
    /\ report = "none"
    /\ runs = 0
    /\ wrong = {}

Mishap(m) == wrong' = wrong \cup {m}

-----------------------------------------------------------------------------
(* Commands.  An effect is a change of windows; what a command returns     *)
(* decides where its caller goes.                                          *)

Fails == "psfail" \in Faults
TimesOut == "timeout" \in Faults

EntryBecomes(e) == doh' = e /\ UNCHANGED <<rules, userDoh, missed>>
RulesBecome(r) == rules' = r /\ UNCHANGED <<doh, userDoh, missed>>

-----------------------------------------------------------------------------
(* start() and the part of run() before the session.                       *)

Launch ==
    /\ mpc = "off"
    /\ runs < MaxRuns
    /\ runs' = runs + 1
    /\ mpc' = "snapshot"
    /\ report' = "none"
    /\ FreshProcess
    /\ wrong' = IF AsBefore THEN {} ELSE {"dirty"}
    /\ UNCHANGED windows

\* _snapshot_doh.  A Get that fails prints nothing, as it does of an absent entry.
SnapshotDoh ==
    /\ mpc = "snapshot"
    /\ \/ /\ present' = (doh # "absent")
          /\ original' = doh
          /\ mpc' = "stale"
          /\ UNCHANGED <<missed, wrong>>
       \/ /\ "silent" \in Faults /\ doh # "absent"
          /\ present' = FALSE
          /\ original' = "absent"
          /\ mpc' = "stale"
          /\ missed' = TRUE
          /\ Mishap("missed")
       \/ /\ Fails \/ TimesOut
          /\ mpc' = "exit"
          /\ UNCHANGED <<present, original, missed, wrong>>
    /\ UNCHANGED <<rules, doh, userDoh, ruleNames, started, stopped, lock, errors>>
    /\ UNCHANGED <<spc, registered, report, runs>>

\* Mutated Stale: the rules of an earlier run are nobody's business.
StaleNone == {}

\* The rules _cleanup_stale_rules removes: all that carry the MARKER.
Stale == rules

\* The loop was cut short, or a Get or Remove in it failed: some of the rules stay.
SomeStay ==
    \E kept \in (SUBSET Stale) \ {{}} : RulesBecome((rules \ Stale) \cup kept)

CleanupStaleRules ==
    /\ mpc = "stale"
    /\ \/ RulesBecome(rules \ Stale) /\ mpc' = "configure" /\ UNCHANGED wrong
       \/ "silent" \in Faults /\ SomeStay /\ mpc' = "configure" /\ Mishap("kept")
       \/ /\ \/ Fails /\ UNCHANGED windows
             \/ TimesOut /\ (RulesBecome(rules \ Stale) \/ SomeStay)
          /\ mpc' = "exit"
          /\ UNCHANGED wrong
    /\ UNCHANGED <<policyVars, spc, registered, report, runs>>

\* An exception inside start()'s try: stop(), then run() returns.
StartFails == mpc' = "stop" /\ spc' = [spc EXCEPT !["main"] = "acquire"]

\* Add-DnsClientDohServerAddress makes a new entry, Set- changes an old one.
CanConfigure == present <=> doh # "absent"

ConfigureDoh ==
    /\ mpc = "configure"
    /\ \/ CanConfigure /\ EntryBecomes("ours") /\ mpc' = "add" /\ UNCHANGED spc
       \/ (Fails \/ TimesOut \/ ~CanConfigure) /\ UNCHANGED windows /\ StartFails
       \/ TimesOut /\ CanConfigure /\ EntryBecomes("ours") /\ StartFails
    /\ UNCHANGED <<policyVars, registered, report, runs, wrong>>

AddRule ==
    /\ mpc = "add"
    /\ \/ /\ RulesBecome(rules \cup {runs})
          /\ ruleNames' = {runs}
          /\ mpc' = "flush"
          /\ UNCHANGED <<spc, wrong>>
       \/ (Fails \/ TimesOut) /\ UNCHANGED <<windows, ruleNames, wrong>> /\ StartFails
       \/ /\ TimesOut \/ "noname" \in Faults
          /\ RulesBecome(rules \cup {runs})
          /\ StartFails
          /\ Mishap("failed")
          /\ UNCHANGED ruleNames
    /\ UNCHANGED <<present, original, started, stopped, lock, errors>>
    /\ UNCHANGED <<registered, report, runs>>

FlushAndStart ==
    /\ mpc = "flush"
    /\ \/ mpc' = "register" /\ started' = TRUE /\ UNCHANGED spc
       \/ (Fails \/ TimesOut) /\ StartFails /\ UNCHANGED started
    /\ UNCHANGED <<windows, ruleNames, present, original, stopped, lock, errors>>
    /\ UNCHANGED <<registered, report, runs, wrong>>

\* run() returns 1 when registration fails: nobody calls stop().
RegisterHandler ==
    /\ mpc = "register"
    /\ \/ registered' = TRUE /\ mpc' = "run" /\ UNCHANGED wrong
       \/ "register" \in Faults /\ mpc' = "exit" /\ Mishap("left") /\ UNCHANGED registered
    /\ UNCHANGED <<windows, policyVars, spc, report, runs>>

\* The session ends, by Ctrl+C or by itself: run()'s finally clause.
EndSession ==
    /\ mpc = "run"
    /\ mpc' = "stop"
    /\ spc' = [spc EXCEPT !["main"] = "acquire"]
    /\ UNCHANGED <<windows, policyVars, registered, report, runs, wrong>>

-----------------------------------------------------------------------------
(* stop(), on either thread.                                               *)

Goto(t, step) == spc' = [spc EXCEPT ![t] = step]

\* Mutated MustWait: the flag is looked at before the lock is taken.
MustWaitUnlessStopped == lock # Nobody /\ ~stopped

\* Mutated MustWait: the handler lets the session end first.
MustWaitForSession == lock # Nobody \/ mpc = "run"

MustWait == lock # Nobody

EnterStop(t) ==
    /\ spc[t] = "acquire"
    /\ ~MustWait
    /\ IF stopped
         THEN Goto(t, "returned") /\ UNCHANGED <<lock, stopped, errors>>
         ELSE /\ Goto(t, "remove")
              /\ lock' = t
              /\ stopped' = TRUE
              /\ errors' = FALSE
    /\ UNCHANGED <<windows, ruleNames, present, original, started>>
    /\ UNCHANGED <<mpc, registered, report, runs, wrong>>

\* An exception no clause of stop() catches; the lock is released.
Raise(t) == Goto(t, "raised") /\ lock' = Nobody /\ Mishap("failed")

\* Mutated Report: a failed command goes unnoticed.
ReportNothing == errors' = errors

Report == errors' = TRUE

RemoveRules(t) ==
    /\ spc[t] = "remove"
    /\ \/ /\ RulesBecome(rules \ ruleNames)
          /\ ruleNames' = {}
          /\ Goto(t, "restore")
          /\ UNCHANGED <<lock, errors, wrong>>
       \/ /\ ruleNames # {} /\ Fails
          /\ Report
          /\ ruleNames' = {}
          /\ Goto(t, "restore")
          /\ Mishap("failed")
          /\ UNCHANGED <<windows, lock>>
       \/ /\ ruleNames # {} /\ TimesOut
          /\ \/ UNCHANGED windows
             \/ RulesBecome(rules \ ruleNames)
          /\ Raise(t)
          /\ UNCHANGED <<ruleNames, errors>>
    /\ UNCHANGED <<present, original, started, stopped>>
    /\ UNCHANGED <<mpc, registered, report, runs>>

\* Mutated Restored: the entry is always taken away.
RestoredAbsent == "absent"

Restored == IF present THEN original ELSE "absent"

RestoreDoh(t) ==
    /\ spc[t] = "restore"
    /\ \/ EntryBecomes(Restored) /\ Goto(t, "flush") /\ UNCHANGED <<lock, errors, wrong>>
       \/ /\ Fails
          /\ Report
          /\ Goto(t, "flush")
          /\ Mishap("failed")
          /\ UNCHANGED <<windows, lock>>
       \/ /\ TimesOut
          /\ UNCHANGED windows \/ EntryBecomes(Restored)
          /\ Raise(t)
          /\ UNCHANGED errors
    /\ UNCHANGED <<ruleNames, present, original, started, stopped>>
    /\ UNCHANGED <<mpc, registered, report, runs>>

Flush(t) ==
    /\ spc[t] = "flush"
    /\ \/ Goto(t, "finish") /\ UNCHANGED <<lock, errors, wrong>>
       \/ Fails /\ Report /\ Goto(t, "finish") /\ Mishap("failed") /\ UNCHANGED lock
       \/ TimesOut /\ Raise(t) /\ UNCHANGED errors
    /\ UNCHANGED <<windows, ruleNames, present, original, started, stopped>>
    /\ UNCHANGED <<mpc, registered, report, runs>>

Released == Nobody

FinishStop(t) ==
    /\ spc[t] = "finish"
    /\ report' = IF ~started THEN report ELSE IF errors THEN "errors" ELSE "restored"
    /\ started' = FALSE
    /\ lock' = Released
    /\ Goto(t, "returned")
    /\ UNCHANGED <<windows, ruleNames, present, original, stopped, errors>>
    /\ UNCHANGED <<mpc, registered, runs, wrong>>

StopStep(t) ==
    EnterStop(t) \/ RemoveRules(t) \/ RestoreDoh(t) \/ Flush(t) \/ FinishStop(t)

\* The main thread's stop() is over: unregister, and out of run().
LeaveRun ==
    /\ mpc = "stop"
    /\ spc["main"] \in {"returned", "raised"}
    /\ mpc' = "exit"
    /\ registered' = FALSE
    /\ UNCHANGED <<windows, policyVars, spc, report, runs, wrong>>

-----------------------------------------------------------------------------
(* The end of the process.                                                 *)

CutShort == \E t \in Threads : spc[t] \in StopBody

\* run() has returned, and with it the process goes, handler thread and all.
Exit ==
    /\ mpc = "exit"
    /\ mpc' = "off"
    /\ FreshProcess
    /\ IF CutShort THEN Mishap("failed") ELSE UNCHANGED wrong
    /\ UNCHANGED <<windows, report, runs>>

\* Windows closes the console: the native handler calls stop() on a thread of its own.
CloseConsole ==
    /\ registered
    /\ spc["handler"] = "idle"
    /\ Goto("handler", "acquire")
    /\ UNCHANGED <<windows, policyVars, mpc, registered, report, runs, wrong>>

\* The handler has returned, so Windows ends the process whatever main does.
ConsoleCloses ==
    /\ mpc # "off"
    /\ spc["handler"] \in {"returned", "raised"}
    /\ mpc' = "off"
    /\ FreshProcess
    /\ IF CutShort THEN Mishap("failed") ELSE UNCHANGED wrong
    /\ UNCHANGED <<windows, report, runs>>

Crash ==
    /\ "crash" \in Faults
    /\ mpc # "off"
    /\ mpc' = "off"
    /\ FreshProcess
    /\ Mishap("left")
    /\ UNCHANGED <<windows, report, runs>>

\* KeyboardInterrupt before the session: neither start()'s "except Exception"
\* nor run()'s finally clause sees it.
InterruptStart ==
    /\ "interrupt" \in Faults
    /\ mpc \in StartSteps
    /\ mpc' = "exit"
    /\ Mishap("left")
    /\ UNCHANGED <<windows, policyVars, spc, registered, report, runs>>

\* KeyboardInterrupt while the main thread is in stop().
InterruptStop ==
    /\ "interrupt" \in Faults
    /\ mpc = "stop"
    /\ spc["main"] \in StopBody \cup {"acquire"}
    /\ Goto("main", "raised")
    /\ lock' = IF lock = "main" THEN Nobody ELSE lock
    /\ Mishap("failed")
    /\ UNCHANGED <<windows, ruleNames, present, original, started, stopped, errors>>
    /\ UNCHANGED <<mpc, registered, report, runs>>

-----------------------------------------------------------------------------

StartStep ==
    \/ SnapshotDoh \/ CleanupStaleRules \/ ConfigureDoh \/ AddRule
    \/ FlushAndStart \/ RegisterHandler

MainStep == StartStep \/ StopStep("main") \/ LeaveRun \/ Exit

HandlerStep == StopStep("handler") \/ ConsoleCloses

Environment == Launch \/ EndSession \/ CloseConsole \/ Crash \/ InterruptStart \/ InterruptStop

\* All launches are used up.
Rest == mpc = "off" /\ runs = MaxRuns /\ UNCHANGED vars

Next == MainStep \/ HandlerStep \/ Environment \/ Rest

Spec == Init /\ [][Next]_vars

\* Every command has a timeout; a session may last as long as it likes.
FairSpec == Spec /\ WF_vars(MainStep) /\ WF_vars(HandlerStep)

-----------------------------------------------------------------------------
(* Properties.                                                             *)

\* "Windows DNS policy removed; previous DoH settings restored." is the truth, even
\* when commands of this run failed, heard or unheard: every failed command of stop()
\* is counted before the message is chosen, and a run that took the user's entry for
\* absent never gets as far as saying so.  (A run that begins with the program's own
\* entry in place takes it for the user's.)
HonestReport == report = "restored" /\ "dirty" \notin wrong => AsBefore

\* When the process is gone and none of the Mishaps befell this run, Windows is as
\* the user left it: however start() or the session ended, with whichever of start()'s
\* commands failed, whichever thread stopped the policy and whatever start() had done
\* by then (run, start, stop).
NormalExitRestores == mpc = "off" /\ wrong = {} => AsBefore

\* The same for every way out of run() (README.md: when the program closes normally
\* it restores the temporary DNS settings).
EveryExitRestores == mpc = "off" /\ wrong \subseteq {"left"} => AsBefore

\* Once a stop() call has returned on the handler's thread, Windows may end the
\* process: the cleanup is over then, not still under way on the main thread.
CloseWaitsForCleanup == spc["handler"] = "returned" => ~CutShort

\* While the policy is in force, rule_names is this run's rule, which is there to
\* route the names of Discord, and it is alone: a rule of an earlier run is still
\* beside it only if its removal failed unheard (_cleanup_stale_rules).
OneRuleInForce ==
    mpc \in {"register", "run"} /\ ~stopped =>
        /\ ruleNames = {runs}
        /\ runs \in rules
        /\ "kept" \notin wrong => rules = {runs}

\* A DoH entry the user has is never taken away, over all the runs that crash, time
\* out, fail or find the program's own entry in its place, unless a run's snapshot
\* took an entry for absent: then stop() removes an entry the program never added
\* (_snapshot_doh, _restore_doh).
UserEntryKept == userDoh = "user" /\ ~missed => doh # "absent"

\* Closing the console ends the process: stop() waits for nobody forever.
CloseEnds == spc["handler"] = "acquire" ~> mpc = "off"

=============================================================================
