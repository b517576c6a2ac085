---------------------------- MODULE StrategyCache ----------------------------
(***************************************************************************)
(* dpiveil.strategy_cache.StrategyCache: the strategy that worked, kept    *)
(* per network in strategy-cache.json.  save reads the file, adds an entry *)
(* and trims, writes the file strategy-cache.json.tmp and renames it; load *)
(* checks everything it finds.  Processes may be killed between any two of *)
(* these steps, writes may fail, the clock may be set, files may be torn.  *)
(*                                                                         *)
(* A network stands for its network_key, a profile for a configuration     *)
(* with its host and config_signature, a candidate for its name and        *)
(* candidate_signature: equal exactly if they are (SHA-256 of everything). *)
(***************************************************************************)
EXTENDS Integers, FiniteSets

CONSTANTS
    Procs,          \* DPIveil processes, one after the other or at once
    Networks,       \* networks with a default route
    Profiles,       \* configurations
    Candidates,     \* candidates
    Has,            \* Has[p]: the candidates of profile p
    MaxEntries,     \* MAX_ENTRIES
    MaxAge,         \* max_age_seconds
    Skew,           \* 300 seconds: how far in the future an entry may be dated
    Faults,         \* what may go wrong: "damage" to the file, "clock" set back
    MaxClock,       \* bound: the clock stops here
    Missing, Torn, None

ASSUME CacheAssumption ==
    /\ Has \in [Profiles -> SUBSET Candidates]
    /\ MaxEntries \in Nat \ {0} /\ MaxAge \in Nat /\ Skew \in Nat /\ MaxClock \in Nat
    /\ Faults \subseteq {"damage", "clock"}
    /\ IsFiniteSet(Networks)
    /\ Missing # Torn

Entry == [profile : Profiles, candidate : Candidates, at : Nat]
Saved == [network : Networks, entry : Entry]

\* What a file that can be parsed holds; an absent entry is None.
Contents == [Networks -> Entry \cup {None}]

ASSUME SentinelAssumption ==
    /\ None \notin Entry \cup Saved
    /\ Missing \notin Contents /\ Torn \notin Contents
    /\ None \notin [key : Networks, profile : Profiles, entry : Entry, time : Nat]
    /\ None \notin [network : Networks, entry : Entry, contents : Contents]

VARIABLES
    file,           \* strategy-cache.json
    tmp,            \* strategy-cache.json.tmp
    clock,          \* time.time()
    pc,             \* pc[p]: where process p is in save
    job,            \* job[p]: what it saves and the contents it wants to write
    offered,        \* history: every entry save was ever called with
    latest,         \* history: the entry of the last save to get through, by network
    kept,           \* history: the last save that returned True, until the next save
    loaded,         \* history: what load has just returned, or None
    trouble         \* history: two saves at once, damage, a clock set back

fileVars == <<file, tmp>>
procVars == <<pc, job>>
historyVars == <<offered, latest, kept>>
vars == <<fileVars, clock, procVars, historyVars, loaded, trouble>>

Job == [network : Networks, entry : Entry, contents : Contents]
Loaded == [key : Networks, profile : Profiles, entry : Entry, time : Nat]

\* Every variable holds a value of its kind, and a process that is saving has a job.
TypeOK ==
    /\ file \in Contents \cup {Missing, Torn}
    /\ tmp \in Contents \cup {Missing, Torn}
    /\ clock \in Nat
    /\ pc \in [Procs -> {"idle", "open", "fill", "replace"}]
    /\ job \in [Procs -> Job \cup {None}]
    /\ \A p \in Procs : pc[p] # "idle" => job[p] # None
    /\ offered \subseteq Saved
    /\ latest \in [Networks -> Entry \cup {None}]
    /\ kept \in Saved \cup {None}
    /\ loaded \in Loaded \cup {None}
    /\ trouble \subseteq {"overlap", "damage", "clock"}

Init ==
    /\ file = Missing
    /\ tmp = Missing
    /\ clock = 0
    /\ pc = [p \in Procs |-> "idle"]
    /\ job = [p \in Procs |-> None]
    /\ offered = {}
    /\ latest = [n \in Networks |-> None]
    /\ kept = None
    /\ loaded = None
    /\ trouble = {}

\* _read: whatever cannot be read or parsed counts as empty.
Read(f) == IF f \in {Missing, Torn} THEN [n \in Networks |-> None] ELSE f

-----------------------------------------------------------------------------
(* save(key, config, candidate).                                           *)

\* Mutated Updated: an entry once written stays.
UpdatedOnce(contents, n, e) ==
    [contents EXCEPT ![n] = IF contents[n] = None THEN e ELSE contents[n]]

\* entries[key] = {...}
Updated(contents, n, e) == [contents EXCEPT ![n] = e]

\* Mutated Newer: sorted without reverse.
NewerReversed(e, d) == e.at <= d.at

Newer(e, d) == e.at >= d.at

Present(contents) == {n \in Networks : contents[n] # None}

\* The MAX_ENTRIES entries with the latest saved_at; the order of equal ones is
\* that of the keys in the file, left open here.
Trimmed(contents) ==
    LET all == Present(contents)
        size == IF Cardinality(all) <= MaxEntries THEN Cardinality(all) ELSE MaxEntries
        best == {s \in SUBSET all : /\ Cardinality(s) = size
                                    /\ \A n \in s, m \in all \ s : Newer(contents[n], contents[m])}
    IN  {[n \in Networks |-> IF n \in s THEN contents[n] ELSE None] : s \in best}

\* The file is read and the new contents computed. The clock moves on with every
\* save: two saves are sessions apart.
BeginSave(p, n, prof, c) ==
    LET e == [profile |-> prof, candidate |-> c, at |-> clock]
    IN  /\ pc[p] = "idle"
        /\ clock < MaxClock
        /\ clock' = clock + 1
        /\ \E t \in Trimmed(Updated(Read(file), n, e)) :
             job' = [job EXCEPT ![p] = [network |-> n, entry |-> e, contents |-> t]]
        /\ pc' = [pc EXCEPT ![p] = "open"]
        /\ offered' = offered \cup {[network |-> n, entry |-> e]}
        /\ kept' = None
        /\ trouble' = IF \E q \in Procs : pc[q] # "idle" THEN trouble \cup {"overlap"} ELSE trouble
        /\ UNCHANGED <<fileVars, latest>>

Returns(p) == pc' = [pc EXCEPT ![p] = "idle"] /\ job' = [job EXCEPT ![p] = None]

\* Mutated Target: the cache file itself is opened for writing.
TargetInPlace == file' = Torn /\ UNCHANGED tmp

\* write_text opens the temporary file, which truncates it.
Target == tmp' = Torn /\ UNCHANGED file

OpenTemporary(p) ==
    /\ pc[p] = "open"
    /\ Target
    /\ pc' = [pc EXCEPT ![p] = "fill"]
    /\ UNCHANGED <<job, clock, historyVars, trouble>>

OthersWriting(p) == \E q \in Procs \ {p} : pc[q] = "fill"

\* Written and closed. A process that writes into the file another one opened
\* or wrote meanwhile may leave a mixture of both.
FillTemporary(p) ==
    /\ pc[p] = "fill"
    /\ \/ tmp' = job[p].contents
       \/ (tmp # Torn \/ OthersWriting(p)) /\ tmp' = Torn
    /\ pc' = [pc EXCEPT ![p] = "replace"]
    /\ UNCHANGED <<file, job, clock, historyVars, trouble>>

\* os.replace: Windows renames no file another process has open.
Replace(p) ==
    /\ pc[p] = "replace"
    /\ tmp # Missing
    /\ ~OthersWriting(p)
    /\ file' = tmp
    /\ tmp' = Missing
    /\ Returns(p)
    /\ latest' = [latest EXCEPT ![job[p].network] = job[p].entry]
    /\ kept' = [network |-> job[p].network, entry |-> job[p].entry]
    /\ UNCHANGED <<clock, offered, trouble>>

\* An OSError of mkdir, write_text or os.replace makes save return False; a kill
\* ends the process here. Either way the files stay as they are.
Abandon(p) ==
    /\ pc[p] # "idle"
    /\ Returns(p)
    /\ UNCHANGED <<fileVars, clock, historyVars, trouble>>

-----------------------------------------------------------------------------
(* load(key, config).                                                      *)

\* Mutated Matches: the configuration may have changed since.
MatchesName(e, prof) == e.candidate \in Has[prof]

\* The configuration is the one of the entry, and has its candidate.
Matches(e, prof) == e.profile = prof /\ e.candidate \in Has[prof]

InTime(e) == e.at <= clock + Skew /\ clock - e.at <= MaxAge

Load(n, prof) ==
    LET e == Read(file)[n]
    IN  /\ loaded' = IF e # None /\ InTime(e) /\ Matches(e, prof)
                     THEN [key |-> n, profile |-> prof, entry |-> e, time |-> clock] ELSE None
        /\ UNCHANGED <<fileVars, clock, procVars, historyVars, trouble>>

-----------------------------------------------------------------------------
(* The machine.                                                            *)

\* The power goes before the new file has reached the disk, or an editor spoils it.
Damage ==
    /\ "damage" \in Faults
    /\ file' = Torn
    /\ kept' = None
    /\ trouble' = trouble \cup {"damage"}
    /\ UNCHANGED <<tmp, clock, procVars, offered, latest>>

ClockSetBack ==
    /\ "clock" \in Faults
    /\ "clock" \notin trouble                              \* bound: once
    /\ clock' \in 0 .. clock - 1
    /\ trouble' = trouble \cup {"clock"}
    /\ UNCHANGED <<fileVars, procVars, historyVars>>

Tick ==
    /\ clock < MaxClock
    /\ clock' = clock + 1
    /\ UNCHANGED <<fileVars, procVars, historyVars, trouble>>

Process(p) ==
    \/ \E n \in Networks, prof \in Profiles : \E c \in Has[prof] : BeginSave(p, n, prof, c)
    \/ OpenTemporary(p) \/ FillTemporary(p) \/ Replace(p) \/ Abandon(p)

Saves == \E p \in Procs : Process(p)
Loads == \E n \in Networks, prof \in Profiles : Load(n, prof)

Next == Loads \/ (loaded' = None /\ (Saves \/ Damage \/ ClockSetBack \/ Tick))

Spec == Init /\ [][Next]_vars

-----------------------------------------------------------------------------
(* Properties.                                                             *)

\* What load returns is what some process selected on this very network with
\* this very profile, not too long ago: through torn files, processes that
\* write at once and a clock that is set (load; "safely ignored" in README.md).
LoadedWasSaved ==
    loaded # None =>
        /\ [network |-> loaded.key, entry |-> loaded.entry] \in offered
        /\ loaded.entry.profile = loaded.profile
        /\ loaded.entry.candidate \in Has[loaded.profile]
        /\ loaded.time - loaded.entry.at <= MaxAge
        /\ loaded.entry.at - loaded.time <= Skew

\* A kill between any two steps of save leaves the old file or the new one,
\* never a part, unless the disk does it or two processes write the temporary
\* file at once (write_text to the temporary file, then os.replace).
NeverTorn == file = Torn => trouble \cap {"overlap", "damage"} # {}

\* No save brings back an entry that a later save of its network replaced, not
\* even one that was killed and left its temporary file; only two at once may.
NoneRevived ==
    "overlap" \notin trouble => \A n \in Networks : Read(file)[n] \in {None, latest[n]}

\* What save said it kept is in the file, full or not: the trimming never takes
\* the entry that was just made, unless the clock was set back or another process
\* saved at once (save, sorted by saved_at).
SavedIsKept ==
    trouble \cap {"overlap", "clock"} = {} /\ kept # None =>
        Read(file)[kept.network] = kept.entry

=============================================================================
