------------------------- MODULE StrategyCacheProofs -------------------------
(***************************************************************************)
(* The cache for every number of processes, networks and entries: nothing  *)
(* that was not selected is ever loaded, and one process at a time never   *)
(* leaves a torn file.                                                     *)
(***************************************************************************)
EXTENDS StrategyCache, FiniteSetTheorems, TLAPS

\* Every entry of these contents was once given to save for its network.
AllOffered(contents) ==
    \A n \in Networks : contents[n] # None => [network |-> n, entry |-> contents[n]] \in offered

FilesOffered ==
    /\ file \in Contents => AllOffered(file)
    /\ tmp \in Contents => AllOffered(tmp)

JobsOffered == \A p \in Procs : job[p] # None => AllOffered(job[p].contents)

\* Entries enter the files and the jobs only by save, and save keeps them with
\* their network: what load finds is one of them.
Inv == TypeOK /\ FilesOffered /\ JobsOffered /\ LoadedWasSaved

LEMMA ReadContents == ASSUME TypeOK PROVE Read(file) \in Contents
  BY DEF TypeOK, Read, Contents

LEMMA ReadOffered == ASSUME TypeOK, FilesOffered PROVE AllOffered(Read(file))
  BY DEF TypeOK, FilesOffered, Read, AllOffered

\* Trimming only takes entries away.
LEMMA TrimmedContents ==
    ASSUME NEW contents \in Contents, NEW t \in Trimmed(contents)
    PROVE  /\ t \in Contents
           /\ \A n \in Networks : t[n] # None => t[n] = contents[n]
  <1>1. PICK s \in SUBSET Networks : t = [n \in Networks |-> IF n \in s THEN contents[n] ELSE None]
    BY DEF Trimmed, Present
  <1>2. QED BY <1>1 DEF Contents

LEMMA InitInv == Init => Inv
  BY SentinelAssumption DEF Init, Inv, TypeOK, FilesOffered, JobsOffered, LoadedWasSaved

\* The new contents are the file's entries and the one that is offered now.
LEMMA BeginSaveInv ==
    ASSUME Inv, NEW p \in Procs, NEW n \in Networks, NEW prof \in Profiles, NEW c \in Has[prof],
           BeginSave(p, n, prof, c), loaded' = None
    PROVE  Inv'
  <1> DEFINE e == [profile |-> prof, candidate |-> c, at |-> clock]
             new == [network |-> n, entry |-> e]
             whole == Updated(Read(file), n, e)
  <1>1. e \in Entry /\ new \in Saved
    BY CacheAssumption DEF Inv, TypeOK, Entry, Saved
  <1>2. whole \in Contents
    BY <1>1, ReadContents DEF Inv, Updated, Contents
  <1>3. PICK t \in Trimmed(whole) :
             job' = [job EXCEPT ![p] = [network |-> n, entry |-> e, contents |-> t]]
    BY DEF BeginSave
  <1>4. t \in Contents /\ \A m \in Networks : t[m] # None => t[m] = whole[m]
    BY <1>2, <1>3, TrimmedContents
  <1>5. offered' = offered \cup {new} /\ UNCHANGED <<file, tmp, latest>> /\ kept' = None
    BY DEF BeginSave, fileVars
  <1>6. TypeOK'
    <2>1. [network |-> n, entry |-> e, contents |-> t] \in Job
      BY <1>1, <1>4 DEF Job
    <2>2. job' \in [Procs -> Job \cup {None}]
      BY <1>3, <2>1 DEF Inv, TypeOK
    <2>3. \A q \in Procs : pc'[q] # "idle" => job'[q] # None
      BY <1>3, <2>1, SentinelAssumption DEF Inv, TypeOK, BeginSave, Job
    <2>4. clock' \in Nat /\ pc' \in [Procs -> {"idle", "open", "fill", "replace"}]
      BY DEF Inv, TypeOK, BeginSave
    <2>5. trouble' \subseteq {"overlap", "damage", "clock"}
      BY DEF Inv, TypeOK, BeginSave
    <2>6. QED BY <1>1, <1>5, <2>2, <2>3, <2>4, <2>5 DEF Inv, TypeOK
  <1>7. FilesOffered' BY <1>5 DEF Inv, FilesOffered, AllOffered
  <1>8. JobsOffered'
    <2>1. ASSUME NEW m \in Networks, t[m] # None
          PROVE  [network |-> m, entry |-> t[m]] \in offered'
      <3>1. t[m] = whole[m] BY <1>4, <2>1
      <3>2. CASE m = n BY <1>5, <3>1, <3>2, ReadContents DEF Inv, Updated, Contents
      <3>3. CASE m # n
        <4>1. t[m] = Read(file)[m] BY <3>1, <3>3, ReadContents DEF Inv, Updated, Contents
        <4>2. QED BY <1>5, <2>1, <4>1, ReadOffered DEF Inv, AllOffered
      <3>4. QED BY <3>2, <3>3
    <2>2. ASSUME NEW q \in Procs, job'[q] # None, NEW m \in Networks, job'[q].contents[m] # None
          PROVE  [network |-> m, entry |-> job'[q].contents[m]] \in offered'
      <3>1. CASE q = p
        <4>1. job'[q].contents = t BY <1>3, <3>1 DEF Inv, TypeOK
        <4>2. QED BY <2>1, <2>2, <4>1
      <3>2. CASE q # p
        <4>1. job'[q] = job[q] BY <1>3, <3>2 DEF Inv, TypeOK
        <4>2. QED BY <1>5, <2>2, <4>1 DEF Inv, JobsOffered, AllOffered
      <3>3. QED BY <3>1, <3>2
    <2>3. QED BY <2>2 DEF JobsOffered, AllOffered
  <1>9. LoadedWasSaved' BY DEF LoadedWasSaved
  <1>10. QED BY <1>6, <1>7, <1>8, <1>9 DEF Inv

\* A process that leaves save has no job any more.
LEMMA ReturnsJobs ==
    ASSUME Inv, NEW p \in Procs, Returns(p), UNCHANGED offered
    PROVE  /\ pc' \in [Procs -> {"idle", "open", "fill", "replace"}]
           /\ job' \in [Procs -> Job \cup {None}]
           /\ \A q \in Procs : pc'[q] # "idle" => job'[q] # None
           /\ JobsOffered'
  <1>1. \A q \in Procs : job'[q] # None => job'[q] = job[q] BY DEF Inv, TypeOK, Returns
  <1>2. JobsOffered' BY <1>1 DEF Inv, JobsOffered, AllOffered
  <1>3. QED BY <1>2 DEF Inv, TypeOK, Returns

LEMMA ProcessInv == ASSUME Inv, NEW p \in Procs, Process(p), loaded' = None PROVE Inv'
  <1>0. LoadedWasSaved' BY DEF LoadedWasSaved
  <1>1. CASE \E n \in Networks, prof \in Profiles : \E c \in Has[prof] : BeginSave(p, n, prof, c)
    BY <1>1, BeginSaveInv
  <1>2. CASE OpenTemporary(p)
    <2> USE <1>2 DEF OpenTemporary, Target, historyVars
    <2>1. TypeOK' BY DEF Inv, TypeOK
    <2>2. FilesOffered' BY SentinelAssumption DEF Inv, FilesOffered, AllOffered
    <2>3. JobsOffered' BY DEF Inv, JobsOffered, AllOffered
    <2>4. QED BY <1>0, <2>1, <2>2, <2>3 DEF Inv
  <1>3. CASE FillTemporary(p)
    <2> USE <1>3 DEF FillTemporary, historyVars
    <2>1. job[p] \in Job /\ job[p] # None BY DEF Inv, TypeOK
    <2>2. TypeOK' BY <2>1 DEF Inv, TypeOK, Job
    <2>3. FilesOffered'
      <3>1. CASE tmp' = job[p].contents
        BY <2>1, <3>1 DEF Inv, JobsOffered, FilesOffered, AllOffered
      <3>2. CASE tmp' = Torn
        BY <3>2, SentinelAssumption DEF Inv, FilesOffered, AllOffered
      <3>3. QED BY <3>1, <3>2
    <2>4. JobsOffered' BY DEF Inv, JobsOffered, AllOffered
    <2>5. QED BY <1>0, <2>2, <2>3, <2>4 DEF Inv
  <1>4. CASE Replace(p)
    <2>0. Returns(p) /\ file' = tmp /\ tmp' = Missing /\ UNCHANGED <<clock, offered, trouble>>
      BY <1>4 DEF Replace
    <2>1. job[p] \in Job BY <1>4 DEF Inv, TypeOK, Replace
    <2>2. latest' \in [Networks -> Entry \cup {None}] /\ kept' \in Saved \cup {None}
      BY <1>4, <2>1 DEF Inv, TypeOK, Replace, Job, Saved
    <2>3. TypeOK' BY <2>0, <2>2, ReturnsJobs DEF Inv, TypeOK
    <2>4. FilesOffered' BY <2>0, SentinelAssumption DEF Inv, FilesOffered, AllOffered
    <2>5. JobsOffered' BY <2>0, ReturnsJobs
    <2>6. QED BY <1>0, <2>3, <2>4, <2>5 DEF Inv
  <1>5. CASE Abandon(p)
    <2>0. Returns(p) /\ UNCHANGED <<file, tmp, clock, offered, latest, kept, trouble>>
      BY <1>5 DEF Abandon, fileVars, historyVars
    <2>1. TypeOK' BY <2>0, ReturnsJobs DEF Inv, TypeOK
    <2>2. JobsOffered' BY <2>0, ReturnsJobs
    <2>3. FilesOffered' BY <2>0 DEF Inv, FilesOffered, AllOffered
    <2>4. QED BY <1>0, <2>1, <2>2, <2>3 DEF Inv
  <1>6. QED BY <1>1, <1>2, <1>3, <1>4, <1>5 DEF Process

LEMMA LoadInv ==
    ASSUME Inv, NEW n \in Networks, NEW prof \in Profiles, Load(n, prof)
    PROVE  Inv'
  <1> DEFINE e == Read(file)[n]
             found == [key |-> n, profile |-> prof, entry |-> e, time |-> clock]
  <1>0. UNCHANGED <<file, tmp, clock, pc, job, offered, latest, kept, trouble>>
    BY DEF Load, fileVars, procVars, historyVars
  <1>1. \/ loaded' = None
        \/ loaded' = found /\ e # None /\ InTime(e) /\ Matches(e, prof)
    BY DEF Load
  <1>2. e # None => e \in Entry /\ [network |-> n, entry |-> e] \in offered
    BY ReadContents, ReadOffered DEF Inv, Contents, AllOffered
  <1>3. loaded' \in Loaded \cup {None}
    BY <1>1, <1>2 DEF Loaded, Inv, TypeOK
  <1>4. TypeOK' BY <1>0, <1>3 DEF Inv, TypeOK
  <1>5. FilesOffered' /\ JobsOffered' BY <1>0 DEF Inv, FilesOffered, JobsOffered, AllOffered
  <1>6. LoadedWasSaved'
    <2>1. CASE loaded' = None BY <2>1 DEF LoadedWasSaved
    <2>2. CASE loaded' = found /\ e # None /\ InTime(e) /\ Matches(e, prof)
      BY <1>0, <1>2, <2>2, CacheAssumption DEF LoadedWasSaved, InTime, Matches, Entry, Inv, TypeOK
    <2>3. QED BY <1>1, <2>1, <2>2
  <1>7. QED BY <1>4, <1>5, <1>6 DEF Inv

LEMMA StepInv == ASSUME Inv, [Next]_vars PROVE Inv'
  <1>1. CASE Saves /\ loaded' = None BY <1>1, ProcessInv DEF Saves
  <1>2. CASE Loads BY <1>2, LoadInv DEF Loads
  <1>3. CASE Damage /\ loaded' = None
    <2>1. TypeOK' BY <1>3 DEF Damage, Inv, TypeOK, procVars
    <2>2. FilesOffered'
      BY <1>3, SentinelAssumption DEF Damage, Inv, FilesOffered, AllOffered
    <2>3. JobsOffered' /\ LoadedWasSaved'
      BY <1>3 DEF Damage, Inv, JobsOffered, AllOffered, LoadedWasSaved, procVars
    <2>4. QED BY <2>1, <2>2, <2>3 DEF Inv
  <1>4. CASE (ClockSetBack \/ Tick) /\ loaded' = None
    <2>1. UNCHANGED <<file, tmp, pc, job, offered, latest, kept>>
      BY <1>4 DEF ClockSetBack, Tick, fileVars, procVars, historyVars
    <2>2. trouble' \subseteq {"overlap", "damage", "clock"}
      BY <1>4 DEF ClockSetBack, Tick, Inv, TypeOK
    <2>3. clock \in Nat BY DEF Inv, TypeOK
    <2>4. clock' \in Nat BY <1>4, <2>3 DEF ClockSetBack, Tick
    <2>5. QED
      BY <1>4, <2>1, <2>2, <2>4 DEF Inv, TypeOK, FilesOffered, JobsOffered, AllOffered, LoadedWasSaved
  <1>5. CASE UNCHANGED vars
    BY <1>5 DEF vars, fileVars, procVars, historyVars,
                Inv, TypeOK, FilesOffered, JobsOffered, AllOffered, LoadedWasSaved
  <1>6. QED BY <1>1, <1>2, <1>3, <1>4, <1>5 DEF Next

LEMMA InvAlways == Spec => []Inv
  BY InitInv, StepInv, PTL DEF Spec

\* Every variable keeps its type, with any number of processes and faults.
THEOREM TypeCorrect == Spec => []TypeOK
  <1>1. Inv => TypeOK BY DEF Inv
  <1>2. QED BY <1>1, InvAlways, PTL

\* load returns only what was selected on this network with this profile,
\* whatever kills, torn files, simultaneous writers and clock changes there were.
THEOREM LoadSafe == Spec => []LoadedWasSaved
  <1>1. Inv => LoadedWasSaved BY DEF Inv
  <1>2. QED BY <1>1, InvAlways, PTL

-----------------------------------------------------------------------------
(* One save at a time.  As long as no save begins during another one, the  *)
(* temporary file belongs to the process that is saving, and what it is    *)
(* going to write differs from the last saves in its own entry only.       *)

Apart == \A p, q \in Procs : pc[p] # "idle" /\ pc[q] # "idle" => p = q

UpToDate(contents, n) == contents[n] \in {None, latest[n]}

\* What process p has in hand between two steps of save.
Work(p) ==
    /\ pc[p] = "fill" => tmp = Torn
    /\ pc[p] = "replace" => tmp = job[p].contents
    /\ pc[p] # "idle" =>
          /\ \A n \in Networks : n # job[p].network => UpToDate(job[p].contents, n)
          /\ job[p].contents[job[p].network] \in {None, job[p].entry}

Single ==
    "overlap" \notin trouble =>
        /\ Apart
        /\ \A p \in Procs : Work(p)
        /\ \A n \in Networks : UpToDate(Read(file), n)
        /\ "damage" \notin trouble => file # Torn

LEMMA SingleInit == Init => Single
  BY CacheAssumption DEF Init, Single, Apart, Work, UpToDate, Read

LEMMA SingleBegin ==
    ASSUME Inv, Single, NEW p \in Procs, NEW n \in Networks, NEW prof \in Profiles,
           NEW c \in Has[prof], BeginSave(p, n, prof, c)
    PROVE  Single'
  <1> DEFINE e == [profile |-> prof, candidate |-> c, at |-> clock]
             whole == Updated(Read(file), n, e)
  <1> SUFFICES ASSUME "overlap" \notin trouble'
               PROVE  /\ Apart'
                      /\ \A q \in Procs : Work(q)'
                      /\ \A m \in Networks : UpToDate(Read(file), m)'
                      /\ "damage" \notin trouble' => file' # Torn
    BY DEF Single
  <1>1. trouble' = trouble /\ \A q \in Procs : pc[q] = "idle"
    BY DEF BeginSave
  <1>2. /\ pc' = [pc EXCEPT ![p] = "open"]
        /\ UNCHANGED <<file, tmp, latest>>
    BY DEF BeginSave, fileVars
  <1>3. PICK t \in Trimmed(whole) :
             job' = [job EXCEPT ![p] = [network |-> n, entry |-> e, contents |-> t]]
    BY DEF BeginSave
  <1>4. whole \in Contents
    BY ReadContents, CacheAssumption DEF Inv, TypeOK, Updated, Contents, Entry
  <1>5. \A m \in Networks : t[m] \in {None, whole[m]} BY <1>3, <1>4, TrimmedContents
  <1>6. whole[n] = e /\ \A m \in Networks : m # n => whole[m] = Read(file)[m]
    BY ReadContents DEF Inv, Updated, Contents
  <1>7. \A m \in Networks : UpToDate(Read(file), m) BY <1>1 DEF Single
  <1>8. \A q \in Procs : pc'[q] # "idle" => q = p /\ pc'[q] = "open"
    BY <1>1, <1>2 DEF Inv, TypeOK
  <1>9. Work(p)'
    <2>1. job'[p] = [network |-> n, entry |-> e, contents |-> t]
      BY <1>3 DEF Inv, TypeOK
    <2>2. \A m \in Networks : m # n => t[m] \in {None, latest'[m]}
      BY <1>2, <1>5, <1>6, <1>7 DEF UpToDate
    <2>3. t[n] \in {None, e} BY <1>5, <1>6
    <2>4. QED BY <1>8, <2>1, <2>2, <2>3 DEF Work, UpToDate
  <1>10. \A q \in Procs : Work(q)' BY <1>8, <1>9 DEF Work
  <1>11. Apart' BY <1>8 DEF Apart
  <1>12. \A m \in Networks : UpToDate(Read(file), m)'
    BY <1>2, <1>7 DEF UpToDate, Read
  <1>13. "damage" \notin trouble' => file' # Torn BY <1>1, <1>2 DEF Single
  <1>14. QED BY <1>10, <1>11, <1>12, <1>13

LEMMA SingleProcess == ASSUME Inv, Single, NEW p \in Procs, Process(p) PROVE Single'
  <1>1. CASE \E n \in Networks, prof \in Profiles : \E c \in Has[prof] : BeginSave(p, n, prof, c)
    BY <1>1, SingleBegin
  <1>2. CASE OpenTemporary(p) \/ FillTemporary(p) \/ Replace(p) \/ Abandon(p)
    <2> SUFFICES ASSUME "overlap" \notin trouble'
                 PROVE  /\ Apart'
                        /\ \A q \in Procs : Work(q)'
                        /\ \A m \in Networks : UpToDate(Read(file), m)'
                        /\ "damage" \notin trouble' => file' # Torn
      BY DEF Single
    <2>1. trouble' = trouble /\ pc[p] # "idle"
      BY <1>2 DEF OpenTemporary, FillTemporary, Replace, Abandon
    <2>2. /\ \A q \in Procs : q # p => pc[q] = "idle"
          /\ Work(p)
          /\ \A m \in Networks : UpToDate(Read(file), m)
          /\ "damage" \notin trouble => file # Torn
      BY <2>1 DEF Single, Apart
    <2>3. job[p] \in Job BY <2>1 DEF Inv, TypeOK
    <2>4. \A q \in Procs : q # p => pc'[q] = "idle"
      BY <1>2, <2>2 DEF OpenTemporary, FillTemporary, Replace, Abandon, Returns, Inv, TypeOK
    <2>5. Apart' BY <2>4 DEF Apart
    <2>6. \A q \in Procs : q # p => Work(q)' BY <2>4 DEF Work
    <2>7. CASE OpenTemporary(p)
      <3>1. /\ pc'[p] = "fill" /\ tmp' = Torn /\ UNCHANGED <<file, job, latest>>
        BY <2>7 DEF OpenTemporary, Target, historyVars, Inv, TypeOK
      <3>2. Work(p)' BY <2>1, <2>2, <3>1 DEF Work, UpToDate
      <3>3. QED BY <2>1, <2>2, <2>5, <2>6, <3>1, <3>2 DEF UpToDate, Read
    <2>8. CASE FillTemporary(p)
      <3>1. tmp = Torn /\ ~OthersWriting(p)
        BY <2>2, <2>8 DEF FillTemporary, Work, OthersWriting
      <3>2. /\ pc'[p] = "replace" /\ tmp' = job[p].contents /\ UNCHANGED <<file, job, latest>>
        BY <2>8, <3>1 DEF FillTemporary, historyVars, Inv, TypeOK
      <3>3. Work(p)' BY <2>1, <2>2, <3>2 DEF Work, UpToDate
      <3>4. QED BY <2>1, <2>2, <2>5, <2>6, <3>2, <3>3 DEF UpToDate, Read
    <2>9. CASE Replace(p)
      <3>1. /\ file' = job[p].contents /\ pc'[p] = "idle"
            /\ latest' = [latest EXCEPT ![job[p].network] = job[p].entry]
        BY <2>2, <2>9 DEF Replace, Returns, Work, Inv, TypeOK
      <3>2. file' \notin {Missing, Torn} BY <2>3, <3>1, SentinelAssumption DEF Job
      <3>3. Work(p)' BY <3>1 DEF Work
      <3>4. ASSUME NEW m \in Networks PROVE UpToDate(Read(file), m)'
        <4>1. Read(file)'[m] = job[p].contents[m] BY <3>1, <3>2 DEF Read
        <4>2. job[p].network \in Networks BY <2>3 DEF Job
        <4>3. CASE m = job[p].network
          <5>1. job[p].contents[m] \in {None, job[p].entry} BY <2>1, <2>2, <4>3 DEF Work
          <5>2. latest'[m] = job[p].entry BY <3>1, <4>3 DEF Inv, TypeOK
          <5>3. QED BY <4>1, <5>1, <5>2 DEF UpToDate
        <4>4. CASE m # job[p].network
          <5>1. job[p].contents[m] \in {None, latest[m]}
            BY <2>1, <2>2, <4>4 DEF Work, UpToDate
          <5>2. latest'[m] = latest[m] BY <3>1, <4>4 DEF Inv, TypeOK
          <5>3. QED BY <4>1, <5>1, <5>2 DEF UpToDate
        <4>5. QED BY <4>3, <4>4
      <3>5. QED BY <2>5, <2>6, <3>2, <3>3, <3>4
    <2>10. CASE Abandon(p)
      <3>1. pc'[p] = "idle" /\ UNCHANGED <<file, latest>>
        BY <2>10 DEF Abandon, Returns, fileVars, historyVars, Inv, TypeOK
      <3>2. Work(p)' BY <3>1 DEF Work
      <3>3. QED BY <2>1, <2>2, <2>5, <2>6, <3>1, <3>2 DEF UpToDate, Read
    <2>11. QED BY <1>2, <2>7, <2>8, <2>9, <2>10
  <1>3. QED BY <1>1, <1>2 DEF Process

LEMMA SingleStep == ASSUME Inv, Single, [Next]_vars PROVE Single'
  <1>1. CASE Saves BY <1>1, SingleProcess DEF Saves
  <1>2. CASE Damage
    BY <1>2 DEF Damage, Single, Apart, Work, UpToDate, Read, procVars
  <1>3. CASE Loads \/ ClockSetBack \/ Tick \/ UNCHANGED vars
    <2>1. /\ UNCHANGED <<file, tmp, pc, job, latest>>
          /\ trouble \subseteq trouble' /\ trouble' \subseteq trouble \cup {"clock"}
      BY <1>3 DEF Loads, Load, ClockSetBack, Tick, vars, fileVars, procVars, historyVars
    <2>2. QED BY <2>1 DEF Single, Apart, Work, UpToDate, Read
  <1>4. QED BY <1>1, <1>2, <1>3 DEF Next

LEMMA SingleAlways == Spec => []Single
  BY SingleInit, SingleStep, InvAlways, PTL DEF Spec

\* Any number of processes, killed wherever they are: the file is never torn but
\* by the disk, or by two of them that save at once.
THEOREM FileWhole == Spec => []NeverTorn
  <1>1. Single => NeverTorn BY DEF Single, NeverTorn
  <1>2. QED BY <1>1, SingleAlways, PTL

\* No entry comes back that a later save replaced, unless two saved at once.
THEOREM NothingRevived == Spec => []NoneRevived
  <1>1. Single => NoneRevived BY DEF Single, NoneRevived, UpToDate
  <1>2. QED BY <1>1, SingleAlways, PTL

-----------------------------------------------------------------------------
(* What save keeps.  The clock moves on between two saves, so the new      *)
(* entry is strictly the latest, and trimming takes the earliest.          *)

Dated(contents) == \A n \in Networks : contents[n] # None => contents[n].at < clock

KeptInv ==
    trouble \cap {"overlap", "clock"} = {} =>
        /\ Dated(Read(file))
        /\ \A p \in Procs : pc[p] # "idle" =>
              /\ Dated(job[p].contents)
              /\ job[p].contents[job[p].network] = job[p].entry
        /\ kept # None => Read(file)[kept.network] = kept.entry

LEMMA KeptInit == Init => KeptInv
  BY DEF Init, KeptInv, Dated, Read

\* Trimming leaves an entry that is later than all the others.
LEMMA TrimmedKeeps ==
    ASSUME NEW contents \in Contents, NEW t \in Trimmed(contents), NEW n \in Networks,
           contents[n] # None,
           \A m \in Networks : m # n /\ contents[m] # None => contents[m].at < contents[n].at
    PROVE  t[n] = contents[n]
  <1> DEFINE all == Present(contents)
             size == IF Cardinality(all) <= MaxEntries THEN Cardinality(all) ELSE MaxEntries
  <1>1. PICK s \in SUBSET all :
             /\ Cardinality(s) = size
             /\ \A k \in s, m \in all \ s : Newer(contents[k], contents[m])
             /\ t = [m \in Networks |-> IF m \in s THEN contents[m] ELSE None]
    BY DEF Trimmed
  <1>2. n \in all /\ all \subseteq Networks BY DEF Present
  <1>3. IsFiniteSet(all) BY <1>2, CacheAssumption, FS_Subset
  <1>4. Cardinality(all) \in Nat /\ Cardinality(all) # 0
    BY <1>2, <1>3, FS_CardinalityType, FS_EmptySet
  <1>5. size # 0 BY <1>4, CacheAssumption
  <1>6. s # {} BY <1>1, <1>5, FS_EmptySet
  <1>7. n \in s
    <2> SUFFICES ASSUME n \notin s PROVE FALSE OBVIOUS
    <2>1. PICK k \in s : TRUE BY <1>6
    <2>2. k \in Networks /\ contents[k] # None /\ k # n BY <1>1, <2>1 DEF Present
    <2>3. contents[k].at >= contents[n].at BY <1>1, <1>2, <2>1 DEF Newer
    <2>4. contents[k] \in Entry /\ contents[n] \in Entry BY <2>2 DEF Contents
    <2>5. contents[k].at < contents[n].at BY <2>2
    <2>6. contents[k].at \in Nat /\ contents[n].at \in Nat BY <2>4 DEF Entry
    <2>7. QED BY <2>3, <2>5, <2>6
  <1>8. QED BY <1>1, <1>7

LEMMA KeptBegin ==
    ASSUME Inv, KeptInv, NEW p \in Procs, NEW n \in Networks, NEW prof \in Profiles,
           NEW c \in Has[prof], BeginSave(p, n, prof, c)
    PROVE  KeptInv'
  <1> DEFINE e == [profile |-> prof, candidate |-> c, at |-> clock]
             whole == Updated(Read(file), n, e)
  <1> SUFFICES ASSUME trouble' \cap {"overlap", "clock"} = {}
               PROVE  /\ Dated(Read(file))'
                      /\ \A q \in Procs : pc'[q] # "idle" =>
                            /\ Dated(job[q].contents)'
                            /\ job'[q].contents[job'[q].network] = job'[q].entry
                      /\ kept' # None => Read(file)'[kept'.network] = kept'.entry
    BY DEF KeptInv
  <1>1. /\ trouble' = trouble /\ \A q \in Procs : pc[q] = "idle"
        /\ clock' = clock + 1 /\ clock \in Nat
        /\ pc' = [pc EXCEPT ![p] = "open"] /\ UNCHANGED <<file, tmp>> /\ kept' = None
    BY DEF BeginSave, fileVars, Inv, TypeOK
  <1>2. PICK t \in Trimmed(whole) :
             job' = [job EXCEPT ![p] = [network |-> n, entry |-> e, contents |-> t]]
    BY DEF BeginSave
  <1>3. e \in Entry /\ e # None BY <1>1, CacheAssumption, SentinelAssumption DEF Entry
  <1>4. whole \in Contents BY <1>3, ReadContents DEF Inv, Updated, Contents
  <1>5. whole[n] = e /\ \A m \in Networks : m # n => whole[m] = Read(file)[m]
    BY ReadContents DEF Inv, Updated, Contents
  <1>6. Dated(Read(file)) BY <1>1 DEF KeptInv
  <1>7. \A m \in Networks : m # n /\ whole[m] # None => whole[m].at < e.at
    BY <1>5, <1>6 DEF Dated
  <1>8. t[n] = e BY <1>2, <1>3, <1>4, <1>5, <1>7, TrimmedKeeps
  <1>9. \A m \in Networks : t[m] # None => t[m] = whole[m] /\ t[m] \in Entry
    BY <1>2, <1>4, TrimmedContents DEF Contents
  <1>10. \A m \in Networks : t[m] # None => t[m].at < clock'
    <2> SUFFICES ASSUME NEW m \in Networks, t[m] # None PROVE t[m].at < clock'
      OBVIOUS
    <2>1. t[m].at \in Nat BY <1>9 DEF Entry
    <2>2. CASE m = n BY <1>1, <1>8, <2>2
    <2>3. CASE m # n
      <3>1. t[m].at < clock BY <1>7, <1>9, <2>3
      <3>2. QED BY <1>1, <2>1, <3>1
    <2>4. QED BY <2>2, <2>3
  <1>11. Dated(Read(file))'
    <2>1. Read(file)' = Read(file) BY <1>1 DEF Read
    <2>2. \A m \in Networks : Read(file)[m] # None => Read(file)[m].at \in Nat
      BY ReadContents DEF Inv, Contents, Entry
    <2>3. QED BY <1>1, <1>6, <2>1, <2>2 DEF Dated
  <1>12. \A q \in Procs : pc'[q] # "idle" => q = p BY <1>1 DEF Inv, TypeOK
  <1>13. job'[p] = [network |-> n, entry |-> e, contents |-> t] BY <1>2 DEF Inv, TypeOK
  <1>14. QED BY <1>1, <1>8, <1>10, <1>11, <1>12, <1>13 DEF Dated

LEMMA KeptStep == ASSUME Inv, Single, KeptInv, [Next]_vars PROVE KeptInv'
  <1> SUFFICES ASSUME trouble' \cap {"overlap", "clock"} = {} PROVE KeptInv'
    BY DEF KeptInv
  <1>1. CASE \E p \in Procs, n \in Networks, prof \in Profiles :
                \E c \in Has[prof] : BeginSave(p, n, prof, c)
    BY <1>1, KeptBegin
  <1>2. ASSUME NEW p \in Procs,
               OpenTemporary(p) \/ FillTemporary(p) \/ Replace(p) \/ Abandon(p)
        PROVE  KeptInv'
    <2>1. trouble' = trouble /\ clock' = clock /\ pc[p] # "idle"
      BY <1>2 DEF OpenTemporary, FillTemporary, Replace, Abandon
    <2>2. \A q \in Procs : pc'[q] # "idle" => pc[q] # "idle" /\ job'[q] = job[q]
      BY <1>2 DEF OpenTemporary, FillTemporary, Replace, Abandon, Returns, Inv, TypeOK
    <2>3. CASE Replace(p)
      <3>1. file' = job[p].contents
            /\ kept' = [network |-> job[p].network, entry |-> job[p].entry]
        BY <2>1, <2>3 DEF Replace, Single, Work
      <3>2. job[p] \in Job BY <2>1 DEF Inv, TypeOK
      <3>3. Read(file)' = job[p].contents
        BY <3>1, <3>2, SentinelAssumption DEF Read, Job
      <3>4. QED BY <2>1, <2>2, <3>1, <3>3 DEF KeptInv, Dated
    <2>4. CASE ~Replace(p)
      <3>1. UNCHANGED <<file, kept>>
        BY <1>2, <2>4 DEF OpenTemporary, Target, FillTemporary, Abandon, fileVars, historyVars
      <3>2. QED BY <2>1, <2>2, <3>1 DEF KeptInv, Dated, Read
    <2>5. QED BY <2>3, <2>4
  <1>3. CASE Damage
    <2>1. file' = Torn /\ kept' = None /\ trouble \subseteq trouble'
          /\ UNCHANGED <<clock, pc, job>>
      BY <1>3 DEF Damage, procVars
    <2>2. QED BY <2>1 DEF KeptInv, Dated, Read
  <1>4. CASE Loads \/ Tick \/ UNCHANGED vars
    <2>1. UNCHANGED <<file, pc, job, kept, trouble>> /\ (clock' = clock \/ clock' = clock + 1)
      BY <1>4 DEF Loads, Load, Tick, vars, fileVars, procVars, historyVars
    <2>2. clock \in Nat
          /\ (\A n \in Networks : Read(file)[n] # None => Read(file)[n].at \in Nat)
          /\ (\A p \in Procs, n \in Networks : pc[p] # "idle" /\ job[p].contents[n] # None
                => job[p].contents[n].at \in Nat)
      <3>1. Read(file) \in Contents BY ReadContents DEF Inv
      <3>2. \A p \in Procs : pc[p] # "idle" => job[p].contents \in Contents
        BY DEF Inv, TypeOK, Job
      <3>3. QED BY <3>1, <3>2 DEF Inv, TypeOK, Contents, Entry
    <2>3. QED BY <2>1, <2>2 DEF KeptInv, Dated, Read
  <1>5. CASE ClockSetBack BY <1>5 DEF ClockSetBack
  <1>6. QED BY <1>1, <1>2, <1>3, <1>4, <1>5 DEF Next, Saves, Process

\* What save reported as kept is in the file.
THEOREM KeptSafe == Spec => []SavedIsKept
  <1>1. KeptInv => SavedIsKept BY DEF KeptInv, SavedIsKept
  <1>2. QED BY <1>1, KeptInit, KeptStep, InvAlways, SingleAlways, PTL DEF Spec

=============================================================================
