--------------------------- MODULE ResolverProofs ---------------------------
(***************************************************************************)
(* Theorems about Resolver, for any list of servers, any addresses and any *)
(* max_ips.                                                                *)
(***************************************************************************)
EXTENDS Resolver, FiniteSetTheorems, TLAPS

RequestEnds == {"never", "certificate", "failed", "response"}

\* The servers before the one in hand have failed, those after it are not asked,
\* and the one in hand has been asked with the tools that precede this step.
SearchInv ==
    /\ chain \in [DOMAIN Servers -> Chains]
    /\ asked \in [DOMAIN Servers -> [Tools -> RequestEnds]]
    /\ at \in DOMAIN Servers
    /\ pc \in Tools \cup {"parse"} \cup Ended
    /\ \A i \in DOMAIN Servers : i < at => \E t \in Tools : asked[i][t] \in {"failed", "response"}
    /\ \A i \in DOMAIN Servers : i > at => \A t \in Tools : asked[i][t] = "never"
    /\ pc = "python" => \A t \in Tools : asked[at][t] = "never"
    /\ pc = "curl" => asked[at]["python"] = "certificate" /\ asked[at]["curl"] = "never"
    /\ pc \in {"parse", "returned"} => chain[at] # "forged"
    /\ pc = "parse" => \E t \in Tools : asked[at][t] = "response"
    /\ GivesUpLast
    /\ CurlOnlyAfterCertificate

LEMMA SearchInit == Init => SearchInv
<1> SUFFICES ASSUME Init PROVE SearchInv OBVIOUS
<1>1. 1 \in DOMAIN Servers BY ResolverAssumption
<1> QED BY <1>1, ResolverAssumption
    DEF Init, SearchInv, Tools, Ended, RequestEnds, GivesUpLast, CurlOnlyAfterCertificate

\* To the next server, or to the end of the list: the one in hand must have failed.
LEMMA SearchNext ==
    ASSUME SearchInv, pc \in Tools \cup {"parse"}, NextServer, chain' = chain,
           asked' \in [DOMAIN Servers -> [Tools -> RequestEnds]],
           \A i \in DOMAIN Servers : i # at => asked'[i] = asked[i],
           \E t \in Tools : asked'[at][t] \in {"failed", "response"},
           asked'[at]["curl"] # "never" => asked'[at]["python"] = "certificate"
    PROVE  SearchInv'
<1>1. DOMAIN Servers = 1..Len(Servers) /\ Len(Servers) \in Nat BY ResolverAssumption
<1>2. \A i \in DOMAIN Servers : i <= at => \E t \in Tools : asked'[i][t] \in {"failed", "response"}
  <2> SUFFICES ASSUME NEW i \in DOMAIN Servers, i <= at
               PROVE  \E t \in Tools : asked'[i][t] \in {"failed", "response"}
    OBVIOUS
  <2>1. CASE i = at BY <2>1
  <2>2. CASE i # at
    <3>1. i < at BY <1>1, <2>2 DEF SearchInv
    <3> QED BY <2>2, <3>1 DEF SearchInv
  <2> QED BY <2>1, <2>2
<1>3. CurlOnlyAfterCertificate' BY DEF SearchInv, CurlOnlyAfterCertificate
<1>4. CASE at < Len(Servers)
  <2>1. at' = at + 1 /\ pc' = "python" BY <1>4 DEF NextServer
  <2>2. at' \in DOMAIN Servers BY <1>1, <1>4, <2>1 DEF SearchInv
  <2>3. \A i \in DOMAIN Servers : i >= at' => \A t \in Tools : asked'[i][t] = "never"
    BY <1>1, <2>1 DEF SearchInv
  <2>4. \A i \in DOMAIN Servers : i < at' => i <= at BY <1>1, <2>1 DEF SearchInv
  <2>5. GivesUpLast' BY <2>1 DEF GivesUpLast
  <2>6. \A i \in DOMAIN Servers : i > at' => i >= at' BY <1>1, <2>2
  <2>7. at' >= at' BY <1>1, <2>2
  <2> QED BY <1>2, <1>3, <2>1, <2>2, <2>3, <2>4, <2>5, <2>6, <2>7 DEF SearchInv, Tools
<1>5. CASE ~(at < Len(Servers))
  <2>1. at' = at /\ pc' = "raised" BY <1>5 DEF NextServer
  <2>2. \A i \in DOMAIN Servers : i <= at BY <1>1, <1>5 DEF SearchInv
  <2>3. GivesUpLast' BY <1>2, <2>2 DEF GivesUpLast
  <2>4. \A i \in DOMAIN Servers : i < at => i <= at BY <1>1 DEF SearchInv
  <2>5. \A i \in DOMAIN Servers : i > at => i # at BY <1>1 DEF SearchInv
  <2> QED BY <1>2, <1>3, <2>1, <2>3, <2>4, <2>5 DEF SearchInv, Tools, Ended
<1> QED BY <1>4, <1>5

LEMMA SearchStep == SearchInv /\ [Next]_vars => SearchInv'
<1> SUFFICES ASSUME SearchInv, [Next]_vars PROVE SearchInv' OBVIOUS
<1>1. DOMAIN Servers = 1..Len(Servers) /\ Len(Servers) \in Nat BY ResolverAssumption
<1>2. \A i \in DOMAIN Servers : i > at \/ i < at => i # at BY <1>1 DEF SearchInv
<1>3. CASE Fail
  <2>1. pc \in Tools /\ asked' = [asked EXCEPT ![at][pc] = "failed"] /\ NextServer /\ chain' = chain
    BY <1>3 DEF Fail, Asked, Tools
  <2>2. asked[at] \in [Tools -> RequestEnds] BY DEF SearchInv
  <2>3. asked'[at] = [asked[at] EXCEPT ![pc] = "failed"] BY <2>1 DEF SearchInv
  <2>4. asked' \in [DOMAIN Servers -> [Tools -> RequestEnds]] BY <2>1, <2>2 DEF SearchInv, RequestEnds
  <2>5. \A i \in DOMAIN Servers : i # at => asked'[i] = asked[i] BY <2>1 DEF SearchInv
  <2>6. asked'[at][pc] = "failed" BY <2>1, <2>2, <2>3
  <2>7. asked'[at]["curl"] # "never" => asked'[at]["python"] = "certificate"
    BY <2>1, <2>2, <2>3 DEF SearchInv, Tools
  <2> QED BY <2>1, <2>4, <2>5, <2>6, <2>7, SearchNext
<1>4. CASE PythonRejects
  <2>1. /\ pc = "python" /\ chain[at] # "good" /\ pc' = "curl" /\ UNCHANGED <<chain, at>>
        /\ asked' = [asked EXCEPT ![at]["python"] = "certificate"]
    BY <1>4 DEF PythonRejects, FallsBack, Asked
  <2>2. asked[at] \in [Tools -> RequestEnds] BY DEF SearchInv
  <2>3. asked'[at] = [asked[at] EXCEPT !["python"] = "certificate"] BY <2>1 DEF SearchInv
  <2>4. asked' \in [DOMAIN Servers -> [Tools -> RequestEnds]] BY <2>1, <2>2 DEF SearchInv, RequestEnds
  <2>5. \A i \in DOMAIN Servers : i # at => asked'[i] = asked[i] BY <2>1 DEF SearchInv
  <2>6. asked'[at]["python"] = "certificate" /\ asked'[at]["curl"] = "never"
    BY <2>1, <2>2, <2>3 DEF SearchInv, Tools
  <2>7. CurlOnlyAfterCertificate' BY <2>5, <2>6 DEF SearchInv, CurlOnlyAfterCertificate
  <2>8. GivesUpLast' BY <2>1 DEF GivesUpLast
  <2> QED BY <1>2, <2>1, <2>4, <2>5, <2>6, <2>7, <2>8 DEF SearchInv, Tools
<1>5. CASE PythonAnswered \/ CurlAnswered
  <2>1. /\ pc \in Tools /\ chain[at] # "forged" /\ pc' = "parse" /\ UNCHANGED <<chain, at>>
        /\ asked' = [asked EXCEPT ![at][pc] = "response"]
    BY <1>5 DEF PythonAnswered, CurlAnswered, CurlTrusts, Respond, Asked, Tools
  <2>2. asked[at] \in [Tools -> RequestEnds] BY DEF SearchInv
  <2>3. asked'[at] = [asked[at] EXCEPT ![pc] = "response"] BY <2>1 DEF SearchInv
  <2>4. asked' \in [DOMAIN Servers -> [Tools -> RequestEnds]] BY <2>1, <2>2 DEF SearchInv, RequestEnds
  <2>5. \A i \in DOMAIN Servers : i # at => asked'[i] = asked[i] BY <2>1 DEF SearchInv
  <2>6. asked'[at][pc] = "response" BY <2>1, <2>2, <2>3
  <2>7. asked'[at]["curl"] # "never" => asked'[at]["python"] = "certificate"
    BY <2>1, <2>2, <2>3 DEF SearchInv, Tools
  <2>8. CurlOnlyAfterCertificate' BY <2>5, <2>7 DEF SearchInv, CurlOnlyAfterCertificate
  <2>9. GivesUpLast' BY <2>1 DEF GivesUpLast
  <2> QED BY <1>2, <2>1, <2>4, <2>5, <2>6, <2>8, <2>9 DEF SearchInv, Tools
<1>6. CASE Escape
  <2>1. pc' = "escaped" /\ UNCHANGED <<chain, at, asked>> BY <1>6 DEF Escape
  <2> QED BY <2>1 DEF SearchInv, Ended, Tools, GivesUpLast, CurlOnlyAfterCertificate
<1>7. CASE Parse
  <2>1. pc = "parse" /\ UNCHANGED <<chain, asked>> BY <1>7 DEF Parse
  <2>2. CASE NextServer
    <3>1. asked[at]["curl"] # "never" => asked[at]["python"] = "certificate"
      BY DEF SearchInv, CurlOnlyAfterCertificate
    <3> QED BY <2>1, <2>2, <3>1, SearchNext DEF SearchInv
  <2>3. CASE pc' = "returned" /\ UNCHANGED at
    BY <2>1, <2>3 DEF SearchInv, Ended, Tools, GivesUpLast, CurlOnlyAfterCertificate
  <2> QED BY <1>7, <2>2, <2>3 DEF Parse
<1>8. CASE UNCHANGED vars
  BY <1>8 DEF vars, SearchInv, GivesUpLast, CurlOnlyAfterCertificate
<1> QED BY <1>3, <1>4, <1>5, <1>6, <1>7, <1>8 DEF Next, Step, Finished

\* resolve_verified gives up only when every server has failed it.
THEOREM GivesUpSafe == Spec => []GivesUpLast
<1>1. SearchInv => GivesUpLast BY DEF SearchInv
<1> QED BY <1>1, SearchInit, SearchStep, PTL DEF Spec

\* curl is asked only where Python rejected the certificate chain.
THEOREM CurlSafe == Spec => []CurlOnlyAfterCertificate
<1>1. SearchInv => CurlOnlyAfterCertificate BY DEF SearchInv
<1> QED BY <1>1, SearchInit, SearchStep, PTL DEF Spec

-----------------------------------------------------------------------------
(* What Lowest makes of a set of addresses.                                *)

LEMMA RankRange ==
    ASSUME NEW T, IsFiniteSet(T), T \subseteq Nat, NEW a \in T
    PROVE  Rank(a, T) \in 0 .. Cardinality(T) - 1 /\ Rank(a, T) \in Nat
<1> DEFINE before == {b \in T : b < a}
<1>1. before \in SUBSET T /\ a \notin before OBVIOUS
<1>2. IsFiniteSet(before) /\ Cardinality(before) <= Cardinality(T) BY <1>1, FS_Subset
<1>3. Cardinality(before) # Cardinality(T) BY <1>1, FS_Subset
<1>4. Cardinality(before) \in Nat /\ Cardinality(T) \in Nat BY <1>2, FS_CardinalityType
<1> QED BY <1>2, <1>3, <1>4 DEF Rank

\* The order of the addresses is that of their ranks.
LEMMA RankIncreases ==
    ASSUME NEW T, IsFiniteSet(T), T \subseteq Nat, NEW a \in T, NEW b \in T, a < b
    PROVE  Rank(a, T) < Rank(b, T)
<1> DEFINE below(c) == {d \in T : d < c}
<1>1. below(a) \in SUBSET below(b) /\ a \in below(b) /\ a \notin below(a)
  <2>1. \A d \in T : d \in Nat OBVIOUS
  <2>2. \A d \in T : d < a => d < b BY <2>1
  <2>3. ~(a < a) BY <2>1
  <2> QED BY <2>2, <2>3
<1>2. below(b) \in SUBSET T OBVIOUS
<1>3. IsFiniteSet(below(b)) BY <1>2, FS_Subset
<1>4. /\ IsFiniteSet(below(a)) /\ Cardinality(below(a)) <= Cardinality(below(b))
      /\ Cardinality(below(a)) # Cardinality(below(b))
  BY <1>1, <1>3, FS_Subset
<1>5. Cardinality(below(a)) \in Nat /\ Cardinality(below(b)) \in Nat BY <1>3, <1>4, FS_CardinalityType
<1> QED BY <1>4, <1>5 DEF Rank

\* Every rank is taken: as many addresses as ranks, and no two share one.
LEMMA Ranked ==
    ASSUME NEW T, IsFiniteSet(T), T \subseteq Nat, NEW r \in 0 .. Cardinality(T) - 1
    PROVE  \E a \in T : Rank(a, T) = r
<1> DEFINE ranks == 0 .. Cardinality(T) - 1
           f == [a \in T |-> Rank(a, T)]
<1>1. Cardinality(T) \in Nat BY FS_CardinalityType
<1>2. IsFiniteSet(ranks) /\ Cardinality(ranks) = Cardinality(T) BY <1>1, FS_Interval
<1>3. f \in [T -> ranks] BY RankRange
<1>4. \A a, b \in T : a # b => f[a] # f[b]
  <2> SUFFICES ASSUME NEW a \in T, NEW b \in T, a # b PROVE Rank(a, T) # Rank(b, T) OBVIOUS
  <2>1. Rank(a, T) \in Nat /\ Rank(b, T) \in Nat BY RankRange
  <2>2. a < b \/ b < a BY a \in Nat, b \in Nat
  <2>3. Rank(a, T) < Rank(b, T) \/ Rank(b, T) < Rank(a, T) BY <2>2, RankIncreases
  <2> QED BY <2>1, <2>3
<1>5. f \in Injection(T, ranks) BY <1>3, <1>4 DEF Injection, IsInjective
<1> HIDE DEF f, ranks
<1>6. f \in Surjection(T, ranks) BY <1>2, <1>5, FS_Injection
<1>7. r \in ranks BY DEF ranks
<1>8. \E a \in T : f[a] = r BY <1>6, <1>7 DEF Surjection
<1> QED BY <1>8 DEF f

LowestSize(T) == IF Cardinality(T) < MaxIps THEN Cardinality(T) ELSE MaxIps

LEMMA LowestRanks ==
    ASSUME NEW T \in SUBSET Addrs
    PROVE  /\ LowestSize(T) \in Nat /\ LowestSize(T) <= Cardinality(T)
           /\ DOMAIN Lowest(T) = 1 .. LowestSize(T)
           /\ \A i \in 1 .. LowestSize(T) : Lowest(T)[i] \in T /\ Rank(Lowest(T)[i], T) = i - 1
<1>1. IsFiniteSet(T) /\ T \subseteq Nat BY FS_Subset, ResolverAssumption
<1>2. Cardinality(T) \in Nat BY <1>1, FS_CardinalityType
<1>3. LowestSize(T) \in Nat /\ LowestSize(T) <= Cardinality(T)
  BY <1>2, ResolverAssumption DEF LowestSize
<1>4. Lowest(T) = [i \in 1 .. LowestSize(T) |-> CHOOSE a \in T : Rank(a, T) = i - 1]
  BY DEF Lowest, LowestSize
<1>5. ASSUME NEW i \in 1 .. LowestSize(T)
      PROVE  Lowest(T)[i] \in T /\ Rank(Lowest(T)[i], T) = i - 1
  <2>1. i - 1 \in 0 .. Cardinality(T) - 1 BY <1>2, <1>3
  <2>2. \E a \in T : Rank(a, T) = i - 1 BY <1>1, <2>1, Ranked
  <2> QED BY <1>4, <2>2
<1> QED BY <1>3, <1>4, <1>5

\* Lowest sorts, and what it leaves out is larger than what it takes.
LEMMA LowestSorted ==
    ASSUME NEW T \in SUBSET Addrs
    PROVE  /\ Lowest(T) \in Seq(T) /\ Len(Lowest(T)) = LowestSize(T)
           /\ \A i, j \in DOMAIN Lowest(T) : i < j => Lowest(T)[i] < Lowest(T)[j]
           /\ \A a \in T : \/ \E i \in DOMAIN Lowest(T) : Lowest(T)[i] = a
                           \/ LowestSize(T) = MaxIps /\ \A i \in DOMAIN Lowest(T) : Lowest(T)[i] < a
<1> DEFINE size == LowestSize(T)
           low  == Lowest(T)
<1>1. /\ size \in Nat /\ DOMAIN low = 1 .. size
      /\ \A i \in 1 .. size : low[i] \in T /\ Rank(low[i], T) = i - 1
  BY LowestRanks
<1>2. IsFiniteSet(T) /\ T \subseteq Nat BY FS_Subset, ResolverAssumption
<1>3. low = [i \in 1 .. size |-> low[i]] BY DEF Lowest, LowestSize
<1> HIDE DEF size, low
<1>4. low \in Seq(T) /\ Len(low) = size BY <1>1, <1>3
<1>5. \A a, b \in T : Rank(a, T) < Rank(b, T) => a < b
  <2> SUFFICES ASSUME NEW a \in T, NEW b \in T, Rank(a, T) < Rank(b, T) PROVE a < b OBVIOUS
  <2>1. Rank(a, T) \in Nat /\ Rank(b, T) \in Nat BY <1>2, RankRange
  <2>2. a # b BY <2>1
  <2>3. b < a => Rank(b, T) < Rank(a, T) BY <1>2, RankIncreases
  <2> QED BY <1>2, <2>1, <2>2, <2>3
<1>6. \A a, b \in T : a # b => Rank(a, T) # Rank(b, T)
  <2> SUFFICES ASSUME NEW a \in T, NEW b \in T, a # b PROVE Rank(a, T) # Rank(b, T) OBVIOUS
  <2>1. Rank(a, T) \in Nat /\ Rank(b, T) \in Nat BY <1>2, RankRange
  <2>2. a < b \/ b < a BY <1>2
  <2>3. Rank(a, T) < Rank(b, T) \/ Rank(b, T) < Rank(a, T) BY <1>2, <2>2, RankIncreases
  <2> QED BY <2>1, <2>3
<1>7. \A i, j \in DOMAIN low : i < j => low[i] < low[j] BY <1>1, <1>5
<1>8. ASSUME NEW a \in T
      PROVE  \/ \E i \in DOMAIN low : low[i] = a
             \/ size = MaxIps /\ \A i \in DOMAIN low : low[i] < a
  <2>1. Rank(a, T) \in 0 .. Cardinality(T) - 1 BY <1>2, RankRange
  <2>2. CASE Rank(a, T) < size
    <3>1. Rank(a, T) + 1 \in 1 .. size BY <1>1, <2>1, <2>2
    <3>2. low[Rank(a, T) + 1] \in T /\ Rank(low[Rank(a, T) + 1], T) = Rank(a, T) BY <1>1, <2>1, <3>1
    <3>3. low[Rank(a, T) + 1] = a BY <1>6, <3>2
    <3> QED BY <1>1, <3>1, <3>3
  <2>3. CASE ~(Rank(a, T) < size)
    <3>1. \A i \in 1 .. size : Rank(low[i], T) < Rank(a, T) BY <1>1, <2>1, <2>3
    <3>2. size = MaxIps BY <1>1, <1>2, <2>1, <2>3, FS_CardinalityType DEF size, LowestSize
    <3> QED BY <1>1, <1>5, <3>1, <3>2
  <2> QED BY <2>2, <2>3
<1> QED BY <1>4, <1>7, <1>8 DEF low, size

LEMMA LowestSome ==
    ASSUME NEW T \in SUBSET Addrs, T # {}
    PROVE  Lowest(T) # <<>>
<1>1. IsFiniteSet(T) BY FS_Subset, ResolverAssumption
<1>2. Cardinality(T) \in Nat /\ Cardinality(T) # 0 BY <1>1, FS_CardinalityType, FS_EmptySet
<1>3. LowestSize(T) > 0 BY <1>2, ResolverAssumption DEF LowestSize
<1>4. Len(Lowest(T)) = LowestSize(T) /\ Lowest(T) \in Seq(T) BY LowestSorted
<1> QED BY <1>3, <1>4

-----------------------------------------------------------------------------
(* The answer.                                                             *)

\* What is returned is what the last body says.
AnswerInv ==
    /\ body \in Bodies \cup {None}
    /\ result \in Seq(Addrs)
    /\ pc = "parse" => body # None /\ body \in Bodies
    /\ pc = "returned" => /\ Useful /\ body.addrs \in SUBSET Addrs
                          /\ result = Lowest(body.addrs)

LEMMA AnswerInit == Init => AnswerInv
BY DEF Init, AnswerInv

LEMMA AnswerStep == SearchInv /\ AnswerInv /\ [Next]_vars => AnswerInv'
<1> SUFFICES ASSUME SearchInv, AnswerInv, [Next]_vars PROVE AnswerInv' OBVIOUS
<1>1. CASE Fail BY <1>1 DEF Fail, NextServer, AnswerInv
<1>2. CASE PythonRejects BY <1>2 DEF PythonRejects, AnswerInv
<1>3. CASE PythonAnswered \/ CurlAnswered
  <2>1. body' \in Bodies /\ pc' = "parse" /\ result' = result
    BY <1>3 DEF PythonAnswered, CurlAnswered, Respond
  <2>2. body' # None BY <2>1, NoneAssumption
  <2> QED BY <2>1, <2>2 DEF AnswerInv
<1>4. CASE Escape BY <1>4 DEF Escape, AnswerInv
<1>5. CASE Parse
  <2>1. CASE Useful /\ result' = Lowest(body.addrs) /\ pc' = "returned" /\ body' = body
    <3>1. body \in Bodies /\ body.form = "answer" BY <1>5, <2>1 DEF Parse, AnswerInv, Useful
    <3>2. body.addrs \in SUBSET Addrs BY <3>1 DEF Bodies
    <3>3. Lowest(body.addrs) \in Seq(body.addrs) BY <3>2, LowestSorted
    <3>4. Lowest(body.addrs) \in Seq(Addrs) BY <3>2, <3>3
    <3> QED BY <2>1, <3>1, <3>2, <3>4 DEF AnswerInv, Useful
  <2>2. CASE NextServer /\ UNCHANGED result /\ body' = body
    BY <2>2 DEF NextServer, AnswerInv
  <2> QED BY <1>5, <2>1, <2>2 DEF Parse
<1>6. CASE UNCHANGED vars BY <1>6 DEF vars, AnswerInv, Useful
<1> QED BY <1>1, <1>2, <1>3, <1>4, <1>5, <1>6 DEF Next, Step, Finished

\* Every variable keeps its type: an answer is a sequence of addresses, and a body is
\* in hand when one is parsed.
THEOREM TypeCorrect == Spec => []TypeOK
<1>1. SearchInv /\ AnswerInv => TypeOK BY DEF SearchInv, AnswerInv, TypeOK, RequestEnds
<1> QED BY <1>1, SearchInit, SearchStep, AnswerInit, AnswerStep, PTL DEF Spec

\* What is returned comes from a peer whose chain Python or Windows verified, and is
\* not empty.
THEOREM AnswerSafe == Spec => []AnswerVerified
<1>1. SearchInv /\ AnswerInv => AnswerVerified
  BY LowestSome DEF SearchInv, AnswerInv, AnswerVerified, Useful
<1> QED BY <1>1, SearchInit, SearchStep, AnswerInit, AnswerStep, PTL DEF Spec

\* Two calls that hear the same records return the same addresses in the same order:
\* the lowest of the last body, ascending.
AnswerSorted ==
    pc = "returned" =>
        /\ \A i, j \in DOMAIN result : i < j => result[i] < result[j]
        /\ \A i \in DOMAIN result : result[i] \in body.addrs
        /\ \A a \in body.addrs : \/ \E i \in DOMAIN result : result[i] = a
                                 \/ Len(result) = MaxIps /\ \A i \in DOMAIN result : result[i] < a

\* sorted(...)[:max_ips]: what is returned is in order, and no lower address is left out.
THEOREM AnswerOrdered == Spec => []AnswerSorted
<1>1. AnswerInv => AnswerSorted
  <2> SUFFICES ASSUME AnswerInv, pc = "returned" PROVE AnswerSorted BY DEF AnswerSorted
  <2> DEFINE T == body.addrs
  <2>1. T \in SUBSET Addrs /\ result = Lowest(T) BY DEF AnswerInv
  <2> QED BY <2>1, LowestSorted DEF AnswerSorted
<1> QED BY <1>1, SearchInit, SearchStep, AnswerInit, AnswerStep, PTL DEF Spec

-----------------------------------------------------------------------------
(* The search makes progress.                                              *)

\* A bound on the steps that are left: three for each server not yet in hand, and
\* what is left of the one in hand.
StepsLeft ==
    3 * (Len(Servers) - at)
    + (CASE pc = "python" -> 3 [] pc = "curl" -> 2 [] pc = "parse" -> 1 [] OTHER -> 0)

Advances == StepsLeft' \in Nat /\ (StepsLeft' < StepsLeft \/ pc' \in Ended)

LEMMA AdvancesNext ==
    ASSUME at \in 1 .. Len(Servers), Len(Servers) \in Nat, NextServer,
           pc \in {"python", "curl", "parse"}
    PROVE  Advances
<1>1. StepsLeft \in {3 * (Len(Servers) - at) + k : k \in 1 .. 3} BY DEF StepsLeft
<1>2. CASE at < Len(Servers)
  <2>1. at' = at + 1 /\ pc' = "python" BY <1>2 DEF NextServer
  <2>2. StepsLeft' = 3 * (Len(Servers) - (at + 1)) + 3 BY <2>1 DEF StepsLeft
  <2>3. PICK k \in 1 .. 3 : StepsLeft = 3 * (Len(Servers) - at) + k BY <1>1
  <2>4. StepsLeft' = 3 * (Len(Servers) - at) /\ StepsLeft' \in Nat BY <1>2, <2>2
  <2>5. StepsLeft' < StepsLeft BY <2>3, <2>4
  <2> QED BY <2>4, <2>5 DEF Advances
<1>3. CASE ~(at < Len(Servers))
  <2>1. pc' = "raised" /\ at' = at BY <1>3 DEF NextServer
  <2>2. StepsLeft' = 3 * (Len(Servers) - at) + 0 BY <2>1 DEF StepsLeft
  <2> QED BY <2>1, <2>2 DEF Advances, Ended
<1> QED BY <1>2, <1>3

LEMMA AdvancesStep == SearchInv /\ [Next]_vars => [Advances]_vars
<1> SUFFICES ASSUME SearchInv, [Next]_vars PROVE [Advances]_vars OBVIOUS
<1>1. Len(Servers) \in Nat /\ at \in 1 .. Len(Servers) BY ResolverAssumption DEF SearchInv
<1>2. CASE Fail BY <1>1, <1>2, AdvancesNext DEF Fail
<1>3. CASE PythonRejects
  <2>1. pc = "python" /\ pc' = "curl" /\ at' = at BY <1>3 DEF PythonRejects
  <2>2. StepsLeft = 3 * (Len(Servers) - at) + 3 BY <2>1 DEF StepsLeft
  <2>3. StepsLeft' = 3 * (Len(Servers) - at) + 2 BY <2>1 DEF StepsLeft
  <2> QED BY <1>1, <2>2, <2>3 DEF Advances
<1>4. CASE PythonAnswered \/ CurlAnswered
  <2>1. pc \in {"python", "curl"} /\ pc' = "parse" /\ at' = at
    BY <1>4 DEF PythonAnswered, CurlAnswered, Respond
  <2>2. StepsLeft = 3 * (Len(Servers) - at) + 3 \/ StepsLeft = 3 * (Len(Servers) - at) + 2
    BY <2>1 DEF StepsLeft
  <2>3. StepsLeft' = 3 * (Len(Servers) - at) + 1 BY <2>1 DEF StepsLeft
  <2> QED BY <1>1, <2>2, <2>3 DEF Advances
<1>5. CASE Escape
  <2>1. pc' = "escaped" /\ at' = at BY <1>5 DEF Escape
  <2>2. StepsLeft' = 3 * (Len(Servers) - at) + 0 BY <2>1 DEF StepsLeft
  <2> QED BY <1>1, <2>1, <2>2 DEF Advances, Ended
<1>6. CASE Parse
  <2>1. CASE NextServer BY <1>1, <1>6, <2>1, AdvancesNext DEF Parse
  <2>2. CASE pc' = "returned" /\ at' = at
    <3>1. StepsLeft' = 3 * (Len(Servers) - at) + 0 BY <2>2 DEF StepsLeft
    <3> QED BY <1>1, <2>2, <3>1 DEF Advances, Ended
  <2> QED BY <1>6, <2>1, <2>2 DEF Parse
<1>7. CASE UNCHANGED vars BY <1>7
<1> QED BY <1>2, <1>3, <1>4, <1>5, <1>6, <1>7 DEF Next, Step, Finished

\* Every step of the search ends the call or makes StepsLeft smaller, which is a number:
\* whatever is answered, a call makes at most 3 * Len(Servers) steps, the loop of
\* resolve_verified and its fallback to curl together.
THEOREM SearchAdvances == Spec => [][Advances]_vars
<1> QED BY SearchInit, SearchStep, AdvancesStep, PTL DEF Spec

=============================================================================
