------------------------------- MODULE Resolver -------------------------------
(***************************************************************************)
(* dpiveil.probes.resolve_verified: Discord's addresses by DNS over HTTPS, *)
(* where the system's DNS is not to be trusted.  The servers are asked one *)
(* after the other, each with Python's TLS and, only if that rejects the   *)
(* certificate chain, with curl and the certificates of Windows.  Somebody *)
(* on the path may answer in a server's place.                             *)
(***************************************************************************)
EXTENDS Integers, FiniteSets, Sequences

CONSTANTS
    Servers,        \* the sequence of servers
    Addrs,          \* IPv4 addresses, as numbers
    MaxIps,         \* max_ips
    None

ASSUME ResolverAssumption ==
    /\ Servers \in Seq(STRING) /\ Len(Servers) > 0
    /\ IsFiniteSet(Addrs) /\ Addrs \subseteq Nat
    /\ MaxIps \in Nat \ {0}

\* The certificate chain a request meets: verified by everyone, by Windows only
\* (its issuer is not among Python's), or made by somebody on the path.
Chains == {"good", "windows", "forged"}

\* What a response says: no JSON, a status of HTTP or DNS other than success, a
\* JSON value of another form than a DNS answer, or A records.
Bodies == [form : {"invalid", "unsuccessful", "odd"}] \cup [form : {"answer"}, addrs : SUBSET Addrs]

ASSUME NoneAssumption == None \notin Bodies

VARIABLES
    chain,          \* chain[i]: what requests to server i meet
    at,             \* the index of the server in hand
    pc,             \* "python", "curl", "parse", or how the call ended
    body,           \* data
    result,         \* what is returned
    asked           \* history: asked[i][tool]: how the request to server i ended

vars == <<chain, at, pc, body, result, asked>>

Ended == {"returned", "raised", "escaped"}
Tools == {"python", "curl"}

TypeOK ==
    /\ chain \in [DOMAIN Servers -> Chains]
    /\ at \in DOMAIN Servers
    /\ pc \in Tools \cup {"parse"} \cup Ended
    /\ body \in Bodies \cup {None}
    /\ result \in Seq(Addrs)
    /\ asked \in [DOMAIN Servers -> [Tools -> {"never", "certificate", "failed", "response"}]]
    /\ pc = "parse" => body # None

Init ==
    /\ chain \in [DOMAIN Servers -> Chains]
    /\ at = 1
    /\ pc = "python"
    /\ body = None
    /\ result = <<>>
    /\ asked = [i \in DOMAIN Servers |-> [t \in Tools |-> "never"]]

-----------------------------------------------------------------------------

Asked(end) == asked' = [asked EXCEPT ![at][pc] = end]

\* Mutated NextServer: a failed curl ends the search.
NextServerUnlessCurl ==
    IF at < Len(Servers) /\ pc # "curl"
      THEN at' = at + 1 /\ pc' = "python" ELSE pc' = "raised" /\ UNCHANGED at

\* Mutated NextServer: no end of the list.
NextServerPastEnd == at' = at + 1 /\ pc' = "python"

\* Mutated NextServer: the last server is asked until it answers.
NextServerOrStay == IF at < Len(Servers) THEN at' = at + 1 /\ pc' = "python" ELSE UNCHANGED <<at, pc>>

\* The loop goes on, and raises a RuntimeError after its last round.
NextServer ==
    IF at < Len(Servers) THEN at' = at + 1 /\ pc' = "python" ELSE pc' = "raised" /\ UNCHANGED at

\* The request is not answered, in time or properly: OSError, ssl.SSLError or the
\* ValueError of an HTTP status, caught by the loop and by curl's own try block.
Fail ==
    /\ pc \in {"python", "curl"}
    /\ Asked("failed")
    /\ NextServer
    /\ body' = None
    /\ UNCHANGED <<chain, result>>

Respond ==
    /\ Asked("response")
    /\ body' \in Bodies
    /\ pc' = "parse"
    /\ UNCHANGED <<chain, at, result>>

\* Python's TLS trusts the chain, and the peer answers.
PythonAnswered == pc = "python" /\ chain[at] = "good" /\ Respond

\* Mutated FallsBack: any failure of TLS leads to curl.
FallsBackAlways == TRUE

\* except ssl.SSLCertVerificationError
FallsBack == chain[at] # "good"

PythonRejects ==
    /\ pc = "python"
    /\ FallsBack
    /\ Asked(IF chain[at] = "good" THEN "failed" ELSE "certificate")
    /\ pc' = "curl"
    /\ UNCHANGED <<chain, at, body, result>>

\* Mutated CurlTrusts: --insecure.
CurlTrustsAll == TRUE

\* curl verifies with Schannel, without --insecure.
CurlTrusts == chain[at] # "forged"

CurlAnswered == pc = "curl" /\ CurlTrusts /\ Respond

\* http.client.HTTPException, or for JSON of another form AttributeError and
\* TypeError: no clause of the function names them.
Escape ==
    /\ \/ pc = "python" /\ chain[at] = "good"
       \/ pc = "parse" /\ body.form = "odd"
    /\ pc' = "escaped"
    /\ UNCHANGED <<chain, at, body, result, asked>>

\* How many of s come before a.
Rank(a, s) == Cardinality({b \in s : b < a})

\* sorted(...)[:max_ips]
Lowest(s) ==
    LET size == IF Cardinality(s) < MaxIps THEN Cardinality(s) ELSE MaxIps
    IN  [i \in 1 .. size |-> CHOOSE a \in s : Rank(a, s) = i - 1]

\* Status 0, JSON, and at least one A record.
Useful == body.form = "answer" /\ body.addrs # {}

Parse ==
    /\ pc = "parse"
    /\ body.form # "odd"
    /\ IF Useful
         THEN result' = Lowest(body.addrs) /\ pc' = "returned" /\ UNCHANGED at
         ELSE NextServer /\ UNCHANGED result
    /\ UNCHANGED <<chain, body, asked>>

Finished == pc \in Ended /\ UNCHANGED vars

Step == Fail \/ PythonAnswered \/ PythonRejects \/ CurlAnswered \/ Escape \/ Parse
Next == Step \/ Finished

Spec == Init /\ [][Next]_vars

\* Every request has its timeout.
FairSpec == Spec /\ WF_vars(Step)

-----------------------------------------------------------------------------
(* Properties.                                                             *)

\* Nobody on the path chooses the addresses the program calls verified: they come
\* from a peer whose chain somebody verified, and there is at least one of them
\* ("DoH's own TLS identity is verified even though system DNS is poisoned").
AnswerVerified == pc = "returned" => chain[at] # "forged" /\ result # <<>>

\* The function gives up only when every server has failed, and those whose chain
\* Python rejected with curl, too.
GivesUpLast ==
    pc = "raised" =>
        \A i \in DOMAIN Servers : \E t \in Tools : asked[i][t] \in {"failed", "response"}

\* "Only a Python certificate-chain verification failure triggers curl: other
\* network/TLS errors keep the original retry behavior and are not masked."
CurlOnlyAfterCertificate ==
    \A i \in DOMAIN Servers : asked[i]["curl"] # "never" => asked[i]["python"] = "certificate"

\* The same sentence, its second half: an error of the network on one server
\* leads to the next one.
EveryErrorRetried == pc # "escaped"

\* The call ends, whoever answers what.
Ends == <>(pc \in Ended)
=============================================================================
