------------------------------ MODULE Selection ------------------------------
(***************************************************************************)
(* What the automatic selection promises, whatever packets fly meanwhile:  *)
(* every candidate is tested once, the best one that works is chosen, and  *)
(* a choice is final.  A candidate remembered from an earlier session may  *)
(* be chosen before the scan has tested anything.                          *)
(***************************************************************************)
EXTENDS Naturals

CONSTANTS
    Candidates,
    Rank,           \* Rank[c]: place of c in the order (priority, name)
    NoCandidate

VARIABLES
    tested,         \* the candidates the scan is done with
    works,          \* those of them that a verified probe got through with
    chosen          \* the session's strategy

selectionVars == <<tested, works, chosen>>

Best(S) == {c \in S : \A d \in S : Rank[c] <= Rank[d]}

SelectionInit == tested = {} /\ works = {} /\ chosen = NoCandidate

\* Candidates are tested best first; none is skipped.
Test(c) ==
    /\ chosen = NoCandidate
    /\ c \in Best(Candidates \ tested)
    /\ tested' = tested \cup {c}
    /\ works' \in {works, works \cup {c}}
    /\ UNCHANGED chosen

ChooseRemembered(c) ==
    /\ chosen = NoCandidate
    /\ tested = {}
    /\ chosen' = c
    /\ UNCHANGED <<tested, works>>

ChooseBest(c) ==
    /\ chosen = NoCandidate
    /\ tested = Candidates
    /\ c \in Best(works)
    /\ chosen' = c
    /\ UNCHANGED <<tested, works>>

SelectionNext ==
    \E c \in Candidates : Test(c) \/ ChooseRemembered(c) \/ ChooseBest(c)

SelectionSpec == SelectionInit /\ [][SelectionNext]_selectionVars

=============================================================================
