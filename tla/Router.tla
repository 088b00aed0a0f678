------------------------------- MODULE Router -------------------------------
(***************************************************************************)
(* Router.Select of the gateway (services/gateway/internal/router): the    *)
(* candidates that pass every filter compete by static priority.           *)
(*                                                                         *)
(* A step is a round of the outer loop.  A candidate is known by its place *)
(* in the list, so that equal candidates at two places stay apart.         *)
(***************************************************************************)
EXTENDS Integers, Sequences

CONSTANTS
    Deployments,    \* what a candidate stands for
    Priority,       \* Candidate.Priority
    Filters,        \* the filter chain: the deployments each filter accepts
    Inputs          \* the candidate lists Select may be called with

ASSUME PriorityAssumption == Priority \in [Deployments -> Int]
ASSUME FiltersAssumption == Filters \in Seq(SUBSET Deployments)
ASSUME InputsAssumption == Inputs \subseteq Seq(Deployments)

VARIABLES
    candidates,     \* the argument of Select
    i,              \* the candidate the loop is at
    best,           \* the place of *best, 0 for nil
    pc              \* "loop", "done"

vars == <<candidates, i, best, pc>>

Init == /\ candidates \in Inputs
        /\ i = 1
        /\ best = 0
        /\ pc = "loop"

\* Mutant: the flag is set again by a later filter that accepts.
PassesTheLast(d) == Filters = << >> \/ d \in Filters[Len(Filters)]

\* The inner loop ends without a break.
Passes(d) == \A f \in 1..Len(Filters) : d \in Filters[f]

\* best == nil || c.Priority > best.Priority
Better(d) == best = 0 \/ Priority[d] > Priority[candidates[best]]

\* A filter refused the candidate: continue.
Skip == /\ pc = "loop"
        /\ i <= Len(candidates)
        /\ ~Passes(candidates[i])
        /\ i' = i + 1
        /\ UNCHANGED <<candidates, best, pc>>

Compare == /\ pc = "loop"
           /\ i <= Len(candidates)
           /\ Passes(candidates[i])
           /\ best' = IF Better(candidates[i]) THEN i ELSE best
           /\ i' = i + 1
           /\ UNCHANGED <<candidates, pc>>

\* *best, or ErrNoCandidate when best is nil.
Return == /\ pc = "loop"
          /\ i > Len(candidates)
          /\ pc' = "done"
          /\ UNCHANGED <<candidates, i, best>>

Next == Skip \/ Compare \/ Return

Spec == Init /\ [][Next]_vars

-----------------------------------------------------------------------------

TypeOK == /\ candidates \in Inputs
          /\ i \in 1..(Len(candidates) + 1)
          /\ best \in 0..Len(candidates)
          /\ pc \in {"loop", "done"}

\* What the caller asks for: no filter of the chain refuses it.
Allowed == {j \in 1..Len(candidates) :
               {f \in 1..Len(Filters) : candidates[j] \notin Filters[f]} = {}}

PriorityAt(j) == Priority[candidates[j]]

\* b is the first of the highest priority in S, or 0 when S is empty.
IsChoice(b, S) ==
    IF b = 0 THEN S = {}
    ELSE /\ b \in S
         /\ \A j \in S : PriorityAt(j) <= PriorityAt(b)
         /\ \A j \in S : PriorityAt(j) = PriorityAt(b) => b <= j

\* The contract in the comment of Select (router.go:33): the first candidate
\* of the highest static priority among those the filters leave, and
\* ErrNoCandidate exactly when they leave none.
SelectsFirstBest == pc = "done" => IsChoice(best, Allowed)

\* The loop invariant: best is the choice among the candidates passed.
LoopInv == /\ IsChoice(best, {j \in Allowed : j < i})
           /\ pc = "done" => i = Len(candidates) + 1

\* The inductive invariant of Select.
IInv == TypeOK /\ LoopInv
=============================================================================
