------------------------------ MODULE Recency ------------------------------
(***************************************************************************)
(* The recency list behind both bounded maps of the server: a Python dict  *)
(* whose insertion order is its recency order.  Touching a key pops it and *)
(* inserts it again at the end; then keys are popped from the front until  *)
(* the map is within its bound (InMemorySessionStore._touch and            *)
(* PlanSkillCache.upsert).  The list holds the keys of the map, oldest     *)
(* first.  Every definition is a function, so that theorems can be proved  *)
(* about it.                                                               *)
(***************************************************************************)
EXTENDS Naturals, Sequences

Listed(q) == {q[i] : i \in DOMAIN q}

\* dict.pop(x, None): the keys that are left keep their order.
Without(q, x) ==
    IF x \notin Listed(q) THEN q
    ELSE LET k == CHOOSE i \in DOMAIN q : q[i] = x
         IN  [i \in 1..(Len(q) - 1) |-> IF i < k THEN q[i] ELSE q[i + 1]]

\* while len(d) > bound: d.pop(next(iter(d)))
Newest(q, bound) ==
    IF Len(q) <= bound THEN q
    ELSE [i \in 1..bound |-> q[i + (Len(q) - bound)]]

\* Mutant: nothing is evicted.
TouchedUnbounded(q, x, bound) == Append(Without(q, x), x)

Touched(q, x, bound) == Newest(Append(Without(q, x), x), bound)

NoRepeats(q) == \A i, j \in DOMAIN q : q[i] = q[j] => i = j

\* What a recency list of a map bounded by "bound" always is.
RecencyList(q, bound) == Len(q) <= bound /\ NoRepeats(q)
=============================================================================
