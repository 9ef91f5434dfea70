----------------------------- MODULE MCLocalCache -----------------------------
(***************************************************************************)
(* Instances of LocalCache for TLC.                                        *)
(***************************************************************************)
EXTENDS LocalCache

CONSTANTS r1, r2, r3

Days == [g \in {"day"} |-> 1]

\* Empty estimates are short; a revised one may be longer or shorter again.
GrowThenShrink == [v \in Versions |-> IF v = 1 THEN 2 ELSE 1]

FullUsage == [Groupings -> [Dates -> {1}]]

PlainRequests ==
    {q \in [grp: Groupings, from: Dates, to: Dates, mid: {FALSE}, ignoreCache: {FALSE}] :
        q.from <= q.to}

IgnoringRequests == {[q EXCEPT !.ignoreCache = TRUE] : q \in PlainRequests}

PlainAndIgnoring == PlainRequests \cup IgnoringRequests

\* Usage everywhere, with a gap, and at the ends of the calendar only.
SomeUsage == {[g \in Groupings |-> [d \in Dates |-> IF d \in used THEN 1 ELSE 0]] :
                  used \in {Dates, {1}, {MaxDate}, {1, MaxDate}}}

\* Every window, one with its start date inside a period, one that ignores the cache.
EveryShape ==
    LET Window(a, b) == CHOOSE q \in PlainRequests : q.from = a /\ q.to = b
    IN  PlainRequests \cup {[Window(1, 2) EXCEPT !.mid = TRUE],
                           [Window(1, MaxDate) EXCEPT !.ignoreCache = TRUE]}

RequestSymmetry == Permutations(Requests)
=============================================================================
