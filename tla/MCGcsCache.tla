------------------------------ MODULE MCGcsCache ------------------------------
(***************************************************************************)
(* Instances of GcsCache for TLC.                                          *)
(***************************************************************************)
EXTENDS GcsCache

CONSTANTS r1, r2, r3

Days == [g \in {"day"} |-> 1]

\* The size of an entry does not matter to an object replaced as a whole.
AnySize == [v \in Versions |-> 1]

AnyUsage == [Groupings -> [Dates -> {0, 1}]]

PlainRequests ==
    {q \in [grp: Groupings, from: Dates, to: Dates, mid: {FALSE}, ignoreCache: {FALSE}] :
        q.from <= q.to}

IgnoringRequests == {[q EXCEPT !.ignoreCache = TRUE] : q \in PlainRequests}

EveryShape == PlainRequests \cup {[q EXCEPT !.mid = TRUE] : q \in PlainRequests} \cup IgnoringRequests

RequestSymmetry == Permutations(Requests)
=============================================================================
