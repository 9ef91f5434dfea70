------------------------------ MODULE CacheFile ------------------------------
(***************************************************************************)
(* The JSON file of the LOCAL and GCS cache modes (common/helpers.ts): one *)
(* estimate per line, written over from the start of the file without      *)
(* truncating it.  An estimate occupies SizeOf cells, so that what is left *)
(* of an older, longer content can begin in the middle of an estimate.     *)
(* The line '[]' of a fresh file is left out: it parses to an entry dated  *)
(* "now", sorts last and lies outside every request's window.              *)
(***************************************************************************)
EXTENDS Integers, FiniteSets, SequencesExt

CONSTANTS
    PeriodDays,   \* PeriodDays[g]: the length of the periods of grouping g
    SizeOf        \* SizeOf[v]: the cells an estimate of content v occupies

\* Entries are records of a grouping, the index of a period and a content.
Timestamp(e) == (e.date - 1) * PeriodDays[e.grp] + 1

-----------------------------------------------------------------------------
\* The members of a finite set from the first to the last, by a set of pairs that orders them.
Listing(P, order) ==
    [k \in 1 .. Cardinality(P) |->
        CHOOSE i \in P : Cardinality({j \in P : <<j, i>> \in order}) = k]

\* The elements of a list at some of its positions, in the order of the list.
Kept(s, P) ==
    LET at == Listing(P, {p \in P \X P : p[1] <= p[2]}) IN [k \in DOMAIN at |-> s[at[k]]]

-----------------------------------------------------------------------------
(* mergeEstimates goes through both lists at once: i and j are the next     *)
(* positions in them, merged what has been taken so far.                    *)

\* Mutant: the entries after the shorter list are left out.
MergeTurnDroppingTail(one, two, s) ==
    LET both == s.i <= Len(one) /\ s.j <= Len(two)
        first == both /\ Timestamp(one[s.i]) <= Timestamp(two[s.j])
        second == both /\ Timestamp(two[s.j]) <= Timestamp(one[s.i])
    IN [i |-> IF first THEN s.i + 1 ELSE s.i,
        j |-> IF second THEN s.j + 1 ELSE s.j,
        merged |-> s.merged \o (IF first THEN <<one[s.i]>> ELSE IF second THEN <<two[s.j]>> ELSE <<>>)]

\* Mutant: of two entries of a date both are kept.
MergeTurnKeepingBoth(one, two, s) ==
    LET first == s.i <= Len(one)
                    /\ (s.j <= Len(two) => Timestamp(one[s.i]) <= Timestamp(two[s.j]))
        second == ~first /\ s.j <= Len(two)
    IN [i |-> IF first THEN s.i + 1 ELSE s.i,
        j |-> IF second THEN s.j + 1 ELSE s.j,
        merged |-> s.merged \o (IF first THEN <<one[s.i]>> ELSE IF second THEN <<two[s.j]>> ELSE <<>>)]

\* Of two entries of a date the one of the first list stays.
MergeTurn(one, two, s) ==
    LET first == s.i <= Len(one)
                    /\ (s.j <= Len(two) => Timestamp(one[s.i]) <= Timestamp(two[s.j]))
        second == s.j <= Len(two)
                    /\ (s.i <= Len(one) => Timestamp(two[s.j]) <= Timestamp(one[s.i]))
    IN [i |-> IF first THEN s.i + 1 ELSE s.i,
        j |-> IF second THEN s.j + 1 ELSE s.j,
        merged |-> s.merged \o (IF first THEN <<one[s.i]>> ELSE IF second THEN <<two[s.j]>> ELSE <<>>)]

MergeStart == [i |-> 1, j |-> 1, merged |-> <<>>]

\* Every turn but those after the last entry takes an entry of either list, or of both.
MergeEstimates(one, two) ==
    LET turn[n \in 0 .. Len(one) + Len(two)] ==
            IF n = 0 THEN MergeStart ELSE MergeTurn(one, two, turn[n - 1])
    IN turn[Len(one) + Len(two)].merged

-----------------------------------------------------------------------------
\* The cells writeToFile writes for a list of entries.
Cells(entries) ==
    FlattenSeq([i \in DOMAIN entries |->
                   [p \in 1 .. SizeOf[entries[i].ver] |-> [entry |-> entries[i], part |-> p]]])

\* The part of a sequence from position a to position b, as far as it goes.
Slice(s, a, b) == SubSeq(s, a, IF b < Len(s) THEN b ELSE Len(s))

(* The file after cells have been written over it from a position on; what  *)
(* lies between the end of a file emptied meanwhile and that position is a  *)
(* hole, no part of any entry.                                              *)
Overlay(file, position, cells) ==
    LET hole == [i \in 1 .. position - Len(file) |-> [entry |-> cells[1].entry, part |-> 0]]
    IN Slice(file, 1, position) \o hole \o cells
           \o Slice(file, position + Len(cells) + 1, Len(file))

IsLastPart(c) == c.part = SizeOf[c.entry.ver]

\* Every line is a whole estimate.
Parses(cells) ==
    /\ cells # <<>> => cells[1].part = 1 /\ IsLastPart(Last(cells))
    /\ \A i \in 1 .. Len(cells) - 1 :
          IF IsLastPart(cells[i])
          THEN cells[i + 1].part = 1
          ELSE cells[i + 1] = [cells[i] EXCEPT !.part = @ + 1]

EntriesOf(cells) ==
    LET heads == Kept(cells, {i \in DOMAIN cells : cells[i].part = 1})
    IN [i \in DOMAIN heads |-> heads[i].entry]

\* getCachedData: one line that does not parse rejects the whole file.
CachedData(cells) == IF Parses(cells) THEN EntriesOf(cells) ELSE <<>>
=============================================================================
