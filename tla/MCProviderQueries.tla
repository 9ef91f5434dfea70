--------------------------- MODULE MCProviderQueries ---------------------------
(***************************************************************************)
(* Instances of ProviderQueries for TLC: usage of two Azure subscriptions  *)
(* over three days, asked for in slices of one day, to the end of the      *)
(* third day. Two projects of Google Cloud with a recommendation each, and *)
(* an address in the first, where the second is to move to a larger machine; a resource that both services of AWS speak of, *)
(* and objects of another day and of an auto scaling group.                *)
(***************************************************************************)
EXTENDS ProviderQueries

Detail(sub, first, last) == [sub |-> sub, start |-> 3 * first, end |-> 3 * last + 1]

\* A day at both ends of the range and one between; the last one is outside.
SomeUsage == {Detail(1, 1, 1), Detail(1, 2, 2), Detail(2, 3, 3), Detail(2, 4, 4)}
OneOrAll == {{"AWS"}, {"GCP", "AZURE"}, {"AWS", "GCP", "AZURE", "ALI"}}

CONSTANTS p1, p2, global, zone

Rec(p, z, addr, c, k) ==
    [project |-> p, zone |-> z, recommender |-> 1, address |-> addr, cost |-> c, kwh |-> k]
SomeGcpRecs == {Rec(p1, zone, FALSE, 2, 3), Rec(p1, global, TRUE, 3, 0), Rec(p2, zone, FALSE, 1, -4)}

Found(r, n, t, c) == [resource |-> r, finding |-> TRUE, saves |-> TRUE, now |-> n, target |-> t, cost |-> c]
SomeObjects ==
    <<[fresh |-> TRUE, service |-> "ec2", recs |-> <<Found("i1", 5, 2, 1), Found("i2", 4, 1, 2)>>],
      [fresh |-> FALSE, service |-> "ec2", recs |-> <<Found("i4", 5, 2, 1)>>],
      [fresh |-> TRUE, service |-> "asg", recs |-> <<Found("i5", 5, 2, 1)>>]>>
SomePages ==
    <<<<[resource |-> "i1", now |-> 5, cost |-> 0,
         targets |-> <<[co2e |-> 3, cost |-> 2], [co2e |-> 4, cost |-> 4]>>]>>,
      <<[resource |-> "i3", now |-> 6, cost |-> 3, targets |-> << >>]>>>>
=============================================================================
