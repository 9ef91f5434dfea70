----------------------------- MODULE MCRowEstimates -----------------------------
(***************************************************************************)
(* Instances of RowEstimates for TLC.                                      *)
(***************************************************************************)
EXTENDS RowEstimates, TLC

BillRow(kind, unit, service, zone, kwh, usage, cost) ==
    [kind |-> kind, unit |-> unit, day |-> 1, service |-> service, zone |-> zone,
     kwh |-> kwh, memory |-> IF unit = "hours" /\ kwh < 3 THEN kwh ELSE 0,
     embodied |-> IF kwh = 2 THEN 1 ELSE 0, usage |-> usage, cost |-> cost]

\* Two known rows of one unit with different averages, one free of charge, and unknown ones.
AwsRows == {BillRow("compute", "hours", "A", "z", 2, 5, 1), BillRow("compute", "hours", "B", NoZone, 3, 5, 2),
            BillRow("noProcessor", "hours", "A", NoZone, 9, 5, 1),
            BillRow("unknown", "hours", "A", "z", 9, 5, 3), BillRow("compute", "seconds", "A", NoZone, 4, 2, 1)}
GcpRows == {BillRow("compute", "seconds", "A", "z", 2, 0, 1), BillRow("compute", "seconds", "A", "z", 2, 3, 2),
            BillRow("other", "seconds", "A", "z", 9, 2, 1), BillRow("unsupported", "gb", "B", NoZone, 9, 5, 4)}
AzureRows == {BillRow("compute", "hours", "A", "z", 2, 3, 1), BillRow("memory", "hours", "B", NoZone, 1, 2, 1),
              BillRow("unknown", "hours", "B", NoZone, 9, 2, 1), BillRow("memory", "memory", "A", NoZone, 1, 1, 2)}
SomeRows == [p \in {"AWS", "GCP", "AZURE"} |->
               CASE p = "AWS" -> AwsRows [] p = "GCP" -> GcpRows [] p = "AZURE" -> AzureRows]
Symmetry == Permutations(Requests)
=============================================================================
