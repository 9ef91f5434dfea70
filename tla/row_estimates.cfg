\* Two requests side by side or one after the other, at one provider or two.
CONSTANTS
  Requests = {r1, r2}
  Providers = {"AWS", "GCP", "AZURE"}
  BillRows <- SomeRows
  MaxRows = 2
  Zones = {"z"}
  Intensities = {"i1", "i2"}
SPECIFICATION Spec
INVARIANTS TypeOK CostConserved TotalsAddUp FirstAnswerByBill RepeatedAnswerSame OneIntensity
SYMMETRY Symmetry
CHECK_DEADLOCK FALSE
