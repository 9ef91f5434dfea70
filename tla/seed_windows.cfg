\* Every grouping, split and unsplit, twice, on hosts in three time zones.
CONSTANTS
  MonthStarts <- WinterAndSpring
  FirstWeekday = 3
  Groupings = {"day", "week", "month"}
  FirstDays <- SomeDays
  LastDays <- SomeDays
  PerRequest = {0, 1, 2}
  Zones <- SomeZones
  MaxSeedings = 2
SPECIFICATION Spec
INVARIANTS TypeOK NoDayTwice DaysAndMonthsWhole AlignedRangeCovered MonthsBilledOnce
CHECK_DEADLOCK FALSE
