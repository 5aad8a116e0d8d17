SPECIFICATION Spec
CONSTANTS
    Window = 3
    BucketWidth = 2
    Retention = 5
    Recent = 1
    MaxPoints = 4
    Readings <- MCReadings
    Intervals <- MCIntervals
    Setbacks <- MCSetbacks
    MaxPolls = 7
    RateScale = 60
CHECK_DEADLOCK FALSE
INVARIANTS
    TrendBounded
    BucketsRetained
    StatsExact
    RateNotOverstated
