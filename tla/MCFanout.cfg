SPECIFICATION Spec
CONSTANTS
    MaxPlan = 4
    SinkLimit = 3
    Chunks = 2
    Sinks <- MCSinks
INVARIANT PublicationIsPrefix
INVARIANT StatusMatchesDelivery
INVARIANT NothingLeftPending
INVARIANT ReportNamesTheSink
PROPERTY SignalDecidesStatus
PROPERTY SignalStopsPublication
