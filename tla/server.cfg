\* Three connections, two of the pool; the process may stop, and then does nothing.
SPECIFICATION ServerFairSpec
CONSTANTS
    Conn = {c1, c2, c3}
    MaxOpen = 2
    MaxPanics = 2
CHECK_DEADLOCK FALSE
INVARIANTS CutOnlyWhenForced GaugesDriftByPanics
PROPERTIES SignalEnds TransactionsRun
