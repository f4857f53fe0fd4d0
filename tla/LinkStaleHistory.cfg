SPECIFICATION Spec
CONSTANT Scopes <- StaleHistory
INVARIANT HistoryComes
CHECK_DEADLOCK FALSE
