SPECIFICATION FairSpec
CONSTANT Scopes <- Mixed
INVARIANTS NothingMissing DrawnOnce FoldTracks NameFollows
PROPERTIES ShowsConversation CatchesUp
CHECK_DEADLOCK FALSE
