SPECIFICATION Spec
CONSTANT Depths <- DepthsOf
CONSTANT Programs <- PlainPrograms
INVARIANTS EnginesAgree HandlersLive DefersAligned RunsVerifiedCode
PROPERTY Ends
CHECK_DEADLOCK FALSE
