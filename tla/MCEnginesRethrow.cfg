SPECIFICATION Spec
CONSTANT Depths <- DepthsOf
CONSTANT Programs <- RethrowPrograms
INVARIANT FinallyRuns
CHECK_DEADLOCK FALSE
