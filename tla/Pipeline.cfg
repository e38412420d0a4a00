CONSTANTS
  Size = 5
  ChunkSize = 3
  Capacity = 3
SPECIFICATION PipelineSpec
INVARIANT ReportIsExact
PROPERTY PipelineEnds
\* The coroutines end.
CHECK_DEADLOCK FALSE
