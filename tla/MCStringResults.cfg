SPECIFICATION Spec
CONSTANTS
  Class = {"A", "B"}
  Inst = {"i"}
  Tidy = {"clock"}
  Sloppy = {"strlen"}
  StackMax = 9
  FramesMax = 3
  MaxArgs = 2
  MaxCalls = 3
  Wants = {0, 1, 2}
  Avoid = {"native_count", "class_count", "index_args", "tidy_error", "foreach_limit"}
INVARIANTS Delivered
CHECK_DEADLOCK FALSE
