SPECIFICATION ArgSpec
CONSTANTS
    ArgModels = {"m1", "m2"}
    Templated = {"m1"}
    OnByDefault = {"cont_batching"}
    Touched = {"batch_size", "ubatch_size", "cache_type_k", "cache_type_v", "keep", "mirostat", "top_k"}
    MaxArgEdits = 2
INVARIANTS RouterModelStarts
CHECK_DEADLOCK FALSE
