SPECIFICATION FieldSpec
CONSTANTS
    Rows = {"context_length", "gpu_layers_mode", "split_mode", "tensor_split", "cache_type_k", "expert_count", "temperature", "max_tokens", "draft_tokens", "typical_p", "flash_attn"}
    Layers = 2
    Trained = 256
    Typed = {"9", "-"}
    MaxTyped = 2
    MaxFieldKeys = 5
PROPERTIES TypedLayersAreTaken
CHECK_DEADLOCK FALSE
