SPECIFICATION TerminalSpec
CONSTANTS
    DashPorts = {8}
    ApiPort = 9
    Keys = {1}
    Own = {"a"}
    Servers = {7}
    Models = {"m", "n"}
    Profiles = {"p"}
    Profiled = {"m"}
    Values = {0, 1}
    Unset = 9
    MaxEdits = 1
    Builtins = 1
    MaxPresets = 2
    Texts = {"new"}
    Letters = {"a"}
    MaxLength = 7
    MaxProfile = 3
    MaxFaults = 1
    Limit = 2
    Total = 6
    Unrelated = {2, 3}
    MaxFailures = 1
    Params = {"flash_attn", "expert_count", "draft_tokens"}
    Signed = {"expert_count"}
    Flash = "flash_attn"
    Draft = "draft_tokens"
    Unit = 2
    Infinity = 1000
    Largest = 5
    Numbers = {0, 1, 4, 1000}
    Variants = 2
    MaxText = 1
    MaxSetupEdits = 2
    Requests = {"a", "b"}
    Window = 1
    Active = 2
    MinSpan = 1
    MaxSamples = 2
    Kept = 1
    MaxTime = 4
    Urls = {"u"}
    MaxSearchEdits = 4
    ArgModels = {"m1", "m2"}
    Templated = {"m1"}
    OnByDefault = {"cont_batching"}
    Touched = {"ubatch_size", "cache_type_v", "rope_scale", "rope_yarn_enabled", "chat_template", "auto_chat_template", "cont_batching"}
    MaxArgEdits = 2
    Rows = {"context_length", "gpu_layers_mode", "split_mode", "tensor_split", "cache_type_k", "expert_count", "temperature", "max_tokens", "draft_tokens", "typical_p", "flash_attn"}
    Layers = 2
    Trained = 256
    Typed = {"9", "-"}
    MaxTyped = 2
    MaxFieldKeys = 5
    Names = {"n1", "n2"}
    MaxItems = 3
    MaxListKeys = 6
INVARIANTS
    ServicesAreCurrent  FilesAgree NamesComeBack EscLeaves ResultsAreThePages
    EditorsAreSound TokensAreCounted ProxyIsTold RunsAsSet
PROPERTIES OthersKeepTheirs
CONSTRAINT FewAtATime
CHECK_DEADLOCK FALSE
