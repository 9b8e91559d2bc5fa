CONSTANTS
    NoName = NoName
    Paths <- MCPaths
    GlobalFile = "config.toml"
    Examples = {"item_a.example.toml"}
    Stem <- MCStem
    Names <- MCNames
    Docs <- MCDocs

SPECIFICATION Spec
\* load_merged_config returns or raises: the merge has nothing after that
CHECK_DEADLOCK FALSE

INVARIANT LoadsWhatSpecAccepts
