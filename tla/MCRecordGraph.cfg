SPECIFICATION Spec
CONSTANTS
    None = None
    Pools <- MCPools
\* A pool may be used up.
CHECK_DEADLOCK FALSE
INVARIANTS
    OkMeansSound
    ExportJustified
PROPERTIES
    BadNewsIsFinal
    NewcomerBlamed
