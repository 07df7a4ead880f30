CONSTANTS
    Device = {d1}
    Text = {v1, v2}
    Capture = {k1, k2}
    Swept = {d1}
    Deletable = {d1}
    NoText = NoText
    Refusal = Refusal
    Idle = Idle
SPECIFICATION FairSpec
INVARIANTS TypeOK IncidentHasVersions OneNewest
PROPERTIES NewestConverges RefusalShows LastingChangeIsTold
