SPECIFICATION HSpec
CONSTANTS
    Caller = {w1, w2}
    Resource = {a}
    Skill = {s1, s2}
    Window = 3
    MaxStall = 1
    MaxTime = 8
INVARIANTS HTypeOK RecordTracksGrants
PROPERTY StartsSpaced
