SPECIFICATION Spec
CONSTANTS
    None = None
    Error = Error
    Word = 65536
    Types = {"user", "team", "other"}
    Texts = {t}
    Days <- MCDays
    Hours <- MCHours
    Lengths <- MCLengths
    Common <- MCCommon
    Users = {u1, u2}
    Roles = {admin, user}
    MaxLen = 3
    MaxRotations = 2
    MaxParts = 3
    MaxIntervals = 2
INVARIANTS
    TagsCompared
    MembersCompared
    NothingDropped
    OneIdentity
    IntervalsKept
CHECK_DEADLOCK FALSE
