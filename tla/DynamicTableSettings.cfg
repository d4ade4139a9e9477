SPECIFICATION Spec
CONSTANTS
    a = a
    b = b
    x = x
    y = y
    NoName = NoName
    NoValue = NoValue
    Names <- MCNames
    Values <- MCValues
    Patterns <- MCPatterns
    NameLen <- MCNameLen
    ValueLen <- MCValueLen
    StaticTable <- MCStaticTable
    EntryOverhead = 1
    FieldMaxLen = 2
    Base = 2
    MaxIdx = 10
    DefaultMaxSize = 10
    PeerSizes = {4, 10}
    SettingsSizes = {6}
    MapMayBeFull = FALSE
    MaxAdds = 4
INVARIANT IndicesAgree
