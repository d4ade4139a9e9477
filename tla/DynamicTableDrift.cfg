SPECIFICATION Spec
CONSTANTS
    a = a
    b = b
    x = x
    y = y
    NoName = NoName
    NoValue = NoValue
    Names <- MCNames
    Values <- MCValues
    Patterns <- MCPatterns
    NameLen <- MCNameLen
    ValueLen <- MCValueLen
    StaticTable <- MCStaticTable
    EntryOverhead = 1
    FieldMaxLen = 2
    Base = 2
    MaxIdx = 3
    DefaultMaxSize = 9
    PeerSizes = {9}
    SettingsSizes = {6}
    MapMayBeFull = TRUE
    MaxAdds = 3
INVARIANT StoreIsWindow
