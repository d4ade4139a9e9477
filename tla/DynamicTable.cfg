SPECIFICATION Spec
CONSTANTS
    a = a
    b = b
    x = x
    y = y
    NoName = NoName
    NoValue = NoValue
    Names <- MCNames
    Values <- MCValues
    Patterns <- MCPatterns
    NameLen <- MCNameLen
    ValueLen <- MCValueLen
    StaticTable <- MCStaticTable
    EntryOverhead = 1
    FieldMaxLen = 2
    Base = 2
    MaxIdx = 10
    DefaultMaxSize = 9
    PeerSizes = {4, 9}
    SettingsSizes = {14}
    MapMayBeFull = FALSE
    MaxAdds = 3
INVARIANTS TypeOK StoreIsWindow SizeIsWindow IndicesAgree IndicesFound NeverWrongHeader
PROPERTIES SlotsNeverReused Mirrors
