SPECIFICATION Page
CONSTANTS
    DefaultSize <- MCDefault
    WideCols = 3
    Counts = {1, 2}
    Guests <- MCGuests
    Scrollback = 1
    TabWidth = 2
    Systems = {"mac", "windows", "linux"}
    UserKeys <- MCKeys
INVARIANT ScreenSound
INVARIANT RedrawExplained
INVARIANT ChunksDoNotMatter
INVARIANT TypedOnce
PROPERTY StopsExplained
PROPERTY HistoryKept
PROPERTY ReflowKeepsText
PROPERTY SelectionFollows
CHECK_DEADLOCK FALSE
