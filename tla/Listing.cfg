SPECIFICATION ListSpec
CONSTANTS
    Entries <- MCEntries
    Dir <- MCDir
    Cursors = {c1, c2, c3, c4}
    NoCursor = NoCursor
    MaxPages = 4
INVARIANT CeilingIsExact
INVARIANT NoPageTwice
INVARIANT ListsExactlyChildren
CHECK_DEADLOCK FALSE
