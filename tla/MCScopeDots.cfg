SPECIFICATION DuplicatesSpec
CONSTANTS
    Scanners = {s1, s2}
    Files = {"a.py"}
    MaxEdits = 3
    Dispatchers = {d1, d2}
    MaxUploads = 2
    Reviewers = {r1, r2}
    Components = {"api"}
    Findings <- GoodOrWorse
    MaxReviews = 3
    ClassOf <- ClassOfGlob
    GroupPrefixes <- TablePrefixes
    FolderHints <- TableHints
    TermRules <- TableTerms
    PreferredTable <- TablePreferred
    Aliases <- TableAliases
    WordsOf <- NameWords
    ComponentOf <- ComponentOfPath
    Stripped <- StrippedPath
    ScanLimit = 2
INVARIANT ScopedConcernsAreChanged
