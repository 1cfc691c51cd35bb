SPECIFICATION ScrollSpec
CONSTANTS
    Accounts = {a1, a2}
    Terms = {w1, w2}
    Texts = {{w1}}
    MaxPosts = 3
    MaxCalls = 4
    MaxPage = 2
    MaxScanFactor = 1
    MaxThreadDepth = 2
    MaxThreadReplies = 1
SYMMETRY AccountSymmetry
INVARIANTS
    IndexesAgree
    PagesAreExact
    CursorsSurvive
