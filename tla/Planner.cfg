CONSTANTS
    Planners = {"p", "q"}
    Plain = {"q"}
    Guard = "p"
    Queries = {"who", "dotted"}
    Words = {"where", "get", "called", "send", "py", "m.py", "m.py::send"}
    Nodes = {1, 2, 4}
    Files = {1}
    NamedBy <- MCNamedBy
    Attrs <- MCAttrs
    Tokens <- MCTokens
    BareTail <- MCBareTail
    Stopwords = {"where"}
    Verbs = {"get", "called"}
    Shaped = {"m.py", "m.py::send"}
    WordLen <- MCWordLen
    LocateQueries = {"who", "dotted"}
    Replies <- AllReplies
    Values = {"", "function", "py", "june", "junk", "list", "m*"}
    Scalars = {"", "function", "py", "june", "junk", "m*"}
    Epoch <- MCEpoch
    Glob <- MCGlob
    MaxCache = 1
    Ks = {0, 1}
    Failure = Failure
    NoWord = NoWord
    NoNode = 0
    NoEpoch = 0

SPECIFICATION Spec

CHECK_DEADLOCK FALSE
INVARIANT TypeOK
INVARIANT LocatesWhatTheModelNamed
INVARIANT VerbsAreLastResort
INVARIANT CapIsNeverSilent
