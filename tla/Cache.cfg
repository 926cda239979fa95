CONSTANTS
    x = x
    y = y
    binary = binary
    N = 2
    Content = {x, y, binary}
    Unparsable = {binary}
    LanguageOf <- TwoFiles
SPECIFICATION Spec
INVARIANTS TypeOK QuietPassIsExact CacheIsLive StrangeParseIsRaced
