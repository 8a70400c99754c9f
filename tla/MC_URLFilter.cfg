CONSTANTS
    w1 = w1
    w2 = w2
    uUser = uUser
    uJpg = uJpg
    uPlain = uPlain
    rUser = rUser
    rBad = rBad
    NoURL = NoURL
    NoRegex = NoRegex
    Workers <- MCWorkers
    URLs <- MCURLs
    Regexes = {rUser}
    BadRegexes = {}
    RegexMatches <- MCRegexMatches
    URLExt <- MCURLExt
    Configs <- PassConfigs
    InitConfig <- Overlapping
    CacheCap = 2
    CacheTTL = 2
    MaxTime = 4
SYMMETRY WorkerSymmetry
SPECIFICATION Spec
INVARIANTS
    TypeOK
    ResultIsFirstMatch
