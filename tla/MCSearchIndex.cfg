\* Two ids, three fields, reconfiguration, failing adds.
SPECIFICATION Spec
CONSTANTS
    dog = dog
    cat = cat
    dashes = dashes
    huge = huge
    Ids = {d1, d2}
    Fields = {"body", "tag", "dose"}
    Strings = {dog, cat, dashes, huge}
    Numbers = {1, 2}
    Terms = {"dog", "cat"}
    Tokens <- MCTokens
    Long <- MCLong
    Docs <- MCDocs
    Configs <- MCConfigs
    None = None
    MaxResults = 1
    Queries <- MCQueries
INVARIANTS TypeOK EnteredOnce LengthsMatchPostings FiltersMissNothing TextIndexIsFresh
SYMMETRY Symmetry
