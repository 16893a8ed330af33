\* Save, crash and open at every moment of a short life of two documents.
SPECIFICATION PSpec
CONSTANTS
    dog = dog
    cat = cat
    huge = huge
    Ids = {d1, d2}
    Fields = {"body", "tag", "id"}
    Strings = {dog, cat, huge}
    Numbers = {1}
    Terms = {"dog", "cat"}
    Tokens <- MCTokens
    Long <- MCLong
    Deep <- MCDeep
    Docs <- MCDocs
    Configs <- MCConfigs
    None = None
    MaxResults = 1
    Queries = {}
INVARIANTS PersistTypeOK RefusedForAReason
PROPERTY OpenReproduces
SYMMETRY Symmetry
