\* Two browsers and as many streams: two live senders, or one live and the
\* dead one of an earlier visit, are in the list together; a stylesheet and
\* a page, one write beyond the first versions, one failed call.
SPECIFICATION FairSpec
CONSTANTS
    Paths = {style, index}
    Stylesheets = {style}
    Browsers = {b1, b2}
    Streams = {s1, s2}
    MaxClock = 2
    MaxErrors = 1
INVARIANTS TypeOK OneSenderPerStream NoSpuriousReload
PROPERTY EveryChangeIsTold
