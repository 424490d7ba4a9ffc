SPECIFICATION FairSpec
CONSTANTS
    html = html
    import = import
    quoted = quoted
    image = image
    background = background
    Files = {html, import, quoted, image, background}
    Document = html
    Hot = {import, quoted, image, background}
    Garbled = {quoted}
    Matched <- MCMatched
    Full = Full
    Capacity = 2
    MaxWrites = 3
    MaxStops = 1
INVARIANTS
    TypeOK
    OnItsWay
PROPERTY PageCatchesUp
CHECK_DEADLOCK FALSE
