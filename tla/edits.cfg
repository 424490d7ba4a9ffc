SPECIFICATION Spec
CONSTANTS
    Chars <- MCChars
    Units <- MCUnits
    Octets <- MCOctets
    Newline = "nl"
    BodyEnd <- MCBody
    HtmlEnd = {"</html>"}
    Script = "script"
    Starts <- MCStarts
    Inserts <- MCInserts
    MaxLength = 3
    MaxPending = 2
INVARIANTS
    CopiesAgree
    NeverPanics
    ScriptIsPlaced
CHECK_DEADLOCK FALSE
