CONSTANTS
    w = w
    x = x
    Typed <- OneForm
    Cwd <- Here
    Dot = Dot
    Places <- HereAndBelow
    Contents = {c1, c2}
    None = None
    Partial = Partial
    Blank = Blank
    TapeFaults = {}
    MaxEncs = 2
    MaxTape = 3
    SHAMIR_THRESHOLD = 3
    SHAMIR_TOTAL = 5
    KeyLen = 2
    Prime = 7
    Keys <- OneKey
    Coeffs <- OneDraw
    Ways = {"cli", "lto"}
SPECIFICATION Spec
INVARIANT ReadsOpenTheArchive
