CONSTANTS
    Pages <- MCPages
    PmdPages = 2
    Spaces <- MCSpaces
    Lkms = {"lkm4", "lkm5"}
    PageSize = 2
    Frame <- MCFrame
SPECIFICATION FairSpec
INVARIANTS
    IInv
    CountsExact
    TranslationSound
PROPERTIES
    WalkEnds
