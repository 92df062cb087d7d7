\* Two files of two packs, two releases, one change on disk.
SPECIFICATION Spec
CONSTANTS
    f1 = f1
    f2 = f2
    p1 = p1
    p2 = p2
    Files = {f1, f2}
    Packs = {p1, p2}
    PackOrder <- MCPackOrder
    PackOf <- MCPackOf
    Refers <- MCRefers
    Registries = Registries
    Classification = Classification
    Resolution = Resolution
    Bumps <- MCAllParts
    MaxVersion = 2
    MaxUpgrades = 2
    MaxChanges = 1
INVARIANTS LexicalMatchesClaims OneVersionOfAFile
PROPERTIES PassReplacesWhatItPlanned PassGivesBack
