SPECIFICATION Spec
CONSTANTS
    MaxDirs = 6
    MaxFiles = 1
INVARIANTS TypeOK PathsAgree ListingIsWhole
