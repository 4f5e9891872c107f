SPECIFICATION FairSpec
CONSTANTS
    Releases = {r1, r2}
    First = r1
    None = None
    MaxFaults = 2
INVARIANTS TypeOK PointerTraced ReleasesKept
PROPERTIES SuccessIsWitnessed 
