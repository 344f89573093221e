\* Every algorithm on every input of its set.
SPECIFICATION Spec
CONSTANTS
    UnknownWords <- MCUnknownWords
    Versions <- MCVersions
    Segments <- MCSegments
    Candidates <- MCCandidates
    Releases <- MCReleases
    Declarations <- MCDeclarations
    TreeEntries <- MCTreeEntries
    Licenses <- MCLicenses
    JavaLines <- MCJavaLines
    Mappings <- MCMappings
    Symbols <- MCSymbols
INVARIANTS
    VersionOrder
    RangesAreIntervals
    UnattendedStepsUpgrade
    UnattendedRouteIsSafe
    PomEditsTakeEffect
    MixedTreeIsCaught
    LicensesFailClosed
    
    RewriteSettles
    CandidatesAreTrustworthy
CHECK_DEADLOCK FALSE
