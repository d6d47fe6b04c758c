CONSTANTS
    c1 = c1
    c2 = c2
    app = app
    web = web
    api = api
    db = db
    amd = amd
    arm = arm
    fits = fits
    other = other
    private = private
    None = None
    Blank = Blank
    Causes <- MCCauses
    Names <- MCNames
    Images <- MCImages
    Archs <- MCArchs
    AlertNames <- MCAlertNames
    Cases <- MCCases
    Books <- MCBooks
    MaxIter = 3
    MaxEvents = 2
    PageLimit = 3
SPECIFICATION CaseFairSpec
INVARIANTS
    NoCauseDropped
    CaseTypeOK
    BlamesGrounded
    AboutTheTarget
    BestKept
    ReanalysisKeepsEvidence
PROPERTIES
    IsAnalysis
    CaseSettles
