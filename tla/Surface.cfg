SPECIFICATION Spec
CHECK_DEADLOCK FALSE
CONSTRAINT AnyDatesOrTree
CONSTANTS
    root = root
    upload = upload
    known = known
    shell = shell
    Paths = {root, upload}
    Uploads = {upload}
    Suffixed = {}
    Contents = {known, shell}
    Malicious = {shell}
    Kinds = {"absent", "directory", "other"}
    Oddities = {"plain", "hardlink", "unhashed", "ancient"}
    NoFile = NoFile
    Windows <- EarlyAndLate
    Skew = 1
    IssueWindow = 1
    MaxLifetime = 2
    MaxTime = 3
    MaxRelease = 1
    MaxIssues = 2
    Recaptured <- PlainTrees
    Reattested <- PlainRecords
INVARIANTS
    CleanMeansAccountedFor
    VerdictsAreRight
PROPERTIES
    RefusalIsFinal
