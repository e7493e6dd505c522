\* The archiver: two items, three versions, four pushes, both Rotate callers, with and without minio, two failed uploads, two crashes.
CONSTANTS
    t1 = t1
    s1 = s1
    loop = loop
    http = http
    Zero = Zero
    Items <- MCItems
    Rotators <- MCRotators
    Loop <- loop
    Versions = {1, 2, 3}
    MinioSet = {TRUE, FALSE}
    MaxPushes = 4
    MaxUploadFailures = 2
    MaxCrashes = 2
    Repush = FALSE
SPECIFICATION Spec
\* New fails for good when recover refuses the data: the archiver stops there.
CHECK_DEADLOCK FALSE
INVARIANT NoItemLost
PROPERTY ArchiveRefinement
