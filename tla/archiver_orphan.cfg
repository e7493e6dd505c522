\* A call of the rotate handler whose upload fails: its block never gets metadata while the Start loop runs on.
CONSTANTS
    t1 = t1
    s1 = s1
    loop = loop
    http = http
    Zero = Zero
    Items <- MCItems
    Rotators <- MCRotators
    Loop <- loop
    Versions = {1, 2}
    MinioSet = {TRUE, FALSE}
    MaxPushes = 3
    MaxUploadFailures = 1
    MaxCrashes = 1
    Repush = FALSE
SPECIFICATION LiveSpec
\* New fails for good when recover refuses the data: the archiver stops there.
CHECK_DEADLOCK FALSE
PROPERTY ArchivedEventually
