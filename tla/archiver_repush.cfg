\* The same values pushed again: the new block has the old block's hash and names itself as PrevHash.
CONSTANTS
    t1 = t1
    s1 = s1
    loop = loop
    http = http
    Zero = Zero
    Items <- MCItems
    Rotators <- MCRotators
    Loop <- loop
    Versions = {1, 2}
    MinioSet = {TRUE, FALSE}
    MaxPushes = 3
    MaxUploadFailures = 1
    MaxCrashes = 1
    Repush = TRUE
SPECIFICATION Spec
\* New fails for good when recover refuses the data: the archiver stops there.
CHECK_DEADLOCK FALSE
INVARIANT BlockChainLinked
