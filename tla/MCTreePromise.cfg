\* The first file of a test is copied while its directory is read.
SPECIFICATION Spec
CONSTANTS
    Jobs = {"run", "hand"}
    Night = "run"
    ByHand = {"hand"}
    Name <- MCName
    OldDirs <- MCOldDirs
    OldFiles <- MCOldFiles
    Day <- MCDay
    TestDirs <- MCTestDirs
    Results <- MCResults
    f1 = f1
    f2 = f2
    f3 = f3
    f4 = f4
    f5 = f5
INVARIANTS
    PromiseKept
