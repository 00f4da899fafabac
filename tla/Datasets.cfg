SPECIFICATION Spec
CONSTANTS
    ann = ann
    ben = ben
    doc1 = doc1
    doc2 = doc2
    Request = {r1, r2}
    Account = {ann, ben}
    Role = {"administrator", "user"}
    Document = {doc1, doc2}
    InitialFiles <- InitialFilesDef
    Mode = {"public", "private", "local"}
    Nothing = Nothing
    MaxRequests = 2
    MaxTokens = 2
    MaxChanges = 1
    MaxCrashes = 1
SYMMETRY Symmetric
INVARIANTS TypeOK FilesAreSound AuthorityIsGranted InitializedIsComplete
PROPERTIES UpdatesAreExact RemovedStaysRemoved AccountsOutliveInitialization
CHECK_DEADLOCK FALSE
