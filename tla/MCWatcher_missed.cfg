SPECIFICATION Spec
CONSTANTS
    Missing = Missing
    Malformed = Malformed
    Absent = Absent
    Documents <- AllDocuments
    Queries <- AllQueries
    Hazards = {"edit before watch", "replace"}
    MaxEdits = 2
    MaxErrors = 0
CHECK_DEADLOCK FALSE
PROPERTY FollowsFile
