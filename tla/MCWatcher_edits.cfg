SPECIFICATION Spec
CONSTANTS
    Missing = Missing
    Malformed = Malformed
    Absent = Absent
    Documents <- AllDocuments
    Queries <- AllQueries
    Hazards = {"edit before watch", "replace"}
    MaxEdits = 3
    MaxErrors = 1
CHECK_DEADLOCK FALSE
INVARIANTS TypeOK PoliciesInForce NothingMissed Settled
PROPERTIES NeverGoesBack FollowsEvents ComesToRest
