CONSTANTS
    Saves = {s1, s2, s3, s4}
    Existing <- const_Existing
SPECIFICATION FairNumberSpec
INVARIANTS
    NumberTypeOK
    DistinctNumbers
    NoGap
PROPERTIES
    FailureMeansProgress
    SomeSaveSucceeds
CHECK_DEADLOCK FALSE
