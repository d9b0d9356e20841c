SPECIFICATION FairSpec
CONSTANTS
    Dates = {1, 2, 3}
    TechDates = {2}
    Jobs <- MCJobs
    Verdicts = {"present", "absent"}
    Workers = {w1, w2}
    Limit = 2
    MaxConflict = 4
    WriteFaults = {"nothing", "torn", "whole"}
INVARIANTS
    NoWastedCall
    FinishedMeansDone
PROPERTIES
    KeepsLedger
    RunFinishes
CHECK_DEADLOCK FALSE
