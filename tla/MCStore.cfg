SPECIFICATION Spec
CONSTANTS
    ServerIDs = {"s1", "s2"}
    ServerBodies = {"v1"}
    RuleBodies <- MCRuleBodies
    ProfileNames = {"default", "p"}
    Models = {"gpt-4", "gpt-5"}
    Matching <- MCMatching
    Specificity <- MCSpecificity
    Documents <- MCDocuments
    MaxRules = 2
    MaxWrites = 3
    MaxMishaps = 1
INVARIANTS Recoverable Durable ProfileNamespace RoutingSound
CHECK_DEADLOCK FALSE
