\* All graphs of four nodes and five of five; episodes of three experiments.
SPECIFICATION Spec
CONSTANTS
    Penalty = 20
    HypotheticalCost = 1
    Questions <- MCQuestions
    Counterfactuals <- MCCounterfactuals
    Analysed <- MCAnalysed
    Cases <- MCCases
    Candidates <- MCCandidates
    Roles <- MCRoles
    Budget = 3
    MaxCandidates = 7
    Worlds <- MCWorlds
    MaxConditionSet = 2
    MaxConditionCandidates = 3
INVARIANTS ChangesAreMonotone EnginesAgree IndicatorsMatchStructure PreventedOrCollateral RepairsHold DiscoveryIsRight
CHECK_DEADLOCK FALSE
