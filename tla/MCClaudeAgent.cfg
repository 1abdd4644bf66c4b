SPECIFICATION Spec
CONSTANTS
    ag1 = ag1
    ag2 = ag2
    m1 = m1
    r1 = r1
    r2 = r2
    Root = Root
    None = None
    Agents = {ag1, ag2}
    Plain = {}
    Loose = {}
    MessageIds = {m1}
    Readers = {r1, r2}
    MaxTurns = 2
    MaxMessages = 3
SYMMETRY AgentSymmetry
INVARIANTS
    TurnEndsWhole
    OneSpanPerSubagent
    SubagentsAreSiblings
    AnswersSplitTurns
    FailureIsShown
    ResponseIsTraced
CHECK_DEADLOCK FALSE
