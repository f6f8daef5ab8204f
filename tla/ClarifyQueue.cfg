SPECIFICATION Spec
CONSTANTS
    c1 = c1
    c2 = c2
    c3 = c3
    p1 = p1
    None = None
    Gone = Gone
    Calls = {c1, c2, c3}
    Open = {c1}
    Before <- TwoAndOne
    Posts = {p1}
INVARIANTS
    AnswerNeverBlocks
    UsersAnswer
    UnansweredHasCause
    OldestFirst
PROPERTIES
    CallsReturn
