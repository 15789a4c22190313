SPECIFICATION LauncherSpec
CONSTANTS
    Actions = {a1}
    Renderings = {r1, r2}
    MaxLoads = 1
INVARIANTS FeedbackReturns
