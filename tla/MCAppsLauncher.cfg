SPECIFICATION LauncherSpec
CONSTANTS
    Actions = {a1, a2}
    Renderings = {r1, r2}
    MaxLoads = 2
SYMMETRY Symmetry
INVARIANTS FeedbackIsTimed LoadingEnds OneRequest
