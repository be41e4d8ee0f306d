SPECIFICATION Spec
CONSTANTS
    Callers = {c1, c2}
    Videos = {v1, v2, v3}
    MaxSize = 2
    Margin = 1
    Answers <- MCAnswers
    DefaultLifetime = 3
    MaxTime = 2
SYMMETRY Symmetry
INVARIANTS TypeOK Bounded
PROPERTIES HitNotStale OverwritesOnlyRivals LruEviction
