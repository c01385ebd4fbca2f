\* One of each object, two widgets, two requests; no symmetry, since RequestsEnd
\* is a liveness property.
SPECIFICATION FairSpec
\* Everything may be deleted for good: ids are not drawn twice.
CHECK_DEADLOCK FALSE
CONSTANTS
    Datasets = {d1}
    Analyses = {a1}
    Metrics = {m1}
    Dashboards = {b1}
    Widgets = {w1, w2}
    Requests = {r1, r2}
    Runners = {r1}
    Places = {0}
    Faulty = TRUE
    Nil = Nil
INVARIANTS ReferencesResolve NoGaps ExecutionLogged
PROPERTY RequestsEnd
