\* The smallest instance that has a widget on a metric.
SPECIFICATION Spec
CHECK_DEADLOCK FALSE
CONSTANTS
    Datasets = {d1}
    Analyses = {a1}
    Metrics = {m1}
    Dashboards = {b1}
    Widgets = {w1}
    Requests = {r1}
    Runners = {r1}
    Places = {0}
    Faulty = FALSE
    Nil = Nil
INVARIANT NoGuttedDataset
