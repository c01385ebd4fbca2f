-------------------------------- MODULE MCClient --------------------------------
\* Instances of Client for TLC: addresses are interchangeable.
EXTENDS Client, TLC

FewKeys == {Paged(Analyses), Detail, DateRange}

Sym == Permutations(Emails)
=============================================================================
