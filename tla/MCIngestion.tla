------------------------------ MODULE MCIngestion ------------------------------
\* Instances of Ingestion for TLC: documents and clients are interchangeable.
EXTENDS Ingestion, TLC

Sym == Permutations(Docs) \cup Permutations(Clients)
=============================================================================
