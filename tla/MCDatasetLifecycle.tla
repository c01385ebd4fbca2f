-------------------------- MODULE MCDatasetLifecycle --------------------------
(***************************************************************************)
(* Instances of DatasetLifecycle for TLC: one or two uploads and a few     *)
(* concurrent requests, with or without faults.                            *)
(***************************************************************************)
EXTENDS DatasetLifecycle, TLC

NoFaults   == {}
AllFaults  == FaultKinds
FileFaults == {"storage", "disk"}

\* Clients are interchangeable (safety runs only).
ClientSymmetry == Permutations(Clients)
=============================================================================
