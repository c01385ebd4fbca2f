------------------------ MODULE DatasetLifecycleProofs ------------------------
(***************************************************************************)
(* Theorems about DatasetLifecycle for any number of datasets and clients  *)
(* and any set of faults, checked by TLAPS.                                *)
(***************************************************************************)
EXTENDS DatasetLifecycle, TLAPS

-----------------------------------------------------------------------------
(* Type correctness                                                          *)

\* createFromUpload reads the row again only after a final status was written.
PipedIsFinal ==
    \A d \in Datasets : up[d] = "piped" => status[d] \in {"READY", "FAILED", "NONE"}

\* A client that is not idle works on a dataset.
ClientsBusy == \A c \in Clients : at[c] = "idle" \/ on[c] \in Datasets

Typed == TypeOK /\ ClientsBusy /\ PipedIsFinal

LEMMA InitTyped == Init => Typed
  BY DEF Init, Typed, TypeOK, ClientsBusy, PipedIsFinal, Statuses, CopyStates,
         UpSteps, InFlight, Answers, ClientSteps

LEMMA TypedStep == ASSUME Typed, [Next]_vars PROVE Typed'
<1> USE NamesAssumption
    DEF Typed, TypeOK, ClientsBusy, PipedIsFinal, Parts, CopyStates, Handles, UpSteps,
        Answers, ClientSteps, InFlight, PipeSteps, FailSteps, DeleteSteps, ReadSteps,
        Statuses, Transient, dbVars, copyVars, upVars, clVars, ghosts
<1>1. ASSUME NEW d \in Datasets, Receive(d) PROVE Typed'
  BY <1>1 DEF Receive, GoTo
<1>2. ASSUME NEW d \in Datasets, Reject(d) PROVE Typed'
  BY <1>2 DEF Reject, Finish, RemoveTemp
<1>3. ASSUME NEW d \in Datasets, Create(d) PROVE Typed'
  BY <1>3 DEF Create, Statement, InsertRow, GoTo, Finish
<1>4. ASSUME NEW d \in Datasets, MarkValidating(d) PROVE Typed'
  BY <1>4 DEF MarkValidating, Statement, GoTo, Throw, UpdateStatus
<1>5. ASSUME NEW d \in Datasets, Upload(d) PROVE Typed'
  BY <1>5 DEF Upload, GoTo, Throw
<1>6. ASSUME NEW d \in Datasets, Persisted(d) PROVE Typed'
  BY <1>6 DEF Persisted, RemoveTemp, GoTo
<1>7. ASSUME NEW d \in Datasets, StoreChecksum(d) PROVE Typed'
  BY <1>7 DEF StoreChecksum, Statement, GoTo, Throw, UpdatePart
<1>8. ASSUME NEW d \in Datasets, FetchBack(d) PROVE Typed'
  BY <1>8 DEF FetchBack, GoTo, Throw
<1>9. ASSUME NEW d \in Datasets, OpenOwnCopy(d) PROVE Typed'
  BY <1>9 DEF OpenOwnCopy, OpenFile, GoTo, Throw
<1>10. ASSUME NEW d \in Datasets, WriteOwnCopy(d) PROVE Typed'
  BY <1>10 DEF WriteOwnCopy, CloseFile, DropPen, AbandonFile, GoTo, Throw
<1>11. ASSUME NEW d \in Datasets, ReadHeader(d) PROVE Typed'
  BY <1>11 DEF ReadHeader, GoTo, Throw
<1>12. ASSUME NEW d \in Datasets, MarkProcessing(d) PROVE Typed'
  BY <1>12 DEF MarkProcessing, Statement, GoTo, Throw, UpdateStatus
<1>13. ASSUME NEW d \in Datasets, Inspect(d) PROVE Typed'
  BY <1>13 DEF Inspect, GoTo, Throw
<1>14. ASSUME NEW d \in Datasets, StorePath(d) PROVE Typed'
  BY <1>14 DEF StorePath, Statement, GoTo, Throw, UpdatePart
<1>15. ASSUME NEW d \in Datasets, StoreColumns(d) PROVE Typed'
  BY <1>15 DEF StoreColumns, Statement, GoTo, Throw, InsertColumns, Exists
<1>16. ASSUME NEW d \in Datasets, StoreMetadata(d) PROVE Typed'
  BY <1>16 DEF StoreMetadata, Statement, GoTo, Throw, UpdatePart
<1>17. ASSUME NEW d \in Datasets, MarkReady(d) PROVE Typed'
  <2>1. CASE UpdateStatus(d, "READY") /\ GoTo(d, "piped")
    <3>1. TypeOK' /\ ClientsBusy'
      BY <1>17, <2>1 DEF MarkReady, GoTo, UpdateStatus
    <3>2. PipedIsFinal'
      BY <1>17, <2>1 DEF MarkReady, GoTo, UpdateStatus, Exists
    <3>3. QED
      BY <3>1, <3>2
  <2>2. CASE (UpdateStatus(d, "READY") \/ UNCHANGED dbVars) /\ Throw(d)
    BY <1>17, <2>2 DEF MarkReady, GoTo, Throw, UpdateStatus
  <2>3. QED
    BY <1>17, <2>1, <2>2 DEF MarkReady, Statement
<1>18. ASSUME NEW d \in Datasets, CatchRemove(d) PROVE Typed'
  BY <1>18 DEF CatchRemove, RemoveObject, GoTo
<1>19. ASSUME NEW d \in Datasets, CatchRelease(d) PROVE Typed'
  BY <1>19 DEF CatchRelease, ReleaseLocalPath, GoTo
<1>20. ASSUME NEW d \in Datasets, CatchTemp(d) PROVE Typed'
  BY <1>20 DEF CatchTemp, RemoveTemp, GoTo
<1>21. ASSUME NEW d \in Datasets, MarkFailed(d) PROVE Typed'
  BY <1>21 DEF MarkFailed, Statement, UpdateStatus, GoTo, Finish, Exists
<1>22. ASSUME NEW d \in Datasets, Respond(d) PROVE Typed'
  BY <1>22 DEF Respond, Exists, Finish
<1>23. ASSUME NEW c \in Clients, DeleteObject(c) PROVE Typed'
  BY <1>23 DEF DeleteObject, RemoveObject, Move
<1>24. ASSUME NEW c \in Clients, DeleteCopy(c) PROVE Typed'
  BY <1>24 DEF DeleteCopy, ReleaseLocalPath, Move
<1>25. ASSUME NEW c \in Clients, DeleteRow(c) PROVE Typed'
  BY <1>25 DEF DeleteRow, Statement, DeleteById, Leave
<1>26. ASSUME NEW c \in Clients, LookUp(c) PROVE Typed'
  BY <1>26 DEF LookUp, Move
<1>27. ASSUME NEW c \in Clients, Fetch(c) PROVE Typed'
  BY <1>27 DEF Fetch, Move, Leave
<1>28. ASSUME NEW c \in Clients, OpenCopy(c) PROVE Typed'
  BY <1>28 DEF OpenCopy, OpenFile, Move, Leave
<1>29. ASSUME NEW c \in Clients, WriteCopy(c) PROVE Typed'
  BY <1>29 DEF WriteCopy, CloseFile, DropPen, AbandonFile, Move, Leave
<1>30. ASSUME NEW c \in Clients, Query(c) PROVE Typed'
  BY <1>30 DEF Query, Leave
<1>31. ASSUME NEW c \in Clients, NEW d \in Datasets, StartDelete(c, d) PROVE Typed'
  BY <1>31 DEF StartDelete, Exists, Begin
<1>32. ASSUME NEW c \in Clients, NEW d \in Datasets, StartRead(c, d) PROVE Typed'
  BY <1>32 DEF StartRead, Begin
<1>33. ASSUME NEW d \in Datasets, ShowMetric(d) \/ HideMetric(d) PROVE Typed'
  BY <1>33 DEF ShowMetric, HideMetric
<1>34. CASE Crash
  BY <1>34 DEF Crash
<1>35. CASE UNCHANGED vars
  BY <1>35 DEF vars
<1>36. QED
  BY <1>1, <1>2, <1>3, <1>4, <1>5, <1>6, <1>7, <1>8, <1>9, <1>10, <1>11, <1>12, <1>13,
     <1>14, <1>15, <1>16, <1>17, <1>18, <1>19, <1>20, <1>21, <1>22, <1>23, <1>24, <1>25,
     <1>26, <1>27, <1>28, <1>29, <1>30, <1>31, <1>32, <1>33, <1>34, <1>35
     DEF Next, UploadStep, ClientStep

\* Every reachable state is well typed, whatever fails.
THEOREM TypeCorrect == Spec => []TypeOK
<1>1. Typed /\ [Next]_vars => Typed'
  BY TypedStep
<1>2. Typed => TypeOK
  BY DEF Typed
<1>3. QED
  BY InitTyped, <1>1, <1>2, PTL DEF Spec

LEMMA AlwaysTyped == Spec => []Typed
<1>1. Typed /\ [Next]_vars => Typed'
  BY TypedStep
<1>2. QED
  BY InitTyped, <1>1, PTL DEF Spec

-----------------------------------------------------------------------------
(* READY means complete.  The status says nothing about the parts of a row   *)
(* that is still being processed; the step its upload has reached does.      *)

\* What each step of the pipeline has already stored, if the row still exists.
PartsStored ==
    \A d \in Datasets :
        /\ up[d] \in {"new", "received"} => ~Exists(d)
        /\ Exists(d) =>
            /\ up[d] \in {"summed", "fetched", "writing", "cached", "headed",
                          "processing", "inspected", "pathed", "columned", "described"}
                  => "checksum" \in holds[d]
            /\ up[d] \in {"pathed", "columned", "described"} => "path" \in holds[d]
            /\ up[d] \in {"columned", "described"} => "columns" \in holds[d]
            /\ up[d] = "described" => "schema" \in holds[d]

CompleteInv == PartsStored /\ ReadyIsComplete

LEMMA CompleteStep == ASSUME Typed, CompleteInv, [Next]_vars PROVE CompleteInv'
<1> USE DEF CompleteInv, PartsStored, ReadyIsComplete, Exists, Parts, Typed, TypeOK,
            UpSteps, InFlight, PipeSteps, FailSteps,
            dbVars, copyVars, upVars, clVars, ghosts
<1>1. ASSUME NEW d \in Datasets, Receive(d) PROVE CompleteInv'
  BY <1>1 DEF Receive, GoTo
<1>2. ASSUME NEW d \in Datasets, Reject(d) PROVE CompleteInv'
  BY <1>2 DEF Reject, Finish, RemoveTemp
<1>3. ASSUME NEW d \in Datasets, Create(d) PROVE CompleteInv'
  BY <1>3 DEF Create, Statement, InsertRow, GoTo, Finish
<1>4. ASSUME NEW d \in Datasets, MarkValidating(d) PROVE CompleteInv'
  BY <1>4 DEF MarkValidating, Statement, GoTo, Throw, UpdateStatus
<1>5. ASSUME NEW d \in Datasets, Upload(d) PROVE CompleteInv'
  BY <1>5 DEF Upload, GoTo, Throw
<1>6. ASSUME NEW d \in Datasets, Persisted(d) PROVE CompleteInv'
  BY <1>6 DEF Persisted, RemoveTemp, GoTo
<1>7. ASSUME NEW d \in Datasets, StoreChecksum(d) PROVE CompleteInv'
  BY <1>7 DEF StoreChecksum, Statement, GoTo, Throw, UpdatePart
<1>8. ASSUME NEW d \in Datasets, FetchBack(d) PROVE CompleteInv'
  BY <1>8 DEF FetchBack, GoTo, Throw
<1>9. ASSUME NEW d \in Datasets, OpenOwnCopy(d) PROVE CompleteInv'
  BY <1>9 DEF OpenOwnCopy, OpenFile, GoTo, Throw
<1>10. ASSUME NEW d \in Datasets, WriteOwnCopy(d) PROVE CompleteInv'
  BY <1>10 DEF WriteOwnCopy, CloseFile, DropPen, AbandonFile, GoTo, Throw
<1>11. ASSUME NEW d \in Datasets, ReadHeader(d) PROVE CompleteInv'
  BY <1>11 DEF ReadHeader, GoTo, Throw
<1>12. ASSUME NEW d \in Datasets, MarkProcessing(d) PROVE CompleteInv'
  BY <1>12 DEF MarkProcessing, Statement, GoTo, Throw, UpdateStatus
<1>13. ASSUME NEW d \in Datasets, Inspect(d) PROVE CompleteInv'
  BY <1>13 DEF Inspect, GoTo, Throw
<1>14. ASSUME NEW d \in Datasets, StorePath(d) PROVE CompleteInv'
  BY <1>14 DEF StorePath, Statement, GoTo, Throw, UpdatePart
<1>15. ASSUME NEW d \in Datasets, StoreColumns(d) PROVE CompleteInv'
  BY <1>15 DEF StoreColumns, Statement, GoTo, Throw, InsertColumns, Exists
<1>16. ASSUME NEW d \in Datasets, StoreMetadata(d) PROVE CompleteInv'
  BY <1>16 DEF StoreMetadata, Statement, GoTo, Throw, UpdatePart
<1>17. ASSUME NEW d \in Datasets, MarkReady(d) PROVE CompleteInv'
  BY <1>17 DEF MarkReady, Statement, GoTo, Throw, UpdateStatus
<1>18. ASSUME NEW d \in Datasets, CatchRemove(d) PROVE CompleteInv'
  BY <1>18 DEF CatchRemove, RemoveObject, GoTo
<1>19. ASSUME NEW d \in Datasets, CatchRelease(d) PROVE CompleteInv'
  BY <1>19 DEF CatchRelease, ReleaseLocalPath, GoTo
<1>20. ASSUME NEW d \in Datasets, CatchTemp(d) PROVE CompleteInv'
  BY <1>20 DEF CatchTemp, RemoveTemp, GoTo
<1>21. ASSUME NEW d \in Datasets, MarkFailed(d) PROVE CompleteInv'
  BY <1>21 DEF MarkFailed, Statement, UpdateStatus, GoTo, Finish, Exists
<1>22. ASSUME NEW d \in Datasets, Respond(d) PROVE CompleteInv'
  BY <1>22 DEF Respond, Exists, Finish
<1>23. ASSUME NEW c \in Clients, DeleteObject(c) PROVE CompleteInv'
  BY <1>23 DEF DeleteObject, RemoveObject, Move
<1>24. ASSUME NEW c \in Clients, DeleteCopy(c) PROVE CompleteInv'
  BY <1>24 DEF DeleteCopy, ReleaseLocalPath, Move
<1>25. ASSUME NEW c \in Clients, DeleteRow(c) PROVE CompleteInv'
  BY <1>25 DEF DeleteRow, Statement, DeleteById, Leave
<1>26. ASSUME NEW c \in Clients, LookUp(c) PROVE CompleteInv'
  BY <1>26 DEF LookUp, Move
<1>27. ASSUME NEW c \in Clients, Fetch(c) PROVE CompleteInv'
  BY <1>27 DEF Fetch, Move, Leave
<1>28. ASSUME NEW c \in Clients, OpenCopy(c) PROVE CompleteInv'
  BY <1>28 DEF OpenCopy, OpenFile, Move, Leave
<1>29. ASSUME NEW c \in Clients, WriteCopy(c) PROVE CompleteInv'
  BY <1>29 DEF WriteCopy, CloseFile, DropPen, AbandonFile, Move, Leave
<1>30. ASSUME NEW c \in Clients, Query(c) PROVE CompleteInv'
  BY <1>30 DEF Query, Leave
<1>31. ASSUME NEW c \in Clients, NEW d \in Datasets, StartDelete(c, d) PROVE CompleteInv'
  BY <1>31 DEF StartDelete, Exists, Begin
<1>32. ASSUME NEW c \in Clients, NEW d \in Datasets, StartRead(c, d) PROVE CompleteInv'
  BY <1>32 DEF StartRead, Begin
<1>33. ASSUME NEW d \in Datasets, ShowMetric(d) \/ HideMetric(d) PROVE CompleteInv'
  BY <1>33 DEF ShowMetric, HideMetric
<1>34. CASE Crash
  BY <1>34 DEF Crash
<1>35. CASE UNCHANGED vars
  BY <1>35 DEF vars
<1>36. QED
  BY <1>1, <1>2, <1>3, <1>4, <1>5, <1>6, <1>7, <1>8, <1>9, <1>10, <1>11, <1>12, <1>13,
     <1>14, <1>15, <1>16, <1>17, <1>18, <1>19, <1>20, <1>21, <1>22, <1>23, <1>24, <1>25,
     <1>26, <1>27, <1>28, <1>29, <1>30, <1>31, <1>32, <1>33, <1>34, <1>35
     DEF Next, UploadStep, ClientStep

LEMMA AlwaysComplete == Spec => []CompleteInv
<1>1. Init => CompleteInv
  BY DEF Init, CompleteInv, PartsStored, ReadyIsComplete, Exists
<1>2. Typed /\ CompleteInv /\ [Next]_vars => CompleteInv'
  BY CompleteStep
<1>3. QED
  BY AlwaysTyped, <1>1, <1>2, PTL DEF Spec

\* Whoever finds a dataset READY finds its path, checksum, schema and columns.
THEOREM ReadyComplete == Spec => []ReadyIsComplete
<1>1. CompleteInv => ReadyIsComplete
  BY DEF CompleteInv
<1>2. QED
  BY AlwaysComplete, <1>1, PTL

-----------------------------------------------------------------------------
(* The answer of an upload stays true.                                       *)

\* Nobody has been answered before the handler is done.
AnswerLast == \A d \in Datasets : answer[d] # "none" => up[d] = "done"

AnswerInv == AnswerLast /\ AnswerIsFinal

LEMMA AnswerStep == ASSUME Typed, AnswerInv, [Next]_vars PROVE AnswerInv'
<1> USE DEF AnswerInv, AnswerLast, AnswerIsFinal, Exists, Typed, TypeOK,
            UpSteps, InFlight, PipeSteps, FailSteps,
            dbVars, copyVars, upVars, clVars, ghosts
<1>1. ASSUME NEW d \in Datasets, Receive(d) PROVE AnswerInv'
  BY <1>1 DEF Receive, GoTo
<1>2. ASSUME NEW d \in Datasets, Reject(d) PROVE AnswerInv'
  BY <1>2 DEF Reject, Finish, RemoveTemp
<1>3. ASSUME NEW d \in Datasets, Create(d) PROVE AnswerInv'
  BY <1>3 DEF Create, Statement, InsertRow, GoTo, Finish
<1>4. ASSUME NEW d \in Datasets, MarkValidating(d) PROVE AnswerInv'
  BY <1>4 DEF MarkValidating, Statement, GoTo, Throw, UpdateStatus
<1>5. ASSUME NEW d \in Datasets, Upload(d) PROVE AnswerInv'
  BY <1>5 DEF Upload, GoTo, Throw
<1>6. ASSUME NEW d \in Datasets, Persisted(d) PROVE AnswerInv'
  BY <1>6 DEF Persisted, RemoveTemp, GoTo
<1>7. ASSUME NEW d \in Datasets, StoreChecksum(d) PROVE AnswerInv'
  BY <1>7 DEF StoreChecksum, Statement, GoTo, Throw, UpdatePart
<1>8. ASSUME NEW d \in Datasets, FetchBack(d) PROVE AnswerInv'
  BY <1>8 DEF FetchBack, GoTo, Throw
<1>9. ASSUME NEW d \in Datasets, OpenOwnCopy(d) PROVE AnswerInv'
  BY <1>9 DEF OpenOwnCopy, OpenFile, GoTo, Throw
<1>10. ASSUME NEW d \in Datasets, WriteOwnCopy(d) PROVE AnswerInv'
  BY <1>10 DEF WriteOwnCopy, CloseFile, DropPen, AbandonFile, GoTo, Throw
<1>11. ASSUME NEW d \in Datasets, ReadHeader(d) PROVE AnswerInv'
  BY <1>11 DEF ReadHeader, GoTo, Throw
<1>12. ASSUME NEW d \in Datasets, MarkProcessing(d) PROVE AnswerInv'
  BY <1>12 DEF MarkProcessing, Statement, GoTo, Throw, UpdateStatus
<1>13. ASSUME NEW d \in Datasets, Inspect(d) PROVE AnswerInv'
  BY <1>13 DEF Inspect, GoTo, Throw
<1>14. ASSUME NEW d \in Datasets, StorePath(d) PROVE AnswerInv'
  BY <1>14 DEF StorePath, Statement, GoTo, Throw, UpdatePart
<1>15. ASSUME NEW d \in Datasets, StoreColumns(d) PROVE AnswerInv'
  BY <1>15 DEF StoreColumns, Statement, GoTo, Throw, InsertColumns, Exists
<1>16. ASSUME NEW d \in Datasets, StoreMetadata(d) PROVE AnswerInv'
  BY <1>16 DEF StoreMetadata, Statement, GoTo, Throw, UpdatePart
<1>17. ASSUME NEW d \in Datasets, MarkReady(d) PROVE AnswerInv'
  BY <1>17 DEF MarkReady, Statement, GoTo, Throw, UpdateStatus
<1>18. ASSUME NEW d \in Datasets, CatchRemove(d) PROVE AnswerInv'
  BY <1>18 DEF CatchRemove, RemoveObject, GoTo
<1>19. ASSUME NEW d \in Datasets, CatchRelease(d) PROVE AnswerInv'
  BY <1>19 DEF CatchRelease, ReleaseLocalPath, GoTo
<1>20. ASSUME NEW d \in Datasets, CatchTemp(d) PROVE AnswerInv'
  BY <1>20 DEF CatchTemp, RemoveTemp, GoTo
<1>21. ASSUME NEW d \in Datasets, MarkFailed(d) PROVE AnswerInv'
  BY <1>21 DEF MarkFailed, Statement, UpdateStatus, GoTo, Finish, Exists
<1>22. ASSUME NEW d \in Datasets, Respond(d) PROVE AnswerInv'
  BY <1>22 DEF Respond, Exists, Finish
<1>23. ASSUME NEW c \in Clients, DeleteObject(c) PROVE AnswerInv'
  BY <1>23 DEF DeleteObject, RemoveObject, Move
<1>24. ASSUME NEW c \in Clients, DeleteCopy(c) PROVE AnswerInv'
  BY <1>24 DEF DeleteCopy, ReleaseLocalPath, Move
<1>25. ASSUME NEW c \in Clients, DeleteRow(c) PROVE AnswerInv'
  BY <1>25 DEF DeleteRow, Statement, DeleteById, Leave
<1>26. ASSUME NEW c \in Clients, LookUp(c) PROVE AnswerInv'
  BY <1>26 DEF LookUp, Move
<1>27. ASSUME NEW c \in Clients, Fetch(c) PROVE AnswerInv'
  BY <1>27 DEF Fetch, Move, Leave
<1>28. ASSUME NEW c \in Clients, OpenCopy(c) PROVE AnswerInv'
  BY <1>28 DEF OpenCopy, OpenFile, Move, Leave
<1>29. ASSUME NEW c \in Clients, WriteCopy(c) PROVE AnswerInv'
  BY <1>29 DEF WriteCopy, CloseFile, DropPen, AbandonFile, Move, Leave
<1>30. ASSUME NEW c \in Clients, Query(c) PROVE AnswerInv'
  BY <1>30 DEF Query, Leave
<1>31. ASSUME NEW c \in Clients, NEW d \in Datasets, StartDelete(c, d) PROVE AnswerInv'
  BY <1>31 DEF StartDelete, Exists, Begin
<1>32. ASSUME NEW c \in Clients, NEW d \in Datasets, StartRead(c, d) PROVE AnswerInv'
  BY <1>32 DEF StartRead, Begin
<1>33. ASSUME NEW d \in Datasets, ShowMetric(d) \/ HideMetric(d) PROVE AnswerInv'
  BY <1>33 DEF ShowMetric, HideMetric
<1>34. CASE Crash
  BY <1>34 DEF Crash
<1>35. CASE UNCHANGED vars
  BY <1>35 DEF vars
<1>36. QED
  BY <1>1, <1>2, <1>3, <1>4, <1>5, <1>6, <1>7, <1>8, <1>9, <1>10, <1>11, <1>12, <1>13,
     <1>14, <1>15, <1>16, <1>17, <1>18, <1>19, <1>20, <1>21, <1>22, <1>23, <1>24, <1>25,
     <1>26, <1>27, <1>28, <1>29, <1>30, <1>31, <1>32, <1>33, <1>34, <1>35
     DEF Next, UploadStep, ClientStep

LEMMA AlwaysAnswer == Spec => []AnswerInv
<1>1. Init => AnswerInv
  BY DEF Init, AnswerInv, AnswerLast, AnswerIsFinal
<1>2. Typed /\ AnswerInv /\ [Next]_vars => AnswerInv'
  BY AnswerStep
<1>3. QED
  BY AlwaysTyped, <1>1, <1>2, PTL DEF Spec

\* No write of the handler, late or retried, contradicts what it has answered.
THEOREM AnswerFinal == Spec => []AnswerIsFinal
<1>1. AnswerInv => AnswerIsFinal
  BY DEF AnswerInv
<1>2. QED
  BY AlwaysAnswer, <1>1, PTL

-----------------------------------------------------------------------------
(* A dataset that was announced as READY keeps its object until a delete.    *)

\* Only datasets somebody asked to delete are being deleted.
DeletesAsked == \A c \in Clients : at[c] \in DeleteSteps => on[c] \in asked

\* The object of an upload that is going well stays.
ObjectKept ==
    \A d \in Datasets \ asked :
        \/ up[d] \in {"uploaded", "stored", "summed", "fetched", "writing", "cached",
                      "headed", "processing", "inspected", "pathed", "columned", "described"}
        \/ up[d] = "piped" /\ status[d] = "READY"
        => d \in objects

ServedInv == AnswerLast /\ DeletesAsked /\ ObjectKept /\ ServedHasObject

LEMMA ServedStep == ASSUME Typed, ServedInv, [Next]_vars PROVE ServedInv'
<1> USE DEF ServedInv, AnswerLast, DeletesAsked, ObjectKept, ServedHasObject, Exists,
            Typed, TypeOK, ClientsBusy, DeleteSteps, UpSteps, InFlight, PipeSteps, FailSteps,
            dbVars, copyVars, upVars, clVars, ghosts
<1>1. ASSUME NEW d \in Datasets, Receive(d) PROVE ServedInv'
  BY <1>1 DEF Receive, GoTo
<1>2. ASSUME NEW d \in Datasets, Reject(d) PROVE ServedInv'
  BY <1>2 DEF Reject, Finish, RemoveTemp
<1>3. ASSUME NEW d \in Datasets, Create(d) PROVE ServedInv'
  BY <1>3 DEF Create, Statement, InsertRow, GoTo, Finish
<1>4. ASSUME NEW d \in Datasets, MarkValidating(d) PROVE ServedInv'
  BY <1>4 DEF MarkValidating, Statement, GoTo, Throw, UpdateStatus
<1>5. ASSUME NEW d \in Datasets, Upload(d) PROVE ServedInv'
  BY <1>5 DEF Upload, GoTo, Throw
<1>6. ASSUME NEW d \in Datasets, Persisted(d) PROVE ServedInv'
  BY <1>6 DEF Persisted, RemoveTemp, GoTo
<1>7. ASSUME NEW d \in Datasets, StoreChecksum(d) PROVE ServedInv'
  BY <1>7 DEF StoreChecksum, Statement, GoTo, Throw, UpdatePart
<1>8. ASSUME NEW d \in Datasets, FetchBack(d) PROVE ServedInv'
  BY <1>8 DEF FetchBack, GoTo, Throw
<1>9. ASSUME NEW d \in Datasets, OpenOwnCopy(d) PROVE ServedInv'
  BY <1>9 DEF OpenOwnCopy, OpenFile, GoTo, Throw
<1>10. ASSUME NEW d \in Datasets, WriteOwnCopy(d) PROVE ServedInv'
  BY <1>10 DEF WriteOwnCopy, CloseFile, DropPen, AbandonFile, GoTo, Throw
<1>11. ASSUME NEW d \in Datasets, ReadHeader(d) PROVE ServedInv'
  BY <1>11 DEF ReadHeader, GoTo, Throw
<1>12. ASSUME NEW d \in Datasets, MarkProcessing(d) PROVE ServedInv'
  BY <1>12 DEF MarkProcessing, Statement, GoTo, Throw, UpdateStatus
<1>13. ASSUME NEW d \in Datasets, Inspect(d) PROVE ServedInv'
  BY <1>13 DEF Inspect, GoTo, Throw
<1>14. ASSUME NEW d \in Datasets, StorePath(d) PROVE ServedInv'
  BY <1>14 DEF StorePath, Statement, GoTo, Throw, UpdatePart
<1>15. ASSUME NEW d \in Datasets, StoreColumns(d) PROVE ServedInv'
  BY <1>15 DEF StoreColumns, Statement, GoTo, Throw, InsertColumns, Exists
<1>16. ASSUME NEW d \in Datasets, StoreMetadata(d) PROVE ServedInv'
  BY <1>16 DEF StoreMetadata, Statement, GoTo, Throw, UpdatePart
<1>17. ASSUME NEW d \in Datasets, MarkReady(d) PROVE ServedInv'
  BY <1>17 DEF MarkReady, Statement, GoTo, Throw, UpdateStatus
<1>18. ASSUME NEW d \in Datasets, CatchRemove(d) PROVE ServedInv'
  BY <1>18 DEF CatchRemove, RemoveObject, GoTo
<1>19. ASSUME NEW d \in Datasets, CatchRelease(d) PROVE ServedInv'
  BY <1>19 DEF CatchRelease, ReleaseLocalPath, GoTo
<1>20. ASSUME NEW d \in Datasets, CatchTemp(d) PROVE ServedInv'
  BY <1>20 DEF CatchTemp, RemoveTemp, GoTo
<1>21. ASSUME NEW d \in Datasets, MarkFailed(d) PROVE ServedInv'
  BY <1>21 DEF MarkFailed, Statement, UpdateStatus, GoTo, Finish, Exists
<1>22. ASSUME NEW d \in Datasets, Respond(d) PROVE ServedInv'
  BY <1>22 DEF Respond, Exists, Finish
<1>23. ASSUME NEW c \in Clients, DeleteObject(c) PROVE ServedInv'
  BY <1>23 DEF DeleteObject, RemoveObject, Move
<1>24. ASSUME NEW c \in Clients, DeleteCopy(c) PROVE ServedInv'
  BY <1>24 DEF DeleteCopy, ReleaseLocalPath, Move
<1>25. ASSUME NEW c \in Clients, DeleteRow(c) PROVE ServedInv'
  BY <1>25 DEF DeleteRow, Statement, DeleteById, Leave
<1>26. ASSUME NEW c \in Clients, LookUp(c) PROVE ServedInv'
  BY <1>26 DEF LookUp, Move
<1>27. ASSUME NEW c \in Clients, Fetch(c) PROVE ServedInv'
  BY <1>27 DEF Fetch, Move, Leave
<1>28. ASSUME NEW c \in Clients, OpenCopy(c) PROVE ServedInv'
  BY <1>28 DEF OpenCopy, OpenFile, Move, Leave
<1>29. ASSUME NEW c \in Clients, WriteCopy(c) PROVE ServedInv'
  BY <1>29 DEF WriteCopy, CloseFile, DropPen, AbandonFile, Move, Leave
<1>30. ASSUME NEW c \in Clients, Query(c) PROVE ServedInv'
  BY <1>30 DEF Query, Leave
<1>31. ASSUME NEW c \in Clients, NEW d \in Datasets, StartDelete(c, d) PROVE ServedInv'
  BY <1>31 DEF StartDelete, Exists, Begin
<1>32. ASSUME NEW c \in Clients, NEW d \in Datasets, StartRead(c, d) PROVE ServedInv'
  BY <1>32 DEF StartRead, Begin
<1>33. ASSUME NEW d \in Datasets, ShowMetric(d) \/ HideMetric(d) PROVE ServedInv'
  BY <1>33 DEF ShowMetric, HideMetric
<1>34. CASE Crash
  BY <1>34 DEF Crash
<1>35. CASE UNCHANGED vars
  BY <1>35 DEF vars
<1>36. QED
  BY <1>1, <1>2, <1>3, <1>4, <1>5, <1>6, <1>7, <1>8, <1>9, <1>10, <1>11, <1>12, <1>13,
     <1>14, <1>15, <1>16, <1>17, <1>18, <1>19, <1>20, <1>21, <1>22, <1>23, <1>24, <1>25,
     <1>26, <1>27, <1>28, <1>29, <1>30, <1>31, <1>32, <1>33, <1>34, <1>35
     DEF Next, UploadStep, ClientStep

\* Whatever fails: what was announced as READY has its object until a DELETE.
THEOREM ServedObject == Spec => []ServedHasObject
<1>1. Init => ServedInv
  BY DEF Init, ServedInv, AnswerLast, DeletesAsked, DeleteSteps, ObjectKept, ServedHasObject
<1>2. Typed /\ ServedInv /\ [Next]_vars => ServedInv'
  BY ServedStep
<1>3. ServedInv => ServedHasObject
  BY DEF ServedInv
<1>4. QED
  BY AlwaysTyped, <1>1, <1>2, <1>3, PTL DEF Spec

-----------------------------------------------------------------------------
(* Without crashes and failing connections, a READY row without an object is *)
(* in the middle of a delete, or was left by one that a widget refused.      *)

SoundDb == Faults \cap {"db", "ack", "crash"} = {}

Deleting(d) == \E c \in Clients : on[c] = d /\ at[c] \in {"delRelease", "delRow"}

HeldInv ==
    \A d \in Datasets :
        /\ status[d] = "READY" => up[d] \in {"piped", "done"}
        /\ /\ Exists(d)
           /\ d \notin objects
           /\ \/ status[d] = "READY"
              \/ up[d] \in {"uploaded", "stored", "summed", "fetched", "writing", "cached",
                            "headed", "processing", "inspected", "pathed", "columned",
                            "described"}
           => Deleting(d) \/ d \in refused

LEMMA HeldStep == ASSUME SoundDb, Typed, PartsStored, HeldInv, [Next]_vars PROVE HeldInv'
<1> USE DEF SoundDb, HeldInv, Deleting, PartsStored, Exists, Typed, TypeOK, ClientsBusy,
            UpSteps, InFlight, PipeSteps, FailSteps,
            dbVars, copyVars, upVars, clVars, ghosts
<1>1. ASSUME NEW d \in Datasets, Receive(d) PROVE HeldInv'
  BY <1>1 DEF Receive, GoTo
<1>2. ASSUME NEW d \in Datasets, Reject(d) PROVE HeldInv'
  BY <1>2 DEF Reject, Finish, RemoveTemp
<1>3. ASSUME NEW d \in Datasets, Create(d) PROVE HeldInv'
  BY <1>3 DEF Create, Statement, InsertRow, GoTo, Finish
<1>4. ASSUME NEW d \in Datasets, MarkValidating(d) PROVE HeldInv'
  BY <1>4 DEF MarkValidating, Statement, GoTo, Throw, UpdateStatus
<1>5. ASSUME NEW d \in Datasets, Upload(d) PROVE HeldInv'
  BY <1>5 DEF Upload, GoTo, Throw
<1>6. ASSUME NEW d \in Datasets, Persisted(d) PROVE HeldInv'
  BY <1>6 DEF Persisted, RemoveTemp, GoTo
<1>7. ASSUME NEW d \in Datasets, StoreChecksum(d) PROVE HeldInv'
  BY <1>7 DEF StoreChecksum, Statement, GoTo, Throw, UpdatePart
<1>8. ASSUME NEW d \in Datasets, FetchBack(d) PROVE HeldInv'
  BY <1>8 DEF FetchBack, GoTo, Throw
<1>9. ASSUME NEW d \in Datasets, OpenOwnCopy(d) PROVE HeldInv'
  BY <1>9 DEF OpenOwnCopy, OpenFile, GoTo, Throw
<1>10. ASSUME NEW d \in Datasets, WriteOwnCopy(d) PROVE HeldInv'
  BY <1>10 DEF WriteOwnCopy, CloseFile, DropPen, AbandonFile, GoTo, Throw
<1>11. ASSUME NEW d \in Datasets, ReadHeader(d) PROVE HeldInv'
  BY <1>11 DEF ReadHeader, GoTo, Throw
<1>12. ASSUME NEW d \in Datasets, MarkProcessing(d) PROVE HeldInv'
  BY <1>12 DEF MarkProcessing, Statement, GoTo, Throw, UpdateStatus
<1>13. ASSUME NEW d \in Datasets, Inspect(d) PROVE HeldInv'
  BY <1>13 DEF Inspect, GoTo, Throw
<1>14. ASSUME NEW d \in Datasets, StorePath(d) PROVE HeldInv'
  BY <1>14 DEF StorePath, Statement, GoTo, Throw, UpdatePart
<1>15. ASSUME NEW d \in Datasets, StoreColumns(d) PROVE HeldInv'
  BY <1>15 DEF StoreColumns, Statement, GoTo, Throw, InsertColumns, Exists
<1>16. ASSUME NEW d \in Datasets, StoreMetadata(d) PROVE HeldInv'
  BY <1>16 DEF StoreMetadata, Statement, GoTo, Throw, UpdatePart
<1>17. ASSUME NEW d \in Datasets, MarkReady(d) PROVE HeldInv'
  BY <1>17 DEF MarkReady, Statement, GoTo, Throw, UpdateStatus
<1>18. ASSUME NEW d \in Datasets, CatchRemove(d) PROVE HeldInv'
  BY <1>18 DEF CatchRemove, RemoveObject, GoTo
<1>19. ASSUME NEW d \in Datasets, CatchRelease(d) PROVE HeldInv'
  BY <1>19 DEF CatchRelease, ReleaseLocalPath, GoTo
<1>20. ASSUME NEW d \in Datasets, CatchTemp(d) PROVE HeldInv'
  BY <1>20 DEF CatchTemp, RemoveTemp, GoTo
<1>21. ASSUME NEW d \in Datasets, MarkFailed(d) PROVE HeldInv'
  BY <1>21 DEF MarkFailed, Statement, UpdateStatus, GoTo, Finish, Exists
<1>22. ASSUME NEW d \in Datasets, Respond(d) PROVE HeldInv'
  BY <1>22 DEF Respond, Exists, Finish
<1>23. ASSUME NEW c \in Clients, DeleteObject(c) PROVE HeldInv'
  BY <1>23 DEF DeleteObject, RemoveObject, Move
<1>24. ASSUME NEW c \in Clients, DeleteCopy(c) PROVE HeldInv'
  BY <1>24 DEF DeleteCopy, ReleaseLocalPath, Move
<1>25. ASSUME NEW c \in Clients, DeleteRow(c) PROVE HeldInv'
  BY <1>25 DEF DeleteRow, Statement, DeleteById, Leave
<1>26. ASSUME NEW c \in Clients, LookUp(c) PROVE HeldInv'
  BY <1>26 DEF LookUp, Move
<1>27. ASSUME NEW c \in Clients, Fetch(c) PROVE HeldInv'
  BY <1>27 DEF Fetch, Move, Leave
<1>28. ASSUME NEW c \in Clients, OpenCopy(c) PROVE HeldInv'
  BY <1>28 DEF OpenCopy, OpenFile, Move, Leave
<1>29. ASSUME NEW c \in Clients, WriteCopy(c) PROVE HeldInv'
  BY <1>29 DEF WriteCopy, CloseFile, DropPen, AbandonFile, Move, Leave
<1>30. ASSUME NEW c \in Clients, Query(c) PROVE HeldInv'
  BY <1>30 DEF Query, Leave
<1>31. ASSUME NEW c \in Clients, NEW d \in Datasets, StartDelete(c, d) PROVE HeldInv'
  BY <1>31 DEF StartDelete, Exists, Begin
<1>32. ASSUME NEW c \in Clients, NEW d \in Datasets, StartRead(c, d) PROVE HeldInv'
  BY <1>32 DEF StartRead, Begin
<1>33. ASSUME NEW d \in Datasets, ShowMetric(d) \/ HideMetric(d) PROVE HeldInv'
  BY <1>33 DEF ShowMetric, HideMetric
<1>34. CASE Crash
  BY <1>34 DEF Crash
<1>35. CASE UNCHANGED vars
  BY <1>35 DEF vars
<1>36. QED
  BY <1>1, <1>2, <1>3, <1>4, <1>5, <1>6, <1>7, <1>8, <1>9, <1>10, <1>11, <1>12, <1>13,
     <1>14, <1>15, <1>16, <1>17, <1>18, <1>19, <1>20, <1>21, <1>22, <1>23, <1>24, <1>25,
     <1>26, <1>27, <1>28, <1>29, <1>30, <1>31, <1>32, <1>33, <1>34, <1>35
     DEF Next, UploadStep, ClientStep

\* A READY row without its object is in the middle of a delete, or was left by one
\* that a widget has refused.
THEOREM ReadyObject == ASSUME SoundDb PROVE Spec => []ReadyHasObject
<1>1. Init => HeldInv
  BY DEF Init, HeldInv, Exists
<1>2. Typed /\ CompleteInv /\ HeldInv /\ [Next]_vars => HeldInv'
  BY HeldStep DEF CompleteInv
<1>3. HeldInv => ReadyHasObject
  BY DEF HeldInv, ReadyHasObject, Deleting, Exists
<1>4. QED
  BY AlwaysTyped, AlwaysComplete, <1>1, <1>2, <1>3, PTL DEF Spec

-----------------------------------------------------------------------------
(* The order of the statuses, and the registry a client sees, provided that  *)
(* no call takes effect and still reports an error.                          *)

NoFalseErrors == "ack" \notin Faults

\* How far a row can be when its upload is at each step.
StageInv ==
    \A d \in Datasets :
        /\ up[d] = "created" => status[d] \in {"UPLOADING", "NONE"}
        /\ up[d] \in {"validating", "uploaded", "stored", "summed", "fetched", "writing",
                      "cached", "headed"} => status[d] \in {"VALIDATING", "NONE"}
        /\ up[d] \in {"processing", "inspected", "pathed", "columned", "described"}
              => status[d] \in {"PROCESSING", "NONE"}
        /\ up[d] \in FailSteps => status[d] \in Transient \cup {"NONE"}

LEMMA StageStep == ASSUME NoFalseErrors, Typed, PartsStored, StageInv, [Next]_vars
                   PROVE StageInv'
<1> USE DEF NoFalseErrors, StageInv, PartsStored, Exists, Typed, TypeOK,
            UpSteps, InFlight, PipeSteps, FailSteps, Statuses, Transient,
            dbVars, copyVars, upVars, clVars, ghosts
<1>1. ASSUME NEW d \in Datasets, Receive(d) PROVE StageInv'
  BY <1>1 DEF Receive, GoTo
<1>2. ASSUME NEW d \in Datasets, Reject(d) PROVE StageInv'
  BY <1>2 DEF Reject, Finish, RemoveTemp
<1>3. ASSUME NEW d \in Datasets, Create(d) PROVE StageInv'
  BY <1>3 DEF Create, Statement, InsertRow, GoTo, Finish
<1>4. ASSUME NEW d \in Datasets, MarkValidating(d) PROVE StageInv'
  BY <1>4 DEF MarkValidating, Statement, GoTo, Throw, UpdateStatus
<1>5. ASSUME NEW d \in Datasets, Upload(d) PROVE StageInv'
  BY <1>5 DEF Upload, GoTo, Throw
<1>6. ASSUME NEW d \in Datasets, Persisted(d) PROVE StageInv'
  BY <1>6 DEF Persisted, RemoveTemp, GoTo
<1>7. ASSUME NEW d \in Datasets, StoreChecksum(d) PROVE StageInv'
  BY <1>7 DEF StoreChecksum, Statement, GoTo, Throw, UpdatePart
<1>8. ASSUME NEW d \in Datasets, FetchBack(d) PROVE StageInv'
  BY <1>8 DEF FetchBack, GoTo, Throw
<1>9. ASSUME NEW d \in Datasets, OpenOwnCopy(d) PROVE StageInv'
  BY <1>9 DEF OpenOwnCopy, OpenFile, GoTo, Throw
<1>10. ASSUME NEW d \in Datasets, WriteOwnCopy(d) PROVE StageInv'
  BY <1>10 DEF WriteOwnCopy, CloseFile, DropPen, AbandonFile, GoTo, Throw
<1>11. ASSUME NEW d \in Datasets, ReadHeader(d) PROVE StageInv'
  BY <1>11 DEF ReadHeader, GoTo, Throw
<1>12. ASSUME NEW d \in Datasets, MarkProcessing(d) PROVE StageInv'
  BY <1>12 DEF MarkProcessing, Statement, GoTo, Throw, UpdateStatus
<1>13. ASSUME NEW d \in Datasets, Inspect(d) PROVE StageInv'
  BY <1>13 DEF Inspect, GoTo, Throw
<1>14. ASSUME NEW d \in Datasets, StorePath(d) PROVE StageInv'
  BY <1>14 DEF StorePath, Statement, GoTo, Throw, UpdatePart
<1>15. ASSUME NEW d \in Datasets, StoreColumns(d) PROVE StageInv'
  BY <1>15 DEF StoreColumns, Statement, GoTo, Throw, InsertColumns, Exists
<1>16. ASSUME NEW d \in Datasets, StoreMetadata(d) PROVE StageInv'
  BY <1>16 DEF StoreMetadata, Statement, GoTo, Throw, UpdatePart
<1>17. ASSUME NEW d \in Datasets, MarkReady(d) PROVE StageInv'
  BY <1>17 DEF MarkReady, Statement, GoTo, Throw, UpdateStatus
<1>18. ASSUME NEW d \in Datasets, CatchRemove(d) PROVE StageInv'
  BY <1>18 DEF CatchRemove, RemoveObject, GoTo
<1>19. ASSUME NEW d \in Datasets, CatchRelease(d) PROVE StageInv'
  BY <1>19 DEF CatchRelease, ReleaseLocalPath, GoTo
<1>20. ASSUME NEW d \in Datasets, CatchTemp(d) PROVE StageInv'
  BY <1>20 DEF CatchTemp, RemoveTemp, GoTo
<1>21. ASSUME NEW d \in Datasets, MarkFailed(d) PROVE StageInv'
  BY <1>21 DEF MarkFailed, Statement, UpdateStatus, GoTo, Finish, Exists
<1>22. ASSUME NEW d \in Datasets, Respond(d) PROVE StageInv'
  BY <1>22 DEF Respond, Exists, Finish
<1>23. ASSUME NEW c \in Clients, DeleteObject(c) PROVE StageInv'
  BY <1>23 DEF DeleteObject, RemoveObject, Move
<1>24. ASSUME NEW c \in Clients, DeleteCopy(c) PROVE StageInv'
  BY <1>24 DEF DeleteCopy, ReleaseLocalPath, Move
<1>25. ASSUME NEW c \in Clients, DeleteRow(c) PROVE StageInv'
  BY <1>25 DEF DeleteRow, Statement, DeleteById, Leave
<1>26. ASSUME NEW c \in Clients, LookUp(c) PROVE StageInv'
  BY <1>26 DEF LookUp, Move
<1>27. ASSUME NEW c \in Clients, Fetch(c) PROVE StageInv'
  BY <1>27 DEF Fetch, Move, Leave
<1>28. ASSUME NEW c \in Clients, OpenCopy(c) PROVE StageInv'
  BY <1>28 DEF OpenCopy, OpenFile, Move, Leave
<1>29. ASSUME NEW c \in Clients, WriteCopy(c) PROVE StageInv'
  BY <1>29 DEF WriteCopy, CloseFile, DropPen, AbandonFile, Move, Leave
<1>30. ASSUME NEW c \in Clients, Query(c) PROVE StageInv'
  BY <1>30 DEF Query, Leave
<1>31. ASSUME NEW c \in Clients, NEW d \in Datasets, StartDelete(c, d) PROVE StageInv'
  BY <1>31 DEF StartDelete, Exists, Begin
<1>32. ASSUME NEW c \in Clients, NEW d \in Datasets, StartRead(c, d) PROVE StageInv'
  BY <1>32 DEF StartRead, Begin
<1>33. ASSUME NEW d \in Datasets, ShowMetric(d) \/ HideMetric(d) PROVE StageInv'
  BY <1>33 DEF ShowMetric, HideMetric
<1>34. CASE Crash
  BY <1>34 DEF Crash
<1>35. CASE UNCHANGED vars
  BY <1>35 DEF vars
<1>36. QED
  BY <1>1, <1>2, <1>3, <1>4, <1>5, <1>6, <1>7, <1>8, <1>9, <1>10, <1>11, <1>12, <1>13,
     <1>14, <1>15, <1>16, <1>17, <1>18, <1>19, <1>20, <1>21, <1>22, <1>23, <1>24, <1>25,
     <1>26, <1>27, <1>28, <1>29, <1>30, <1>31, <1>32, <1>33, <1>34, <1>35
     DEF Next, UploadStep, ClientStep

LEMMA AlwaysStage == ASSUME NoFalseErrors PROVE Spec => []StageInv
<1>1. Init => StageInv
  BY DEF Init, StageInv, FailSteps
<1>2. Typed /\ CompleteInv /\ StageInv /\ [Next]_vars => StageInv'
  BY StageStep DEF CompleteInv
<1>3. QED
  BY AlwaysTyped, AlwaysComplete, <1>1, <1>2, PTL DEF Spec

\* One step of the status, for every dataset.
OrderedStep ==
    \A d \in Datasets :
        \/ MayFollow(status[d], status'[d])
        \/ up[d] = "received" /\ status'[d] = "UPLOADING"

LEMMA OrderStep == ASSUME NoFalseErrors, Typed, StageInv, [Next]_vars PROVE OrderedStep
<1> USE DEF NoFalseErrors, OrderedStep, MayFollow, StageInv, Exists, Typed, TypeOK,
            FailSteps, Statuses, Transient, dbVars, copyVars, upVars, clVars, ghosts
<1>1. ASSUME NEW d \in Datasets, Receive(d) PROVE OrderedStep
  BY <1>1 DEF Receive, GoTo
<1>2. ASSUME NEW d \in Datasets, Reject(d) PROVE OrderedStep
  BY <1>2 DEF Reject, Finish, RemoveTemp
<1>3. ASSUME NEW d \in Datasets, Create(d) PROVE OrderedStep
  BY <1>3 DEF Create, Statement, InsertRow, GoTo, Finish
<1>4. ASSUME NEW d \in Datasets, MarkValidating(d) PROVE OrderedStep
  BY <1>4 DEF MarkValidating, Statement, GoTo, Throw, UpdateStatus
<1>5. ASSUME NEW d \in Datasets, Upload(d) PROVE OrderedStep
  BY <1>5 DEF Upload, GoTo, Throw
<1>6. ASSUME NEW d \in Datasets, Persisted(d) PROVE OrderedStep
  BY <1>6 DEF Persisted, RemoveTemp, GoTo
<1>7. ASSUME NEW d \in Datasets, StoreChecksum(d) PROVE OrderedStep
  BY <1>7 DEF StoreChecksum, Statement, GoTo, Throw, UpdatePart
<1>8. ASSUME NEW d \in Datasets, FetchBack(d) PROVE OrderedStep
  BY <1>8 DEF FetchBack, GoTo, Throw
<1>9. ASSUME NEW d \in Datasets, OpenOwnCopy(d) PROVE OrderedStep
  BY <1>9 DEF OpenOwnCopy, OpenFile, GoTo, Throw
<1>10. ASSUME NEW d \in Datasets, WriteOwnCopy(d) PROVE OrderedStep
  BY <1>10 DEF WriteOwnCopy, CloseFile, DropPen, AbandonFile, GoTo, Throw
<1>11. ASSUME NEW d \in Datasets, ReadHeader(d) PROVE OrderedStep
  BY <1>11 DEF ReadHeader, GoTo, Throw
<1>12. ASSUME NEW d \in Datasets, MarkProcessing(d) PROVE OrderedStep
  BY <1>12 DEF MarkProcessing, Statement, GoTo, Throw, UpdateStatus
<1>13. ASSUME NEW d \in Datasets, Inspect(d) PROVE OrderedStep
  BY <1>13 DEF Inspect, GoTo, Throw
<1>14. ASSUME NEW d \in Datasets, StorePath(d) PROVE OrderedStep
  BY <1>14 DEF StorePath, Statement, GoTo, Throw, UpdatePart
<1>15. ASSUME NEW d \in Datasets, StoreColumns(d) PROVE OrderedStep
  BY <1>15 DEF StoreColumns, Statement, GoTo, Throw, InsertColumns, Exists
<1>16. ASSUME NEW d \in Datasets, StoreMetadata(d) PROVE OrderedStep
  BY <1>16 DEF StoreMetadata, Statement, GoTo, Throw, UpdatePart
<1>17. ASSUME NEW d \in Datasets, MarkReady(d) PROVE OrderedStep
  BY <1>17 DEF MarkReady, Statement, GoTo, Throw, UpdateStatus
<1>18. ASSUME NEW d \in Datasets, CatchRemove(d) PROVE OrderedStep
  BY <1>18 DEF CatchRemove, RemoveObject, GoTo
<1>19. ASSUME NEW d \in Datasets, CatchRelease(d) PROVE OrderedStep
  BY <1>19 DEF CatchRelease, ReleaseLocalPath, GoTo
<1>20. ASSUME NEW d \in Datasets, CatchTemp(d) PROVE OrderedStep
  BY <1>20 DEF CatchTemp, RemoveTemp, GoTo
<1>21. ASSUME NEW d \in Datasets, MarkFailed(d) PROVE OrderedStep
  BY <1>21 DEF MarkFailed, Statement, UpdateStatus, GoTo, Finish, Exists
<1>22. ASSUME NEW d \in Datasets, Respond(d) PROVE OrderedStep
  BY <1>22 DEF Respond, Exists, Finish
<1>23. ASSUME NEW c \in Clients, DeleteObject(c) PROVE OrderedStep
  BY <1>23 DEF DeleteObject, RemoveObject, Move
<1>24. ASSUME NEW c \in Clients, DeleteCopy(c) PROVE OrderedStep
  BY <1>24 DEF DeleteCopy, ReleaseLocalPath, Move
<1>25. ASSUME NEW c \in Clients, DeleteRow(c) PROVE OrderedStep
  BY <1>25 DEF DeleteRow, Statement, DeleteById, Leave
<1>26. ASSUME NEW c \in Clients, LookUp(c) PROVE OrderedStep
  BY <1>26 DEF LookUp, Move
<1>27. ASSUME NEW c \in Clients, Fetch(c) PROVE OrderedStep
  BY <1>27 DEF Fetch, Move, Leave
<1>28. ASSUME NEW c \in Clients, OpenCopy(c) PROVE OrderedStep
  BY <1>28 DEF OpenCopy, OpenFile, Move, Leave
<1>29. ASSUME NEW c \in Clients, WriteCopy(c) PROVE OrderedStep
  BY <1>29 DEF WriteCopy, CloseFile, DropPen, AbandonFile, Move, Leave
<1>30. ASSUME NEW c \in Clients, Query(c) PROVE OrderedStep
  BY <1>30 DEF Query, Leave
<1>31. ASSUME NEW c \in Clients, NEW d \in Datasets, StartDelete(c, d) PROVE OrderedStep
  BY <1>31 DEF StartDelete, Exists, Begin
<1>32. ASSUME NEW c \in Clients, NEW d \in Datasets, StartRead(c, d) PROVE OrderedStep
  BY <1>32 DEF StartRead, Begin
<1>33. ASSUME NEW d \in Datasets, ShowMetric(d) \/ HideMetric(d) PROVE OrderedStep
  BY <1>33 DEF ShowMetric, HideMetric
<1>34. CASE Crash
  BY <1>34 DEF Crash
<1>35. CASE UNCHANGED vars
  BY <1>35 DEF vars
<1>36. QED
  BY <1>1, <1>2, <1>3, <1>4, <1>5, <1>6, <1>7, <1>8, <1>9, <1>10, <1>11, <1>12, <1>13,
     <1>14, <1>15, <1>16, <1>17, <1>18, <1>19, <1>20, <1>21, <1>22, <1>23, <1>24, <1>25,
     <1>26, <1>27, <1>28, <1>29, <1>30, <1>31, <1>32, <1>33, <1>34, <1>35
     DEF Next, UploadStep, ClientStep

\* The status of a dataset moves forward, and a deleted row never comes back.
THEOREM StatusOrdered == ASSUME NoFalseErrors PROVE Spec => StatusOrder
<1>1. Typed /\ StageInv /\ [Next]_vars => [OrderedStep]_vars
  BY OrderStep
<1>2. Spec => [][OrderedStep]_vars
  BY AlwaysTyped, AlwaysStage, <1>1, PTL DEF Spec
<1>3. QED
  BY <1>2 DEF StatusOrder, OrderedStep

-----------------------------------------------------------------------------
(* Refinement                                                                *)

\* Once a row was inserted, only a delete makes it disappear.
AbsentInv ==
    \A d \in Datasets :
        /\ ~Exists(d) /\ d \notin asked => up[d] \in {"new", "received", "done", "dead"}
        /\ up[d] \in {"new", "received"} => d \notin asked

AbsentAll == AbsentInv /\ DeletesAsked

LEMMA AbsentStep == ASSUME Typed, PartsStored, AbsentAll, [Next]_vars PROVE AbsentAll'
<1> USE DEF AbsentAll, AbsentInv, DeletesAsked, DeleteSteps, PartsStored, Exists, Typed, TypeOK,
            ClientsBusy, UpSteps, InFlight, PipeSteps, FailSteps, Statuses, Transient,
            dbVars, copyVars, upVars, clVars, ghosts
<1>1. ASSUME NEW d \in Datasets, Receive(d) PROVE AbsentAll'
  BY <1>1 DEF Receive, GoTo
<1>2. ASSUME NEW d \in Datasets, Reject(d) PROVE AbsentAll'
  BY <1>2 DEF Reject, Finish, RemoveTemp
<1>3. ASSUME NEW d \in Datasets, Create(d) PROVE AbsentAll'
  BY <1>3 DEF Create, Statement, InsertRow, GoTo, Finish
<1>4. ASSUME NEW d \in Datasets, MarkValidating(d) PROVE AbsentAll'
  BY <1>4 DEF MarkValidating, Statement, GoTo, Throw, UpdateStatus
<1>5. ASSUME NEW d \in Datasets, Upload(d) PROVE AbsentAll'
  BY <1>5 DEF Upload, GoTo, Throw
<1>6. ASSUME NEW d \in Datasets, Persisted(d) PROVE AbsentAll'
  BY <1>6 DEF Persisted, RemoveTemp, GoTo
<1>7. ASSUME NEW d \in Datasets, StoreChecksum(d) PROVE AbsentAll'
  BY <1>7 DEF StoreChecksum, Statement, GoTo, Throw, UpdatePart
<1>8. ASSUME NEW d \in Datasets, FetchBack(d) PROVE AbsentAll'
  BY <1>8 DEF FetchBack, GoTo, Throw
<1>9. ASSUME NEW d \in Datasets, OpenOwnCopy(d) PROVE AbsentAll'
  BY <1>9 DEF OpenOwnCopy, OpenFile, GoTo, Throw
<1>10. ASSUME NEW d \in Datasets, WriteOwnCopy(d) PROVE AbsentAll'
  BY <1>10 DEF WriteOwnCopy, CloseFile, DropPen, AbandonFile, GoTo, Throw
<1>11. ASSUME NEW d \in Datasets, ReadHeader(d) PROVE AbsentAll'
  BY <1>11 DEF ReadHeader, GoTo, Throw
<1>12. ASSUME NEW d \in Datasets, MarkProcessing(d) PROVE AbsentAll'
  BY <1>12 DEF MarkProcessing, Statement, GoTo, Throw, UpdateStatus
<1>13. ASSUME NEW d \in Datasets, Inspect(d) PROVE AbsentAll'
  BY <1>13 DEF Inspect, GoTo, Throw
<1>14. ASSUME NEW d \in Datasets, StorePath(d) PROVE AbsentAll'
  BY <1>14 DEF StorePath, Statement, GoTo, Throw, UpdatePart
<1>15. ASSUME NEW d \in Datasets, StoreColumns(d) PROVE AbsentAll'
  BY <1>15 DEF StoreColumns, Statement, GoTo, Throw, InsertColumns, Exists
<1>16. ASSUME NEW d \in Datasets, StoreMetadata(d) PROVE AbsentAll'
  BY <1>16 DEF StoreMetadata, Statement, GoTo, Throw, UpdatePart
<1>17. ASSUME NEW d \in Datasets, MarkReady(d) PROVE AbsentAll'
  BY <1>17 DEF MarkReady, Statement, GoTo, Throw, UpdateStatus
<1>18. ASSUME NEW d \in Datasets, CatchRemove(d) PROVE AbsentAll'
  BY <1>18 DEF CatchRemove, RemoveObject, GoTo
<1>19. ASSUME NEW d \in Datasets, CatchRelease(d) PROVE AbsentAll'
  BY <1>19 DEF CatchRelease, ReleaseLocalPath, GoTo
<1>20. ASSUME NEW d \in Datasets, CatchTemp(d) PROVE AbsentAll'
  BY <1>20 DEF CatchTemp, RemoveTemp, GoTo
<1>21. ASSUME NEW d \in Datasets, MarkFailed(d) PROVE AbsentAll'
  BY <1>21 DEF MarkFailed, Statement, UpdateStatus, GoTo, Finish, Exists
<1>22. ASSUME NEW d \in Datasets, Respond(d) PROVE AbsentAll'
  BY <1>22 DEF Respond, Exists, Finish
<1>23. ASSUME NEW c \in Clients, DeleteObject(c) PROVE AbsentAll'
  BY <1>23 DEF DeleteObject, RemoveObject, Move
<1>24. ASSUME NEW c \in Clients, DeleteCopy(c) PROVE AbsentAll'
  BY <1>24 DEF DeleteCopy, ReleaseLocalPath, Move
<1>25. ASSUME NEW c \in Clients, DeleteRow(c) PROVE AbsentAll'
  BY <1>25 DEF DeleteRow, Statement, DeleteById, Leave
<1>26. ASSUME NEW c \in Clients, LookUp(c) PROVE AbsentAll'
  BY <1>26 DEF LookUp, Move
<1>27. ASSUME NEW c \in Clients, Fetch(c) PROVE AbsentAll'
  BY <1>27 DEF Fetch, Move, Leave
<1>28. ASSUME NEW c \in Clients, OpenCopy(c) PROVE AbsentAll'
  BY <1>28 DEF OpenCopy, OpenFile, Move, Leave
<1>29. ASSUME NEW c \in Clients, WriteCopy(c) PROVE AbsentAll'
  BY <1>29 DEF WriteCopy, CloseFile, DropPen, AbandonFile, Move, Leave
<1>30. ASSUME NEW c \in Clients, Query(c) PROVE AbsentAll'
  BY <1>30 DEF Query, Leave
<1>31. ASSUME NEW c \in Clients, NEW d \in Datasets, StartDelete(c, d) PROVE AbsentAll'
  BY <1>31 DEF StartDelete, Exists, Begin
<1>32. ASSUME NEW c \in Clients, NEW d \in Datasets, StartRead(c, d) PROVE AbsentAll'
  BY <1>32 DEF StartRead, Begin
<1>33. ASSUME NEW d \in Datasets, ShowMetric(d) \/ HideMetric(d) PROVE AbsentAll'
  BY <1>33 DEF ShowMetric, HideMetric
<1>34. CASE Crash
  BY <1>34 DEF Crash
<1>35. CASE UNCHANGED vars
  BY <1>35 DEF vars
<1>36. QED
  BY <1>1, <1>2, <1>3, <1>4, <1>5, <1>6, <1>7, <1>8, <1>9, <1>10, <1>11, <1>12, <1>13,
     <1>14, <1>15, <1>16, <1>17, <1>18, <1>19, <1>20, <1>21, <1>22, <1>23, <1>24, <1>25,
     <1>26, <1>27, <1>28, <1>29, <1>30, <1>31, <1>32, <1>33, <1>34, <1>35
     DEF Next, UploadStep, ClientStep

LEMMA AlwaysAbsent == Spec => []AbsentAll
<1>1. Init => AbsentAll
  BY DEF Init, AbsentAll, AbsentInv, DeletesAsked, DeleteSteps, Exists
<1>2. Typed /\ CompleteInv /\ AbsentAll /\ [Next]_vars => AbsentAll'
  BY AbsentStep DEF CompleteInv
<1>3. QED
  BY AlwaysTyped, AlwaysComplete, <1>1, <1>2, PTL DEF Spec

\* A step that changes no phase and answers nobody is none of the registry's.
LEMMA Stutter ==
    ASSUME TypeOK,
           answer' = answer,
           asked \subseteq asked',
           \A d \in Datasets : status'[d] = status[d] \/ {status[d], status'[d]} \subseteq Transient,
           \A d \in Datasets : d \in asked' \ asked => Exists(d)
    PROVE  UNCHANGED Registry!vars
<1>1. ASSUME NEW d \in Datasets PROVE Phase(d)' = Phase(d)
  <2>1. CASE status'[d] = status[d] /\ status[d] # "NONE"
    BY <2>1 DEF Phase, Transient, TypeOK, Statuses
  <2>2. CASE {status[d], status'[d]} \subseteq Transient
    BY <2>2 DEF Phase, Transient
  <2>3. CASE status'[d] = status[d] /\ status[d] = "NONE"
    <3>1. d \in asked' <=> d \in asked
      BY <2>3 DEF Exists
    <3>2. QED
      BY <2>3, <3>1 DEF Phase, Transient
  <2>4. QED
    BY <2>1, <2>2, <2>3
<1>2. QED
  BY <1>1 DEF PhaseMap, Registry!vars

\* A step that changes the status of one dataset changes its phase alone.
LEMMA OnePhase ==
    ASSUME TypeOK, asked' = asked, NEW d \in Datasets, NEW s \in Statuses \cup {"NONE"},
           status' = [status EXCEPT ![d] = s]
    PROVE  PhaseMap' = [PhaseMap EXCEPT ![d] =
                           IF s \in Transient THEN "processing"
                           ELSE IF s = "READY" THEN "ready"
                           ELSE IF s = "FAILED" THEN "failed"
                           ELSE IF d \in asked THEN "deleted" ELSE "absent"]
<1>1. status'[d] = s /\ \A e \in Datasets \ {d} : status'[e] = status[e]
  BY DEF TypeOK
<1>2. ASSUME NEW e \in Datasets \ {d} PROVE Phase(e)' = Phase(e)
  BY <1>1 DEF Phase
<1>3. Phase(d)' = IF s \in Transient THEN "processing"
                  ELSE IF s = "READY" THEN "ready"
                  ELSE IF s = "FAILED" THEN "failed"
                  ELSE IF d \in asked THEN "deleted" ELSE "absent"
  BY <1>1 DEF Phase, Transient, Statuses
<1>4. QED
  BY <1>2, <1>3 DEF PhaseMap

RegistryInv == Typed /\ CompleteInv /\ AnswerInv /\ StageInv /\ AbsentAll

\* The phase of a dataset, by its status.
LEMMA PhaseOf ==
    ASSUME TypeOK, NEW d \in Datasets
    PROVE  /\ PhaseMap[d] = Phase(d)
           /\ status[d] \in Transient => Phase(d) = "processing"
           /\ status[d] = "READY" => Phase(d) = "ready"
           /\ status[d] = "FAILED" => Phase(d) = "failed"
           /\ status[d] = "NONE" => Phase(d) = IF d \in asked THEN "deleted" ELSE "absent"
  BY DEF PhaseMap, Phase, Transient

LEMMA RegistryStep ==
    ASSUME NoFalseErrors, RegistryInv, [Next]_vars
    PROVE  [Registry!Next]_(Registry!vars)
<1> USE DEF NoFalseErrors, RegistryInv, Typed, TypeOK, CompleteInv, PartsStored, AnswerInv,
            AnswerLast, StageInv, AbsentAll, AbsentInv, Exists, FailSteps, Statuses, Transient,
            dbVars, copyVars, upVars, clVars, ghosts
<1>1. ASSUME NEW d \in Datasets, Receive(d) PROVE UNCHANGED Registry!vars
  BY <1>1, Stutter DEF Receive, GoTo
<1>2. ASSUME NEW d \in Datasets, MarkValidating(d) PROVE UNCHANGED Registry!vars
  BY <1>2, Stutter DEF MarkValidating, Statement, GoTo, Throw, UpdateStatus
<1>3. ASSUME NEW d \in Datasets, Upload(d) PROVE UNCHANGED Registry!vars
  BY <1>3, Stutter DEF Upload, GoTo, Throw
<1>4. ASSUME NEW d \in Datasets, Persisted(d) PROVE UNCHANGED Registry!vars
  BY <1>4, Stutter DEF Persisted, RemoveTemp, GoTo
<1>5. ASSUME NEW d \in Datasets, StoreChecksum(d) PROVE UNCHANGED Registry!vars
  BY <1>5, Stutter DEF StoreChecksum, Statement, GoTo, Throw, UpdatePart
<1>6. ASSUME NEW d \in Datasets, FetchBack(d) PROVE UNCHANGED Registry!vars
  BY <1>6, Stutter DEF FetchBack, GoTo, Throw
<1>7. ASSUME NEW d \in Datasets, OpenOwnCopy(d) PROVE UNCHANGED Registry!vars
  BY <1>7, Stutter DEF OpenOwnCopy, OpenFile, GoTo, Throw
<1>8. ASSUME NEW d \in Datasets, WriteOwnCopy(d) PROVE UNCHANGED Registry!vars
  BY <1>8, Stutter DEF WriteOwnCopy, CloseFile, DropPen, AbandonFile, GoTo, Throw
<1>9. ASSUME NEW d \in Datasets, ReadHeader(d) PROVE UNCHANGED Registry!vars
  BY <1>9, Stutter DEF ReadHeader, GoTo, Throw
<1>10. ASSUME NEW d \in Datasets, MarkProcessing(d) PROVE UNCHANGED Registry!vars
  BY <1>10, Stutter DEF MarkProcessing, Statement, GoTo, Throw, UpdateStatus
<1>11. ASSUME NEW d \in Datasets, Inspect(d) PROVE UNCHANGED Registry!vars
  BY <1>11, Stutter DEF Inspect, GoTo, Throw
<1>12. ASSUME NEW d \in Datasets, StorePath(d) PROVE UNCHANGED Registry!vars
  BY <1>12, Stutter DEF StorePath, Statement, GoTo, Throw, UpdatePart
<1>13. ASSUME NEW d \in Datasets, StoreColumns(d) PROVE UNCHANGED Registry!vars
  BY <1>13, Stutter DEF StoreColumns, Statement, GoTo, Throw, InsertColumns, Exists
<1>14. ASSUME NEW d \in Datasets, StoreMetadata(d) PROVE UNCHANGED Registry!vars
  BY <1>14, Stutter DEF StoreMetadata, Statement, GoTo, Throw, UpdatePart
<1>15. ASSUME NEW d \in Datasets, CatchRemove(d) PROVE UNCHANGED Registry!vars
  BY <1>15, Stutter DEF CatchRemove, RemoveObject, GoTo
<1>16. ASSUME NEW d \in Datasets, CatchRelease(d) PROVE UNCHANGED Registry!vars
  BY <1>16, Stutter DEF CatchRelease, ReleaseLocalPath, GoTo
<1>17. ASSUME NEW d \in Datasets, CatchTemp(d) PROVE UNCHANGED Registry!vars
  BY <1>17, Stutter DEF CatchTemp, RemoveTemp, GoTo
<1>18. ASSUME NEW c \in Clients, DeleteObject(c) PROVE UNCHANGED Registry!vars
  BY <1>18, Stutter DEF DeleteObject, RemoveObject, Move
<1>19. ASSUME NEW c \in Clients, DeleteCopy(c) PROVE UNCHANGED Registry!vars
  BY <1>19, Stutter DEF DeleteCopy, ReleaseLocalPath, Move
<1>20. ASSUME NEW c \in Clients, LookUp(c) PROVE UNCHANGED Registry!vars
  BY <1>20, Stutter DEF LookUp, Move
<1>21. ASSUME NEW c \in Clients, Fetch(c) PROVE UNCHANGED Registry!vars
  BY <1>21, Stutter DEF Fetch, Move, Leave
<1>22. ASSUME NEW c \in Clients, OpenCopy(c) PROVE UNCHANGED Registry!vars
  BY <1>22, Stutter DEF OpenCopy, OpenFile, Move, Leave
<1>23. ASSUME NEW c \in Clients, WriteCopy(c) PROVE UNCHANGED Registry!vars
  BY <1>23, Stutter DEF WriteCopy, CloseFile, DropPen, AbandonFile, Move, Leave
<1>24. ASSUME NEW c \in Clients, Query(c) PROVE UNCHANGED Registry!vars
  BY <1>24, Stutter DEF Query, Leave
<1>25. ASSUME NEW c \in Clients, NEW d \in Datasets, StartDelete(c, d) PROVE UNCHANGED Registry!vars
  BY <1>25, Stutter DEF StartDelete, Exists, Begin
<1>26. ASSUME NEW c \in Clients, NEW d \in Datasets, StartRead(c, d) PROVE UNCHANGED Registry!vars
  BY <1>26, Stutter DEF StartRead, Begin
<1>27. ASSUME NEW d \in Datasets, ShowMetric(d) \/ HideMetric(d) PROVE UNCHANGED Registry!vars
  BY <1>27, Stutter DEF ShowMetric, HideMetric
<1>28. CASE Crash
  <2>1. UNCHANGED Registry!vars
    BY <1>28, Stutter DEF Crash
  <2>2. QED
    BY <2>1
<1>29. CASE UNCHANGED vars
  <2>1. UNCHANGED Registry!vars
    BY <1>29, Stutter DEF vars
  <2>2. QED
    BY <2>1
<1>30. ASSUME NEW d \in Datasets, Reject(d) PROVE [Registry!Next]_(Registry!vars)
  <2>1. Registry!Refuse(d)
    BY <1>30, Stutter, PhaseOf DEF Reject, Finish, Registry!Refuse, Registry!Say, PhaseMap, Phase
  <2>2. QED
    BY <2>1 DEF Registry!Next
<1>31. ASSUME NEW d \in Datasets, Create(d) PROVE [Registry!Next]_(Registry!vars)
  <2>1. PhaseMap[d] = "absent" /\ answer[d] = "none"
    BY <1>31, PhaseOf DEF Create
  <2>2. CASE InsertRow(d) /\ GoTo(d, "created")
    <3>1. PhaseMap' = [PhaseMap EXCEPT ![d] = "processing"]
      BY <1>31, <2>2, OnePhase DEF Create, InsertRow
    <3>2. Registry!Accept(d)
      BY <1>31, <2>1, <2>2, <3>1 DEF GoTo, Registry!Accept, Registry!SetPhase
    <3>3. QED
      BY <3>2 DEF Registry!Next
  <2>3. CASE UNCHANGED dbVars /\ Finish(d, "ERROR")
    <3>1. PhaseMap' = PhaseMap
      BY <1>31, <2>3 DEF Create, PhaseMap, Phase
    <3>2. Registry!Refuse(d)
      BY <1>31, <2>1, <2>3, <3>1 DEF Finish, Registry!Refuse, Registry!Say
    <3>3. QED
      BY <3>2 DEF Registry!Next
  <2>4. QED
    BY <1>31, <2>2, <2>3 DEF Create, Statement
<1>32. ASSUME NEW d \in Datasets, MarkReady(d) PROVE [Registry!Next]_(Registry!vars)
  <2>1. CASE Exists(d) /\ UpdateStatus(d, "READY") /\ GoTo(d, "piped")
    <3>1. PhaseMap[d] = "processing" /\ answer[d] = "none"
      BY <1>32, <2>1, PhaseOf DEF MarkReady
    <3>2. PhaseMap' = [PhaseMap EXCEPT ![d] = "ready"]
      BY <1>32, <2>1, OnePhase DEF MarkReady, UpdateStatus
    <3>3. Registry!Settle(d)
      BY <2>1, <3>1, <3>2 DEF GoTo, Registry!Settle, Registry!SetPhase
    <3>4. QED
      BY <3>3 DEF Registry!Next
  <2>2. CASE UNCHANGED dbVars /\ UNCHANGED answer
    <3>1. UNCHANGED Registry!vars
      BY <1>32, <2>2, Stutter DEF MarkReady
    <3>2. QED
      BY <3>1
  <2>3. QED
    BY <1>32, <2>1, <2>2 DEF MarkReady, Statement, UpdateStatus, GoTo, Throw
<1>33. ASSUME NEW d \in Datasets, MarkFailed(d) PROVE [Registry!Next]_(Registry!vars)
  <2>1. CASE Exists(d) /\ UpdateStatus(d, "FAILED") /\ GoTo(d, "piped")
    <3>1. PhaseMap[d] = "processing" /\ answer[d] = "none"
      BY <1>33, <2>1, PhaseOf DEF MarkFailed
    <3>2. PhaseMap' = [PhaseMap EXCEPT ![d] = "failed"]
      BY <1>33, <2>1, OnePhase DEF MarkFailed, UpdateStatus
    <3>3. Registry!Settle(d)
      BY <2>1, <3>1, <3>2 DEF GoTo, Registry!Settle, Registry!SetPhase
    <3>4. QED
      BY <3>3 DEF Registry!Next
  <2>2. CASE UNCHANGED dbVars /\ UNCHANGED answer
    <3>1. UNCHANGED Registry!vars
      BY <1>33, <2>2, Stutter DEF MarkFailed
    <3>2. QED
      BY <3>1
  <2>3. CASE UNCHANGED dbVars /\ Finish(d, "ERROR")
    <3>1. PhaseMap' = PhaseMap
      BY <1>33, <2>3 DEF MarkFailed, PhaseMap, Phase
    <3>2. PhaseMap[d] \in {"processing", "deleted"} /\ answer[d] = "none"
      BY <1>33, PhaseOf DEF MarkFailed
    <3>3. Registry!Apologise(d)
      BY <2>3, <3>1, <3>2 DEF Finish, Registry!Apologise, Registry!Say
    <3>4. QED
      BY <3>3 DEF Registry!Next
  <2>4. QED
    BY <1>33, <2>1, <2>2, <2>3 DEF MarkFailed, Statement, UpdateStatus, GoTo
<1>34. ASSUME NEW d \in Datasets, Respond(d) PROVE [Registry!Next]_(Registry!vars)
  <2>1. PhaseMap' = PhaseMap /\ answer[d] = "none"
    BY <1>34 DEF Respond, PhaseMap, Phase
  <2>2. CASE Exists(d) /\ Finish(d, status[d])
    <3>1. Registry!Confirm(d)
      BY <1>34, <2>1, <2>2, PhaseOf
         DEF Respond, PipedIsFinal, Finish, Registry!Confirm, Registry!Say
    <3>2. QED
      BY <3>1 DEF Registry!Next
  <2>3. CASE (~Exists(d) \/ "db" \in Faults) /\ Finish(d, "ERROR")
    <3>1. PhaseMap[d] # "absent" /\ (PhaseMap[d] = "deleted" \/ Faults \cap {"db", "ack"} # {})
      BY <1>34, <2>3, PhaseOf DEF Respond
    <3>2. Registry!Apologise(d)
      BY <2>1, <2>3, <3>1 DEF Finish, Registry!Apologise, Registry!Say
    <3>3. QED
      BY <3>2 DEF Registry!Next
  <2>4. QED
    BY <1>34, <2>2, <2>3 DEF Respond
<1>35. ASSUME NEW c \in Clients, DeleteRow(c) PROVE [Registry!Next]_(Registry!vars)
  <2>1. on[c] \in Datasets /\ on[c] \in asked
    BY <1>35 DEF DeleteRow, ClientsBusy, DeletesAsked, DeleteSteps
  <2>2. CASE Exists(on[c]) /\ DeleteById(on[c])
    <3>1. PhaseMap[on[c]] \in {"processing", "ready", "failed"}
      BY <2>1, <2>2, PhaseOf
    <3>2. PhaseMap' = [PhaseMap EXCEPT ![on[c]] = "deleted"]
      BY <1>35, <2>1, <2>2, OnePhase DEF DeleteRow, DeleteById
    <3>3. Registry!Withdraw(on[c])
      BY <1>35, <3>1, <3>2 DEF DeleteRow, Registry!Withdraw, Registry!SetPhase
    <3>4. QED
      BY <2>1, <3>3 DEF Registry!Next
  <2>3. CASE status' = status
    <3>1. UNCHANGED Registry!vars
      BY <1>35, <2>3, Stutter DEF DeleteRow
    <3>2. QED
      BY <3>1
  <2>4. QED
    BY <1>35, <2>1, <2>2, <2>3 DEF DeleteRow, Statement, DeleteById
<1>36. QED
  BY <1>1, <1>2, <1>3, <1>4, <1>5, <1>6, <1>7, <1>8, <1>9, <1>10, <1>11, <1>12, <1>13,
     <1>14, <1>15, <1>16, <1>17, <1>18, <1>19, <1>20, <1>21, <1>22, <1>23, <1>24, <1>25,
     <1>26, <1>27, <1>28, <1>29, <1>30, <1>31, <1>32, <1>33, <1>34, <1>35
     DEF Next, UploadStep, ClientStep

\* The handlers, with everything that fails, races or dies around them, show
\* their clients nothing but behaviours of the registry.
THEOREM ImplementsRegistrySafely == ASSUME NoFalseErrors PROVE Spec => Registry!Spec
<1>1. Init => Registry!Init
  BY DEF Init, Registry!Init, PhaseMap, Phase, Transient
<1>2. RegistryInv /\ [Next]_vars => [Registry!Next]_(Registry!vars)
  BY RegistryStep
<1>3. Spec => []RegistryInv
  BY AlwaysTyped, AlwaysComplete, AlwaysAnswer, AlwaysStage, AlwaysAbsent, PTL DEF RegistryInv
<1>4. QED
  BY <1>1, <1>2, <1>3, PTL DEF Spec, Registry!Spec

-----------------------------------------------------------------------------
(* Orphans.  When no removal and no upload goes wrong unnoticed, the early   *)
(* DELETE is the only way an object loses its row.                           *)

NoSilentLoss == Faults \cap {"storage", "ack", "crash"} = {}

RaceInv ==
    \A d \in Datasets :
        /\ up[d] \in {"new", "received", "created", "validating"} =>
              d \notin objects /\ holds[d] = {}
        /\ d \notin asked /\ ~Exists(d) /\ up[d] = "done" => d \notin objects
        /\ d \in asked /\ d \notin hasty =>
              /\ up[d] \notin {"new", "received", "created", "validating"}
              /\ ~Exists(d) => d \notin objects
              /\ \A c \in Clients :
                    on[c] = d /\ at[c] \in {"delRelease", "delRow"} => d \notin objects

LEMMA RaceStep ==
    ASSUME NoSilentLoss, Typed, PartsStored, AbsentAll, RaceInv, [Next]_vars PROVE RaceInv'
<1> USE DEF NoSilentLoss, RaceInv, PartsStored, AbsentAll, AbsentInv, DeletesAsked, DeleteSteps,
            Exists, Typed, TypeOK, ClientsBusy, UpSteps, InFlight, PipeSteps, FailSteps,
            dbVars, copyVars, upVars, clVars, ghosts
<1>1. ASSUME NEW d \in Datasets, Receive(d) PROVE RaceInv'
  BY <1>1 DEF Receive, GoTo
<1>2. ASSUME NEW d \in Datasets, Reject(d) PROVE RaceInv'
  BY <1>2 DEF Reject, Finish, RemoveTemp
<1>3. ASSUME NEW d \in Datasets, Create(d) PROVE RaceInv'
  BY <1>3 DEF Create, Statement, InsertRow, GoTo, Finish
<1>4. ASSUME NEW d \in Datasets, MarkValidating(d) PROVE RaceInv'
  BY <1>4 DEF MarkValidating, Statement, GoTo, Throw, UpdateStatus
<1>5. ASSUME NEW d \in Datasets, Upload(d) PROVE RaceInv'
  BY <1>5 DEF Upload, GoTo, Throw
<1>6. ASSUME NEW d \in Datasets, Persisted(d) PROVE RaceInv'
  BY <1>6 DEF Persisted, RemoveTemp, GoTo
<1>7. ASSUME NEW d \in Datasets, StoreChecksum(d) PROVE RaceInv'
  BY <1>7 DEF StoreChecksum, Statement, GoTo, Throw, UpdatePart
<1>8. ASSUME NEW d \in Datasets, FetchBack(d) PROVE RaceInv'
  BY <1>8 DEF FetchBack, GoTo, Throw
<1>9. ASSUME NEW d \in Datasets, OpenOwnCopy(d) PROVE RaceInv'
  BY <1>9 DEF OpenOwnCopy, OpenFile, GoTo, Throw
<1>10. ASSUME NEW d \in Datasets, WriteOwnCopy(d) PROVE RaceInv'
  BY <1>10 DEF WriteOwnCopy, CloseFile, DropPen, AbandonFile, GoTo, Throw
<1>11. ASSUME NEW d \in Datasets, ReadHeader(d) PROVE RaceInv'
  BY <1>11 DEF ReadHeader, GoTo, Throw
<1>12. ASSUME NEW d \in Datasets, MarkProcessing(d) PROVE RaceInv'
  BY <1>12 DEF MarkProcessing, Statement, GoTo, Throw, UpdateStatus
<1>13. ASSUME NEW d \in Datasets, Inspect(d) PROVE RaceInv'
  BY <1>13 DEF Inspect, GoTo, Throw
<1>14. ASSUME NEW d \in Datasets, StorePath(d) PROVE RaceInv'
  BY <1>14 DEF StorePath, Statement, GoTo, Throw, UpdatePart
<1>15. ASSUME NEW d \in Datasets, StoreColumns(d) PROVE RaceInv'
  BY <1>15 DEF StoreColumns, Statement, GoTo, Throw, InsertColumns, Exists
<1>16. ASSUME NEW d \in Datasets, StoreMetadata(d) PROVE RaceInv'
  BY <1>16 DEF StoreMetadata, Statement, GoTo, Throw, UpdatePart
<1>17. ASSUME NEW d \in Datasets, MarkReady(d) PROVE RaceInv'
  BY <1>17 DEF MarkReady, Statement, GoTo, Throw, UpdateStatus
<1>18. ASSUME NEW d \in Datasets, CatchRemove(d) PROVE RaceInv'
  BY <1>18 DEF CatchRemove, RemoveObject, GoTo
<1>19. ASSUME NEW d \in Datasets, CatchRelease(d) PROVE RaceInv'
  BY <1>19 DEF CatchRelease, ReleaseLocalPath, GoTo
<1>20. ASSUME NEW d \in Datasets, CatchTemp(d) PROVE RaceInv'
  BY <1>20 DEF CatchTemp, RemoveTemp, GoTo
<1>21. ASSUME NEW d \in Datasets, MarkFailed(d) PROVE RaceInv'
  BY <1>21 DEF MarkFailed, Statement, UpdateStatus, GoTo, Finish, Exists
<1>22. ASSUME NEW d \in Datasets, Respond(d) PROVE RaceInv'
  BY <1>22 DEF Respond, Exists, Finish
<1>23. ASSUME NEW c \in Clients, DeleteObject(c) PROVE RaceInv'
  BY <1>23 DEF DeleteObject, RemoveObject, Move
<1>24. ASSUME NEW c \in Clients, DeleteCopy(c) PROVE RaceInv'
  BY <1>24 DEF DeleteCopy, ReleaseLocalPath, Move
<1>25. ASSUME NEW c \in Clients, DeleteRow(c) PROVE RaceInv'
  BY <1>25 DEF DeleteRow, Statement, DeleteById, Leave
<1>26. ASSUME NEW c \in Clients, LookUp(c) PROVE RaceInv'
  BY <1>26 DEF LookUp, Move
<1>27. ASSUME NEW c \in Clients, Fetch(c) PROVE RaceInv'
  BY <1>27 DEF Fetch, Move, Leave
<1>28. ASSUME NEW c \in Clients, OpenCopy(c) PROVE RaceInv'
  BY <1>28 DEF OpenCopy, OpenFile, Move, Leave
<1>29. ASSUME NEW c \in Clients, WriteCopy(c) PROVE RaceInv'
  BY <1>29 DEF WriteCopy, CloseFile, DropPen, AbandonFile, Move, Leave
<1>30. ASSUME NEW c \in Clients, Query(c) PROVE RaceInv'
  BY <1>30 DEF Query, Leave
<1>31. ASSUME NEW c \in Clients, NEW d \in Datasets, StartDelete(c, d) PROVE RaceInv'
  BY <1>31 DEF StartDelete, Exists, Begin
<1>32. ASSUME NEW c \in Clients, NEW d \in Datasets, StartRead(c, d) PROVE RaceInv'
  BY <1>32 DEF StartRead, Begin
<1>33. ASSUME NEW d \in Datasets, ShowMetric(d) \/ HideMetric(d) PROVE RaceInv'
  BY <1>33 DEF ShowMetric, HideMetric
<1>34. CASE Crash
  BY <1>34 DEF Crash
<1>35. CASE UNCHANGED vars
  BY <1>35 DEF vars
<1>36. QED
  BY <1>1, <1>2, <1>3, <1>4, <1>5, <1>6, <1>7, <1>8, <1>9, <1>10, <1>11, <1>12, <1>13,
     <1>14, <1>15, <1>16, <1>17, <1>18, <1>19, <1>20, <1>21, <1>22, <1>23, <1>24, <1>25,
     <1>26, <1>27, <1>28, <1>29, <1>30, <1>31, <1>32, <1>33, <1>34, <1>35
     DEF Next, UploadStep, ClientStep

\* Every order of uploads and deletes but one leaves no object behind.
THEOREM OrphansByRace == ASSUME NoSilentLoss PROVE Spec => []OrphanOnlyByRace
<1>1. Init => RaceInv
  BY DEF Init, RaceInv
<1>2. Typed /\ CompleteInv /\ AbsentAll /\ RaceInv /\ [Next]_vars => RaceInv'
  BY RaceStep DEF CompleteInv
<1>3. RaceInv => OrphanOnlyByRace
  BY DEF RaceInv, OrphanOnlyByRace, Quiet
<1>4. QED
  BY AlwaysTyped, AlwaysComplete, AlwaysAbsent, <1>1, <1>2, <1>3, PTL DEF Spec

-----------------------------------------------------------------------------
(* multer's temp file, provided that what is removed is gone and that no     *)
(* INSERT takes effect and still reports an error.                           *)

SoundTemp == Faults \cap {"disk", "ack"} = {}

\* The steps after the one that has removed the temp file
Removed == {"stored", "summed", "fetched", "writing", "cached", "headed", "processing",
            "inspected", "pathed", "columned", "described", "failMark", "piped"}

TempInv ==
    /\ \A d \in Datasets :
          /\ up[d] \in {"new", "received"} => d \notin asked /\ ~Exists(d)
          /\ up[d] \in Removed => d \notin temps
    /\ TempOutlivesRefusalOnly

\* Requests on a dataset leave uploads alone, and none begins without a row.
LEMMA ClientsKeepTemps ==
    ASSUME Typed, TempInv, UNCHANGED <<temps, upVars>>,
           \A d \in Datasets : Exists(d)' => Exists(d),
           \A d \in Datasets : d \in asked' => d \in asked \/ Exists(d)
    PROVE  TempInv'
  BY DEF TempInv, TempOutlivesRefusalOnly, Removed, Exists, upVars

LEMMA TempStep == ASSUME SoundTemp, Typed, PartsStored, TempInv, [Next]_vars PROVE TempInv'
<1> USE DEF dbVars, copyVars, upVars, clVars, ghosts
<1>1. ASSUME NEW d \in Datasets, Receive(d) PROVE TempInv'
  BY <1>1 DEF Receive, GoTo, TempInv, TempOutlivesRefusalOnly, Removed, Exists, Typed, TypeOK
<1>2. ASSUME NEW d \in Datasets, UploadStep(d) PROVE TempInv'
  <2> USE DEF SoundTemp, TempInv, TempOutlivesRefusalOnly, Removed, Exists, Typed, TypeOK,
              InFlight, PipeSteps, FailSteps, PartsStored
  <2>1. CASE Reject(d) BY <2>1 DEF Reject, RemoveTemp, Finish
  <2>2. CASE Create(d) BY <2>2 DEF Create, Statement, InsertRow, GoTo, Finish
  <2>3. CASE MarkValidating(d)
    BY <2>3 DEF MarkValidating, Statement, GoTo, Throw, UpdateStatus
  <2>4. CASE Upload(d) BY <2>4 DEF Upload, GoTo, Throw
  <2>5. CASE Persisted(d) BY <2>5 DEF Persisted, RemoveTemp, GoTo
  <2>6. CASE StoreChecksum(d)
    BY <2>6 DEF StoreChecksum, Statement, GoTo, Throw, UpdatePart
  <2>7. CASE FetchBack(d) BY <2>7 DEF FetchBack, GoTo, Throw
  <2>8. CASE OpenOwnCopy(d) BY <2>8 DEF OpenOwnCopy, GoTo, Throw
  <2>9. CASE WriteOwnCopy(d) BY <2>9 DEF WriteOwnCopy, GoTo, Throw
  <2>10. CASE ReadHeader(d) BY <2>10 DEF ReadHeader, GoTo, Throw
  <2>11. CASE MarkProcessing(d)
    BY <2>11 DEF MarkProcessing, Statement, GoTo, Throw, UpdateStatus
  <2>12. CASE Inspect(d) BY <2>12 DEF Inspect, GoTo, Throw
  <2>13. CASE StorePath(d) BY <2>13 DEF StorePath, Statement, GoTo, Throw, UpdatePart
  <2>14. CASE StoreColumns(d)
    BY <2>14 DEF StoreColumns, Statement, GoTo, Throw, InsertColumns
  <2>15. CASE StoreMetadata(d)
    BY <2>15 DEF StoreMetadata, Statement, GoTo, Throw, UpdatePart
  <2>16. CASE MarkReady(d)
    BY <2>16 DEF MarkReady, Statement, GoTo, Throw, UpdateStatus
  <2>17. CASE CatchRemove(d) BY <2>17 DEF CatchRemove, GoTo
  <2>18. CASE CatchRelease(d) BY <2>18 DEF CatchRelease, GoTo
  <2>19. CASE CatchTemp(d) BY <2>19 DEF CatchTemp, RemoveTemp, GoTo
  <2>20. CASE MarkFailed(d)
    BY <2>20 DEF MarkFailed, Statement, UpdateStatus, GoTo, Finish
  <2>21. CASE Respond(d) BY <2>21 DEF Respond, Finish
  <2> QED BY <1>2, <2>1, <2>2, <2>3, <2>4, <2>5, <2>6, <2>7, <2>8, <2>9, <2>10, <2>11, <2>12,
             <2>13, <2>14, <2>15, <2>16, <2>17, <2>18, <2>19, <2>20, <2>21 DEF UploadStep
<1>3. ASSUME NEW c \in Clients, ClientStep(c) PROVE TempInv'
  <2>1. CASE DeleteRow(c)
    BY <2>1, ClientsKeepTemps DEF DeleteRow, Statement, DeleteById, Leave, Exists, Typed, TypeOK
  <2>2. CASE ~DeleteRow(c)
    <3>1. UNCHANGED <<temps, upVars, status, asked>>
      BY <1>3, <2>2 DEF ClientStep, DeleteObject, DeleteCopy, LookUp, Fetch, OpenCopy, WriteCopy,
         Query
    <3> QED BY <3>1, ClientsKeepTemps DEF Exists
  <2> QED BY <2>1, <2>2
<1>4. ASSUME NEW c \in Clients, NEW d \in Datasets, StartDelete(c, d) \/ StartRead(c, d)
      PROVE  TempInv'
  BY <1>4, ClientsKeepTemps DEF StartDelete, StartRead, Exists
<1>5. ASSUME NEW d \in Datasets, ShowMetric(d) \/ HideMetric(d) PROVE TempInv'
  BY <1>5, ClientsKeepTemps DEF ShowMetric, HideMetric, Exists
<1>6. CASE Crash
  BY <1>6 DEF Crash, TempInv, TempOutlivesRefusalOnly, Removed, Exists, Typed, TypeOK, InFlight,
     PipeSteps, FailSteps
<1>7. CASE UNCHANGED vars BY <1>7 DEF vars, TempInv, TempOutlivesRefusalOnly, Exists
<1> QED BY <1>1, <1>2, <1>3, <1>4, <1>5, <1>6, <1>7 DEF Next

\* The temp file of an upload outlives its handler only if no dataset came of it.
THEOREM TempsAreRemoved == ASSUME SoundTemp PROVE Spec => []TempOutlivesRefusalOnly
<1>1. Init => TempInv
  BY DEF Init, TempInv, TempOutlivesRefusalOnly, Removed, Exists
<1>2. Typed /\ CompleteInv /\ TempInv /\ [Next]_vars => TempInv'
  BY TempStep DEF CompleteInv
<1>3. TempInv => TempOutlivesRefusalOnly
  BY DEF TempInv
<1>4. QED
  BY AlwaysTyped, AlwaysComplete, <1>1, <1>2, <1>3, PTL DEF Spec
=============================================================================
