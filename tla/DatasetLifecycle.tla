--------------------------- MODULE DatasetLifecycle ---------------------------
(***************************************************************************)
(* The life of an uploaded dataset: the upload handler and its pipeline    *)
(* (dataset.service.ts), the Supabase bucket, the local scratch cache and  *)
(* the multer temp file (storage.service.ts), the datasets and             *)
(* dataset_columns rows, and the requests that read or delete a dataset    *)
(* while all of this is going on.                                          *)
(*                                                                         *)
(* Handlers are asynchronous functions of one Node process.  Every await   *)
(* ends a step: one action is what a handler does between two awaits,      *)
(* together with the effect of the call it awaits.                         *)
(***************************************************************************)

CONSTANTS
    Datasets,    \* the dataset ids the INSERT of an upload may draw
    Clients,     \* requests on existing datasets that may run at once
    NoDataset,   \* "no dataset": what an idle client works on
    Faults       \* the kinds of fault that may occur, a subset of FaultKinds

\* "db": a statement rejects and was not applied.  "storage": a Supabase call
\* errors and had no effect.  "ack": a statement or an upload took effect and
\* its caller sees an error.  "disk": a file operation fails.  "crash": the
\* process dies, or is forced out ten seconds after a signal.
FaultKinds == {"db", "storage", "ack", "disk", "crash"}

ASSUME FaultsAssumption == Faults \subseteq FaultKinds

ASSUME NamesAssumption ==
    /\ NoDataset \notin Datasets
    /\ Datasets \cap Clients = {}

VARIABLES
    status,    \* the datasets table: the status of each row, NONE without one
    holds,     \* and what has been stored for it, a subset of Parts
    objects,   \* the ids whose CSV object is in the bucket
    cache,     \* the scratch-cache file of each id
    pens,      \* who has a cache file open for writing under its current name
    tip,       \* the last of those to have opened (truncated) it, or nobody
    temps,     \* the ids whose multer temp file is on disk
    up,        \* where the upload handler of each id stands
    answer,    \* what that handler has answered
    wordy,     \* the ids whose failure reason is longer than error_message takes
    at,        \* where each client request stands
    on,        \* and the dataset it is about
    shown,     \* the datasets one of whose metrics a dashboard widget shows
    asked,     \* history: the ids some accepted DELETE request was about
    hasty,     \* history: those where it found no storage_path in the row
    refused    \* history: those whose DELETE broke the CHECK of such a widget

dbVars   == <<status, holds>>
copyVars == <<cache, pens, tip>>
upVars   == <<up, answer, wordy>>
clVars   == <<at, on>>
ghosts   == <<asked, hasty, refused>>
vars == <<dbVars, objects, copyVars, temps, upVars, clVars, shown, ghosts>>

-----------------------------------------------------------------------------
(* Data                                                                      *)

Transient == {"UPLOADING", "VALIDATING", "PROCESSING"}
Statuses  == Transient \cup {"READY", "FAILED"}

\* storage_path, checksum, the schema with its counts, the dataset_columns rows.
Parts == {"path", "checksum", "schema", "columns"}

CopyStates == {"none", "part", "full"}
Handles == Datasets \cup Clients      \* an upload's own handle is its dataset

\* The awaits of createFromUpload, runPipeline, persist and acquireLocalPath.
PipeSteps == {"created", "validating", "uploaded", "stored", "summed",
              "fetched", "writing", "cached", "headed", "processing",
              "inspected", "pathed", "columned", "described"}
FailSteps == {"failRemove", "failRelease", "failTemp", "failMark"}
InFlight  == {"received"} \cup PipeSteps \cup FailSteps \cup {"piped"}
UpSteps   == {"new", "done", "dead"} \cup InFlight

Answers == {"none", "READY", "FAILED", "REJECTED", "ERROR"}

DeleteSteps == {"delRemove", "delRelease", "delRow"}
ReadSteps   == {"look", "fetch", "open", "write", "query"}
ClientSteps == {"idle"} \cup DeleteSteps \cup ReadSteps

Exists(d) == status[d] # "NONE"

TypeOK ==
    /\ status \in [Datasets -> Statuses \cup {"NONE"}]
    /\ holds \in [Datasets -> SUBSET Parts]
    /\ objects \subseteq Datasets
    /\ cache \in [Datasets -> CopyStates]
    /\ pens \in [Datasets -> SUBSET Handles]
    /\ tip \in [Datasets -> SUBSET Handles]
    /\ temps \subseteq Datasets
    /\ up \in [Datasets -> UpSteps]
    /\ answer \in [Datasets -> Answers]
    /\ wordy \subseteq Datasets
    /\ at \in [Clients -> ClientSteps]
    /\ on \in [Clients -> Datasets \cup {NoDataset}]
    /\ shown \subseteq Datasets
    /\ asked \subseteq Datasets
    /\ hasty \subseteq asked
    /\ refused \subseteq Datasets

Init ==
    /\ status = [d \in Datasets |-> "NONE"]
    /\ holds = [d \in Datasets |-> {}]
    /\ objects = {}
    /\ cache = [d \in Datasets |-> "none"]
    /\ pens = [d \in Datasets |-> {}]
    /\ tip = [d \in Datasets |-> {}]
    /\ temps = {}
    /\ up = [d \in Datasets |-> "new"]
    /\ answer = [d \in Datasets |-> "none"]
    /\ wordy = {}
    /\ at = [c \in Clients |-> "idle"]
    /\ on = [c \in Clients |-> NoDataset]
    /\ shown = {}
    /\ asked = {}
    /\ hasty = {}
    /\ refused = {}

-----------------------------------------------------------------------------
(* Statements of the repositories: an UPDATE of a row that is gone matches   *)
(* nothing and succeeds; an INSERT of columns for it breaks the foreign key. *)

\* Mutant: an upsert, which brings a deleted row back.
UpdateStatus_Upsert(d, s) ==
    /\ status' = [status EXCEPT ![d] = s]
    /\ UNCHANGED holds

UpdateStatus(d, s) ==
    /\ status' = IF Exists(d) THEN [status EXCEPT ![d] = s] ELSE status
    /\ UNCHANGED holds

\* updateStorage, updateChecksum, updateMetadata
UpdatePart(d, part) ==
    /\ holds' = IF Exists(d) THEN [holds EXCEPT ![d] = @ \cup {part}] ELSE holds
    /\ UNCHANGED status

\* No storage_path, checksum or schema yet.
InsertRow(d) ==
    /\ status' = [status EXCEPT ![d] = "UPLOADING"]
    /\ holds' = [holds EXCEPT ![d] = {}]

InsertColumns(d) ==
    /\ Exists(d)
    /\ holds' = [holds EXCEPT ![d] = @ \cup {"columns"}]
    /\ UNCHANGED status

\* The column rows cascade.
DeleteById(d) ==
    /\ status' = [status EXCEPT ![d] = "NONE"]
    /\ holds' = [holds EXCEPT ![d] = {}]

\* A statement is applied and the handler goes on, or it is reported as
\* failed, applied or not, and the handler takes its error path.
Statement(write, goOn, caught) ==
    \/ write /\ goOn
    \/ "ack" \in Faults /\ write /\ caught
    \/ "db" \in Faults /\ UNCHANGED dbVars /\ caught

-----------------------------------------------------------------------------
(* The scratch cache: writeFile opens with truncation, then writes, while    *)
(* unlink takes the name away from whoever is still writing.                 *)

OpenFile(h, d) ==
    /\ cache' = [cache EXCEPT ![d] = "part"]
    /\ pens' = [pens EXCEPT ![d] = @ \cup {h}]
    /\ tip' = [tip EXCEPT ![d] = {h}]

DropPen(h, d) ==
    /\ pens' = [pens EXCEPT ![d] = @ \ {h}]
    /\ tip' = [tip EXCEPT ![d] = @ \ {h}]

\* All the bytes of h are written.  They are all in the file when nobody has
\* truncated it since h opened it; otherwise some may be missing until the
\* last to open it is done.
CloseFile(h, d) ==
    /\ \/ h \in tip[d] /\ cache' = [cache EXCEPT ![d] = "full"]
       \/ h \in pens[d] \ tip[d] /\ cache' \in {cache, [cache EXCEPT ![d] = "full"]}
       \/ h \notin pens[d] /\ UNCHANGED cache
    /\ DropPen(h, d)

\* The write fails: what is in the file stays in it.
AbandonFile(h, d) ==
    /\ DropPen(h, d)
    /\ UNCHANGED cache

\* releaseLocalPath; an error other than ENOENT is logged and swallowed.
ReleaseLocalPath(d) ==
    \/ /\ cache' = [cache EXCEPT ![d] = "none"]
       /\ pens' = [pens EXCEPT ![d] = {}]
       /\ tip' = [tip EXCEPT ![d] = {}]
    \/ "disk" \in Faults /\ UNCHANGED copyVars

\* removeTemp; a failure is logged and swallowed as well.
RemoveTemp(d) ==
    \/ temps' = temps \ {d}
    \/ "disk" \in Faults /\ UNCHANGED temps

\* Mutant: the key is passed where a list of keys is due, and nothing goes.
RemoveObject_WrongKey(d) == UNCHANGED objects

\* The remote half of storageService.delete; its errors are swallowed too.
RemoveObject(d) ==
    \/ objects' = objects \ {d}
    \/ "storage" \in Faults /\ UNCHANGED objects

-----------------------------------------------------------------------------
(* The upload handler                                                        *)

GoTo(d, s) ==
    /\ up' = [up EXCEPT ![d] = s]
    /\ UNCHANGED <<answer, wordy>>

Finish(d, a) ==
    /\ up' = [up EXCEPT ![d] = "done"]
    /\ answer' = [answer EXCEPT ![d] = a]
    /\ UNCHANGED wordy

\* Where a throw of runPipeline is caught: storageKey is set once persist has
\* returned, and only then does the handler remove the object.
Throw(d) ==
    GoTo(d, IF up[d] \in {"created", "validating"} THEN "failTemp" ELSE "failRemove")

\* multer has written the temp file and the request reaches the controller.
Receive(d) ==
    /\ up[d] = "new"
    /\ temps' = temps \cup {d}
    /\ GoTo(d, "received")
    /\ UNCHANGED <<dbVars, objects, copyVars, clVars, shown, ghosts>>

\* The validation of the form fields refuses the request and leaves the temp
\* file, which multer has already written; assertUploadFile refuses the file,
\* and it goes.
Reject(d) ==
    /\ up[d] = "received"
    /\ UNCHANGED temps \/ RemoveTemp(d)
    /\ Finish(d, "REJECTED")
    /\ UNCHANGED <<dbVars, objects, copyVars, clVars, shown, ghosts>>

\* The INSERT.  It breaks a CHECK when the name is taken from a file name of
\* more than 120 characters.  Its failure is not caught: the temp file stays.
Create(d) ==
    /\ up[d] = "received"
    /\ \/ Statement(InsertRow(d), GoTo(d, "created"), Finish(d, "ERROR"))
       \/ UNCHANGED dbVars /\ Finish(d, "ERROR")
    /\ UNCHANGED <<objects, copyVars, temps, clVars, shown, ghosts>>

MarkValidating(d) ==
    /\ up[d] = "created"
    /\ Statement(UpdateStatus(d, "VALIDATING"), GoTo(d, "validating"), Throw(d))
    /\ UNCHANGED <<objects, copyVars, temps, clVars, shown, ghosts>>

\* persist up to the answer of the upload call.
Upload(d) ==
    /\ up[d] = "validating"
    /\ \/ objects' = objects \cup {d} /\ GoTo(d, "uploaded")
       \/ "ack" \in Faults /\ objects' = objects \cup {d} /\ Throw(d)
       \/ Faults \cap {"storage", "disk"} # {} /\ UNCHANGED objects /\ Throw(d)
    /\ UNCHANGED <<dbVars, copyVars, temps, clVars, shown, ghosts>>

\* Mutant: persist returns without removing the temp file.
Persisted_KeepTemp(d) ==
    /\ up[d] = "uploaded"
    /\ GoTo(d, "stored")
    /\ UNCHANGED <<dbVars, objects, copyVars, temps, clVars, shown, ghosts>>

\* persist removes the temp file and returns the storage key.
Persisted(d) ==
    /\ up[d] = "uploaded"
    /\ RemoveTemp(d)
    /\ GoTo(d, "stored")
    /\ UNCHANGED <<dbVars, objects, copyVars, clVars, shown, ghosts>>

StoreChecksum(d) ==
    /\ up[d] = "stored"
    /\ Statement(UpdatePart(d, "checksum"), GoTo(d, "summed"), Throw(d))
    /\ UNCHANGED <<objects, copyVars, temps, clVars, shown, ghosts>>

\* acquireLocalPath: a cached file is taken as it is, else the object is read.
FetchBack(d) ==
    /\ up[d] = "summed"
    /\ \/ /\ cache[d] # "none" \/ d \in objects
          /\ GoTo(d, IF cache[d] = "none" THEN "fetched" ELSE "cached")
       \/ cache[d] = "none" /\ (d \notin objects \/ "storage" \in Faults) /\ Throw(d)
    /\ UNCHANGED <<dbVars, objects, copyVars, temps, clVars, shown, ghosts>>

OpenOwnCopy(d) ==
    /\ up[d] = "fetched"
    /\ \/ OpenFile(d, d) /\ GoTo(d, "writing")
       \/ "disk" \in Faults /\ UNCHANGED copyVars /\ Throw(d)
    /\ UNCHANGED <<dbVars, objects, temps, clVars, shown, ghosts>>

WriteOwnCopy(d) ==
    /\ up[d] = "writing"
    /\ \/ CloseFile(d, d) /\ GoTo(d, "cached")
       \/ "disk" \in Faults /\ AbandonFile(d, d) /\ Throw(d)
    /\ UNCHANGED <<dbVars, objects, temps, clVars, shown, ghosts>>

\* readHeader: the header may be missing, empty or hold duplicates, which the
\* reason quotes at full length.
ReadHeader(d) ==
    /\ up[d] = "cached"
    /\ \/ GoTo(d, "headed")
       \/ Throw(d)
       \/ /\ up' = [up EXCEPT ![d] = "failRemove"]
          /\ wordy' = wordy \cup {d}
          /\ UNCHANGED answer
    /\ UNCHANGED <<dbVars, objects, copyVars, temps, clVars, shown, ghosts>>

MarkProcessing(d) ==
    /\ up[d] = "headed"
    /\ Statement(UpdateStatus(d, "PROCESSING"), GoTo(d, "processing"), Throw(d))
    /\ UNCHANGED <<objects, copyVars, temps, clVars, shown, ghosts>>

\* inspectCsv, and the two checks on the number of columns and of rows.
Inspect(d) ==
    /\ up[d] = "processing"
    /\ GoTo(d, "inspected") \/ Throw(d)
    /\ UNCHANGED <<dbVars, objects, copyVars, temps, clVars, shown, ghosts>>

StorePath(d) ==
    /\ up[d] = "inspected"
    /\ Statement(UpdatePart(d, "path"), GoTo(d, "pathed"), Throw(d))
    /\ UNCHANGED <<objects, copyVars, temps, clVars, shown, ghosts>>

StoreColumns(d) ==
    /\ up[d] = "pathed"
    /\ \/ Statement(InsertColumns(d), GoTo(d, "columned"), Throw(d))
       \/ ~Exists(d) /\ UNCHANGED dbVars /\ Throw(d)
    /\ UNCHANGED <<objects, copyVars, temps, clVars, shown, ghosts>>

StoreMetadata(d) ==
    /\ up[d] = "columned"
    /\ Statement(UpdatePart(d, "schema"), GoTo(d, "described"), Throw(d))
    /\ UNCHANGED <<objects, copyVars, temps, clVars, shown, ghosts>>

\* Mutant: READY before the metadata is stored.
MarkReady_Early(d) ==
    /\ up[d] = "columned"
    /\ Statement(UpdateStatus(d, "READY"), GoTo(d, "piped"), Throw(d))
    /\ UNCHANGED <<objects, copyVars, temps, clVars, shown, ghosts>>

MarkReady(d) ==
    /\ up[d] = "described"
    /\ Statement(UpdateStatus(d, "READY"), GoTo(d, "piped"), Throw(d))
    /\ UNCHANGED <<objects, copyVars, temps, clVars, shown, ghosts>>

\* The catch block of runPipeline: storageService.delete, which is a remove
\* and an unlink, removeTemp, and the FAILED status, whose failure escapes.
CatchRemove(d) ==
    /\ up[d] = "failRemove"
    /\ RemoveObject(d)
    /\ GoTo(d, "failRelease")
    /\ UNCHANGED <<dbVars, copyVars, temps, clVars, shown, ghosts>>

CatchRelease(d) ==
    /\ up[d] = "failRelease"
    /\ ReleaseLocalPath(d)
    /\ GoTo(d, "failTemp")
    /\ UNCHANGED <<dbVars, objects, temps, clVars, shown, ghosts>>

CatchTemp(d) ==
    /\ up[d] = "failTemp"
    /\ RemoveTemp(d)
    /\ GoTo(d, "failMark")
    /\ UNCHANGED <<dbVars, objects, copyVars, clVars, shown, ghosts>>

\* Mutants: the catch block only cleans up; it answers without awaiting the
\* status update.
MarkFailed_Skip(d) ==
    /\ up[d] = "failMark"
    /\ GoTo(d, "piped")
    /\ UNCHANGED <<dbVars, objects, copyVars, temps, clVars, shown, ghosts>>

MarkFailed_Unawaited(d) ==
    /\ up[d] = "failMark"
    /\ Finish(d, "FAILED")
    /\ UNCHANGED <<dbVars, objects, copyVars, temps, clVars, shown, ghosts>>

\* A reason of more than 1000 characters breaks a CHECK of the row, if any.
MarkFailed(d) ==
    /\ up[d] = "failMark"
    /\ \/ /\ d \notin wordy \/ ~Exists(d)
          /\ Statement(UpdateStatus(d, "FAILED"), GoTo(d, "piped"), Finish(d, "ERROR"))
       \/ /\ d \in wordy /\ Exists(d)
          /\ UNCHANGED dbVars
          /\ Finish(d, "ERROR")
    /\ UNCHANGED <<objects, copyVars, temps, clVars, shown, ghosts>>

\* Mutant: no answer when the row is gone.
Respond_Hang(d) ==
    /\ up[d] = "piped"
    /\ Exists(d)
    /\ Finish(d, status[d])
    /\ UNCHANGED <<dbVars, objects, copyVars, temps, clVars, shown, ghosts>>

\* createFromUpload reads the row again and answers with its status; a row
\* that has been deleted meanwhile makes toPublicDataset throw.
Respond(d) ==
    /\ up[d] = "piped"
    /\ \/ Exists(d) /\ Finish(d, status[d])
       \/ (~Exists(d) \/ "db" \in Faults) /\ Finish(d, "ERROR")
    /\ UNCHANGED <<dbVars, objects, copyVars, temps, clVars, shown, ghosts>>

-----------------------------------------------------------------------------
(* Requests on existing datasets                                             *)

Begin(c, d, s) ==
    /\ at[c] = "idle"
    /\ at' = [at EXCEPT ![c] = s]
    /\ on' = [on EXCEPT ![c] = d]

Move(c, s) ==
    /\ at' = [at EXCEPT ![c] = s]
    /\ UNCHANGED on

Leave(c) ==
    /\ at' = [at EXCEPT ![c] = "idle"]
    /\ on' = [on EXCEPT ![c] = NoDataset]

\* DELETE /datasets/:id: the row is read once, and its storage_path decides
\* whether there is an object to remove.
StartDelete(c, d) ==
    /\ Exists(d)
    /\ Begin(c, d, IF "path" \in holds[d] THEN "delRemove" ELSE "delRow")
    /\ asked' = asked \cup {d}
    /\ hasty' = IF "path" \in holds[d] THEN hasty ELSE hasty \cup {d}
    /\ UNCHANGED <<dbVars, objects, copyVars, temps, upVars, shown, refused>>

DeleteObject(c) ==
    /\ at[c] = "delRemove"
    /\ RemoveObject(on[c])
    /\ Move(c, "delRelease")
    /\ UNCHANGED <<dbVars, copyVars, temps, upVars, shown, ghosts>>

\* Mutant: the request is answered once the files are gone.
DeleteCopy_Leave(c) ==
    /\ at[c] = "delRelease"
    /\ ReleaseLocalPath(on[c])
    /\ Leave(c)
    /\ UNCHANGED <<dbVars, objects, temps, upVars, shown, ghosts>>

DeleteCopy(c) ==
    /\ at[c] = "delRelease"
    /\ ReleaseLocalPath(on[c])
    /\ Move(c, "delRow")
    /\ UNCHANGED <<dbVars, objects, temps, upVars, shown, ghosts>>

\* The metrics of the dataset cascade, and a widget that shows one of them is
\* left without a source, which its CHECK forbids: the statement fails, every
\* time, when the object has already been removed.
DeleteRow(c) ==
    /\ at[c] = "delRow"
    /\ \/ /\ on[c] \notin shown
          /\ Statement(DeleteById(on[c]), Leave(c), Leave(c))
          /\ UNCHANGED refused
       \/ /\ on[c] \in shown
          /\ Leave(c)
          /\ refused' = refused \cup {on[c]}
          /\ UNCHANGED dbVars
    /\ UNCHANGED <<objects, copyVars, temps, upVars, shown, asked, hasty>>

\* The DataMart (module DataMart) puts a metric of the dataset on a dashboard:
\* the metric was created when the dataset was READY, and lives as long as it.
ShowMetric(d) ==
    /\ status[d] = "READY"
    /\ shown' = shown \cup {d}
    /\ UNCHANGED <<dbVars, objects, copyVars, temps, upVars, clVars, ghosts>>

\* The last such widget is deleted, or bound to something else.
HideMetric(d) ==
    /\ d \in shown
    /\ shown' = shown \ {d}
    /\ UNCHANGED <<dbVars, objects, copyVars, temps, upVars, clVars, ghosts>>

\* A preview (or any other read through DuckDB): requireDatasetOwner reads the
\* row, the controller checks that it is READY and has a storage_path.
StartRead(c, d) ==
    /\ status[d] = "READY"
    /\ "path" \in holds[d]
    /\ Begin(c, d, "look")
    /\ UNCHANGED <<dbVars, objects, copyVars, temps, upVars, shown, ghosts>>

\* existsSync
LookUp(c) ==
    /\ at[c] = "look"
    /\ Move(c, IF cache[on[c]] = "none" THEN "fetch" ELSE "query")
    /\ UNCHANGED <<dbVars, objects, copyVars, temps, upVars, shown, ghosts>>

Fetch(c) ==
    /\ at[c] = "fetch"
    /\ \/ on[c] \in objects /\ Move(c, "open")
       \/ (on[c] \notin objects \/ "storage" \in Faults) /\ Leave(c)
    /\ UNCHANGED <<dbVars, objects, copyVars, temps, upVars, shown, ghosts>>

OpenCopy(c) ==
    /\ at[c] = "open"
    /\ \/ OpenFile(c, on[c]) /\ Move(c, "write")
       \/ "disk" \in Faults /\ UNCHANGED copyVars /\ Leave(c)
    /\ UNCHANGED <<dbVars, objects, temps, upVars, shown, ghosts>>

WriteCopy(c) ==
    /\ at[c] = "write"
    /\ \/ CloseFile(c, on[c]) /\ Move(c, "query")
       \/ "disk" \in Faults /\ AbandonFile(c, on[c]) /\ Leave(c)
    /\ UNCHANGED <<dbVars, objects, temps, upVars, shown, ghosts>>

\* DuckDB has read whatever is in the file, and the request is answered.
Query(c) ==
    /\ at[c] = "query"
    /\ Leave(c)
    /\ UNCHANGED <<dbVars, objects, copyVars, temps, upVars, shown, ghosts>>

-----------------------------------------------------------------------------
(* The process dies and starts again: every handler is gone, what is in      *)
(* PostgreSQL and in the bucket stays.  The disk stays too, or is a new one   *)
(* with empty tmp and cache directories.  Nothing at startup looks for work   *)
(* that was cut short.                                                       *)
Crash ==
    /\ "crash" \in Faults
    /\ up' = [d \in Datasets |-> IF up[d] \in InFlight THEN "dead" ELSE up[d]]
    /\ at' = [c \in Clients |-> "idle"]
    /\ on' = [c \in Clients |-> NoDataset]
    /\ pens' = [d \in Datasets |-> {}]
    /\ tip' = [d \in Datasets |-> {}]
    /\ \/ UNCHANGED <<cache, temps>>
       \/ cache' = [d \in Datasets |-> "none"] /\ temps' = {}
    /\ UNCHANGED <<dbVars, objects, answer, wordy, shown, ghosts>>

UploadStep(d) ==
    \/ Reject(d) \/ Create(d) \/ MarkValidating(d) \/ Upload(d) \/ Persisted(d)
    \/ StoreChecksum(d) \/ FetchBack(d) \/ OpenOwnCopy(d) \/ WriteOwnCopy(d)
    \/ ReadHeader(d) \/ MarkProcessing(d) \/ Inspect(d) \/ StorePath(d)
    \/ StoreColumns(d) \/ StoreMetadata(d) \/ MarkReady(d)
    \/ CatchRemove(d) \/ CatchRelease(d) \/ CatchTemp(d) \/ MarkFailed(d)
    \/ Respond(d)

ClientStep(c) ==
    \/ DeleteObject(c) \/ DeleteCopy(c) \/ DeleteRow(c)
    \/ LookUp(c) \/ Fetch(c) \/ OpenCopy(c) \/ WriteCopy(c) \/ Query(c)

Next ==
    \/ \E d \in Datasets : Receive(d) \/ UploadStep(d) \/ ShowMetric(d) \/ HideMetric(d)
    \/ \E c \in Clients : ClientStep(c)
    \/ \E c \in Clients, d \in Datasets : StartDelete(c, d) \/ StartRead(c, d)
    \/ Crash

Spec == Init /\ [][Next]_vars

\* Node goes on with a handler whose await has settled, and every call that is
\* awaited settles (a hung connection is an error sooner or later).  Users owe
\* nothing: no fairness on Receive, StartDelete,
\* StartRead, ShowMetric and HideMetric.
Fairness ==
    /\ \A d \in Datasets : WF_vars(UploadStep(d))
    /\ \A c \in Clients : WF_vars(ClientStep(c))

FairSpec == Spec /\ Fairness

-----------------------------------------------------------------------------
(* Properties                                                                *)

\* Whatever relies on READY (previews, analytics, DataMart, backtests) finds
\* the whole record: storage_path, checksum, schema and column rows, whichever
\* step of the pipeline failed and whoever deleted the dataset meanwhile
\* (runPipeline, dataset.service.ts:65-118).
ReadyIsComplete ==
    \A d \in Datasets : status[d] = "READY" => holds[d] = Parts

\* What the upload told its client stays true: after an answer of READY or
\* FAILED the row has that status for as long as it exists, so no late write
\* of the handler follows its answer (createFromUpload, :45-52).
AnswerIsFinal ==
    \A d \in Datasets : answer[d] \in {"READY", "FAILED"} =>
        status[d] \in {answer[d], "NONE"}

\* A dataset that a client was told is READY keeps its CSV object until
\* somebody asks to delete it, whatever fails (the catch block may not run
\* for it, :119-131, and nothing else removes objects).
ServedHasObject ==
    \A d \in Datasets : answer[d] = "READY" /\ d \notin asked => d \in objects

\* Without faults a READY row whose object is gone exists only between the two
\* halves of a delete that is still running (deleteForUser, :145-149), or when
\* a delete was refused there because a dashboard showed a metric of the dataset
\* (schema.sql:430, :485, :487).  No race of an upload, its failure, reads and
\* deletes makes another one.
ReadyHasObject ==
    \A d \in Datasets : status[d] = "READY" /\ d \notin objects =>
        \/ d \in refused
        \/ \E c \in Clients : on[c] = d /\ at[c] \in {"delRelease", "delRow"}

\* d has no row, its upload is over, and no request is working on it.
Quiet(d) ==
    /\ ~Exists(d)
    /\ up[d] = "done"
    /\ \A c \in Clients : on[c] # d

\* An object without a row comes from one race only: a DELETE that read the
\* row before the pipeline had stored storage_path in it.  Every other order
\* of an upload, its failure and any number of deletes leaves nothing behind.
OrphanOnlyByRace ==
    \A d \in Datasets : Quiet(d) /\ d \in objects => d \in hasty

\* removeTemp is there (storage.service.ts:43) for "a temp file left over from a
\* failed upload".  What holds of it: the multer file outlives its handler only
\* when no dataset came of it (persist, :127, and the catch block, :125, remove
\* it).
TempOutlivesRefusalOnly ==
    \A d \in Datasets : up[d] = "done" /\ d \in temps =>
        ~Exists(d) /\ d \notin asked /\ answer[d] \in {"REJECTED", "ERROR"}

\* The status only moves UPLOADING, VALIDATING, PROCESSING, READY, or from one
\* of the first three to FAILED; READY and FAILED are left by deletion alone,
\* and no late write of the pipeline brings a deleted row back.
MayFollow(s, t) ==
    \/ s = t
    \/ <<s, t>> \in {<<"UPLOADING", "VALIDATING">>, <<"VALIDATING", "PROCESSING">>,
                     <<"PROCESSING", "READY">>}
    \/ s \in Transient /\ t = "FAILED"
    \/ s \in Statuses /\ t = "NONE"

StatusOrder ==
    [][\A d \in Datasets :
          \/ MayFollow(status[d], status'[d])
          \/ up[d] = "received" /\ status'[d] = "UPLOADING"]_vars

\* Every upload is answered, and by then its row (if it has one) is in a final
\* status, unless the reason of its failure does not fit (runPipeline, :65-131).
UploadSettles ==
    \A d \in Datasets :
        up[d] = "received" ~>
            (up[d] = "done" /\ (status[d] \notin Transient \/ d \in wordy))

\* An accepted DELETE ends with the row gone for good, whatever the pipeline
\* of the same dataset still writes, unless a dashboard shows a metric of it at
\* some time on the way.
DeleteSettles ==
    \A d \in Datasets :
        (\E c \in Clients : at[c] \in DeleteSteps /\ on[c] = d)
            ~> ([](~Exists(d)) \/ d \in shown)

\* Nobody who asks for a change waits for it for ever.
RequestsSettle == UploadSettles /\ DeleteSettles

-----------------------------------------------------------------------------
(* What a client of the API is promised                                      *)

Phase(d) ==
    CASE status[d] \in Transient -> "processing"
      [] status[d] = "READY" -> "ready"
      [] status[d] = "FAILED" -> "failed"
      [] OTHER -> IF d \in asked THEN "deleted" ELSE "absent"

PhaseMap == [d \in Datasets |-> Phase(d)]

Registry == INSTANCE DatasetRegistry
    WITH phase <- PhaseMap, told <- answer, Faulty <- Faults \cap {"db", "ack"} # {}

\* The handlers implement the registry of datasets a client sees.
ImplementsRegistry == Registry!FairSpec
=============================================================================
