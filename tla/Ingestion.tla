------------------------------- MODULE Ingestion -------------------------------
(***************************************************************************)
(* The knowledge base: documents are uploaded (upload.service.ts), parsed, *)
(* cut into chunks and embedded (knowledge.ingestion.ts), and stored twice *)
(* (knowledge.vectorstore.ts): in a Map of the process, and, in one        *)
(* transaction, in the tables documents, document_chunks and embeddings.   *)
(* Clients list, delete and search them meanwhile.                         *)
(*                                                                         *)
(* A document is known to the Map by the id that the upload has drawn      *)
(* ("file") and to the database by a UUID made of it ("row").  DELETE      *)
(* understands both; the Map only understands the first.                   *)
(*                                                                         *)
(* The chunks of one document come and go together in each store: the Map  *)
(* is filled and searched without an await, and the tables are written in  *)
(* one transaction.  A document stands for all of its chunks.              *)
(***************************************************************************)
EXTENDS FiniteSets

CONSTANTS
    Docs,      \* documents, each uploaded once at most
    Clients,   \* requests that list, delete or search
    Faults     \* what may go wrong: "database", "crash", "residue" (see ReadBack)

ASSUME FaultsAssumption == Faults \subseteq {"database", "crash", "residue"}
ASSUME NamesAssumption  == Docs \cap Clients = {} /\ "none" \notin Docs

VARIABLES
    rows,      \* documents in the tables
    memory,    \* documents in memoryChunks
    records,   \* status in the records of the upload service
    schema,    \* schemaInitialized
    at,        \* position of an upload or a client
    aim,       \* the document a client is about
    found,     \* what a search has from the tables; "error" until they answer
    reply,
    told,      \* the names of documents that clients have been told
    asked,     \* history: documents of which a deletion has been requested
    troubled,  \* history: documents whose upload has met a fault
    crashed    \* history: the process has ended before

history == <<asked, troubled, crashed>>
knowledgeVars == <<rows, memory, records, schema, at, aim, found, reply, told, history>>

Requests == Docs \cup Clients
Names    == {"file", "row"}

\* A request is over when it has been answered, and dead when the process was.
Active(r) == at[r] \notin {"idle", "over", "dead"}

KnowledgeInit ==
    /\ rows = {} /\ memory = {}
    /\ records = [d \in Docs |-> "none"]
    /\ schema = FALSE
    /\ at = [r \in Requests |-> "idle"]
    /\ aim = [c \in Clients |-> "none"]
    /\ found = [c \in Clients |-> "nothing"]
    /\ reply = [r \in Requests |-> "none"]
    /\ told = {} /\ asked = {} /\ troubled = {} /\ crashed = FALSE

GoTo(r, place) == at' = [at EXCEPT ![r] = place]

Answer(r, a) == GoTo(r, "over") /\ reply' = [reply EXCEPT ![r] = a]

Trouble(d) == troubled' = troubled \cup {d}

\* The outcomes of a statement: whether it took effect, and whether the caller
\* is told so.  A COMMIT may take effect and be reported as failed.
Outcomes == {[done |-> TRUE, told |-> TRUE]} \cup
            (IF "database" \in Faults THEN [done : BOOLEAN, told : {FALSE}] ELSE {})

-----------------------------------------------------------------------------
(* Upload                                                                    *)

\* processUpload: the record of the upload and its answer.  Clients get to know
\* the id with the answer, also with one that says "not processed".
Record(d, indexed) ==
    /\ records' = [records EXCEPT ![d] = IF indexed THEN "READY" ELSE "FAILED"]
    /\ told' = told \cup {<<d, "file">>}
    /\ Answer(d, IF indexed THEN "accepted" ELSE "refused")

\* An exception in processUpload: no record, and an answer without an id.
Throw(d) == Answer(d, "failed") /\ UNCHANGED <<records, told>>

ReceiveUpload(d) ==
    /\ at[d] = "idle"
    /\ \/ GoTo(d, "extract") /\ UNCHANGED <<records, told, reply>>
       \/ Record(d, FALSE)
    /\ UNCHANGED <<rows, memory, schema, aim, found, history>>

\* Mutant: the chunks are in the Map before their text is validated.
Extract_Late(d) ==
    /\ at[d] = "extract"
    /\ memory' = memory \cup {d}
    /\ \/ GoTo(d, "embed") /\ UNCHANGED <<records, told, reply>>
       \/ Record(d, FALSE)
    /\ UNCHANGED <<rows, schema, aim, found, history>>

\* extractPdfPages and validateExtractedText: pages are read, or they are not
\* text, or the parser throws.
Extract(d) ==
    /\ at[d] = "extract"
    /\ \/ GoTo(d, "embed") /\ UNCHANGED <<records, told, reply>>
       \/ Record(d, FALSE)
       \/ Throw(d)
    /\ UNCHANGED <<rows, memory, schema, aim, found, history>>

\* splitPagesAsync, then embedDocuments, which computes vectors of its own when
\* the model cannot be loaded; add() puts the chunks into the Map before it
\* awaits anything.
Embed(d) ==
    /\ at[d] = "embed"
    /\ memory' = memory \cup {d}
    /\ GoTo(d, "schema")
    /\ UNCHANGED <<rows, records, schema, aim, found, reply, told, history>>

\* initSchema, outside of the try of add(): an error ends the upload.
PrepareUpload(d) ==
    /\ d \in Docs /\ at[d] = "schema"
    /\ \/ schema' = TRUE /\ GoTo(d, "insert")
          /\ UNCHANGED <<records, told, reply, troubled>>
       \/ /\ ~schema /\ "database" \in Faults
          /\ Throw(d)
          /\ Trouble(d)
          /\ UNCHANGED schema
    /\ UNCHANGED <<rows, memory, aim, found, asked, crashed>>

\* The transaction, from connect() to COMMIT or ROLLBACK.  Whatever fails, the
\* upload goes on with the counts it would have had.
Insert(d) ==
    /\ at[d] = "insert"
    /\ \E o \in Outcomes :
          /\ rows' = IF o.done THEN rows \cup {d} ELSE rows
          /\ IF o.told THEN UNCHANGED troubled ELSE Trouble(d)
    /\ GoTo(d, "readBack")
    /\ UNCHANGED <<memory, records, schema, aim, found, reply, told, asked, crashed>>

\* readFirstStoredChunk: the document is accepted if its first chunk can be read
\* back, from the database, or from the Map if the database cannot be asked; and
\* if it does not look like the inside of a PDF.  Its pages did not; but a text
\* that normalizeDocumentText has brought together may ("residue").
ReadBack(d) ==
    /\ at[d] = "readBack"
    /\ \/ Record(d, d \in rows) /\ UNCHANGED troubled
       \/ "database" \in Faults /\ Record(d, d \in memory) /\ Trouble(d)
       \/ "residue" \in Faults /\ Record(d, FALSE) /\ Trouble(d)
    /\ UNCHANGED <<rows, memory, schema, aim, found, asked, crashed>>

-----------------------------------------------------------------------------
(* Listing                                                                   *)

StartList(c) ==
    /\ at[c] = "idle"
    /\ GoTo(c, "listSchema")
    /\ UNCHANGED <<rows, memory, records, schema, aim, found, reply, told, history>>

\* initSchema for a request that can do without it.
Prepare(c, from, ready, fallback) ==
    /\ at[c] = from
    /\ \/ schema' = TRUE /\ GoTo(c, ready)
       \/ ~schema /\ "database" \in Faults /\ GoTo(c, fallback) /\ UNCHANGED schema
    /\ UNCHANGED <<rows, memory, records, aim, found, reply, told, history>>

PrepareList(c) == Prepare(c, "listSchema", "listRows", "listRecords")

\* The rows, if there are any, with the ids of the database.
ListRows(c) ==
    /\ at[c] = "listRows"
    /\ \/ /\ rows # {}
          /\ told' = told \cup (rows \X {"row"})
          /\ Answer(c, "listed")
       \/ /\ rows = {} \/ "database" \in Faults
          /\ GoTo(c, "listRecords")
          /\ UNCHANGED <<told, reply>>
    /\ UNCHANGED <<rows, memory, records, schema, aim, found, history>>

\* Otherwise the records of this process, with the ids of the uploads.
ListRecords(c) ==
    /\ at[c] = "listRecords"
    /\ told' = told \cup ({d \in Docs : records[d] # "none"} \X {"file"})
    /\ Answer(c, "listed")
    /\ UNCHANGED <<rows, memory, records, schema, aim, found, history>>

-----------------------------------------------------------------------------
(* Deletion                                                                  *)

\* Mutant: the Map forgets another document as well.
StartDelete_Wide(c) ==
    /\ at[c] = "idle"
    /\ \E d \in Docs, n \in Names :
          /\ <<d, n>> \in told
          /\ aim' = [aim EXCEPT ![c] = d]
          /\ asked' = asked \cup {d}
          /\ memory' = {}
          /\ records' = IF n = "file" THEN [records EXCEPT ![d] = "none"] ELSE records
    /\ GoTo(c, "deleteRows")
    /\ UNCHANGED <<rows, schema, found, reply, told, troubled, crashed>>

\* deleteUpload and the loop of delete() over the Map compare the id as it is:
\* only the id of the upload is found there.
StartDelete(c) ==
    /\ at[c] = "idle"
    /\ \E d \in Docs, n \in Names :
          /\ <<d, n>> \in told
          /\ aim' = [aim EXCEPT ![c] = d]
          /\ asked' = asked \cup {d}
          /\ memory' = IF n = "file" THEN memory \ {d} ELSE memory
          /\ records' = IF n = "file" THEN [records EXCEPT ![d] = "none"] ELSE records
    /\ GoTo(c, "deleteRows")
    /\ UNCHANGED <<rows, schema, found, reply, told, troubled, crashed>>

\* Mutant: the statement is that of clear().
DeleteRows_All(c) ==
    /\ at[c] = "deleteRows"
    /\ \E o \in Outcomes : rows' = IF o.done THEN {} ELSE rows
    /\ Answer(c, "deleted")
    /\ UNCHANGED <<memory, records, schema, aim, found, told, history>>

\* The rows go with their document (ON DELETE CASCADE); an error is swallowed.
DeleteRows(c) ==
    /\ at[c] = "deleteRows"
    /\ \E o \in Outcomes : rows' = IF o.done THEN rows \ {aim[c]} ELSE rows
    /\ Answer(c, "deleted")
    /\ UNCHANGED <<memory, records, schema, aim, found, told, history>>

-----------------------------------------------------------------------------
(* Search                                                                    *)

\* A question that the chunks of one document answer, and no others.
StartSearch(c) ==
    /\ at[c] = "idle"
    /\ \E d \in Docs : aim' = [aim EXCEPT ![c] = d]
    /\ found' = [found EXCEPT ![c] = "error"]
    /\ GoTo(c, "searchSchema")
    /\ UNCHANGED <<rows, memory, records, schema, reply, told, history>>

PrepareSearch(c) == Prepare(c, "searchSchema", "searchRows", "searchMap")

\* Documents and questions are embedded by a model or, while that cannot be loaded,
\* by a stand-in, whose vectors have nothing to do with those of the model: the
\* rows may be there, and yet too far.
SearchRows(c) ==
    /\ at[c] = "searchRows"
    /\ \/ \E f \in IF aim[c] \in rows THEN {"row", "far"} ELSE {"nothing"} :
             found' = [found EXCEPT ![c] = f]
       \/ "database" \in Faults /\ UNCHANGED found
    /\ GoTo(c, "searchMap")
    /\ UNCHANGED <<rows, memory, records, schema, aim, reply, told, history>>

\* The variables of a search end with it.
Forget(c) == /\ aim'   = [aim EXCEPT ![c] = "none"]
             /\ found' = [found EXCEPT ![c] = "nothing"]

\* queryKnowledge answers from what is found, in words of its own if the language
\* model fails, or says that it does not know.
QueryKnowledge(c, some) == Answer(c, IF some THEN "answered" ELSE "unknown")

\* Mutant: the Map is only searched by its vectors.
Score_Vectors(c) ==
    /\ at[c] = "searchMap"
    /\ QueryKnowledge(c, found[c] = "row" \/ (aim[c] \in memory /\ found[c] # "far"))
    /\ Forget(c)
    /\ UNCHANGED <<rows, memory, records, schema, told, history>>

\* What the rows have not given, the Map may, by its vectors; and
\* performHybridScoring adds every chunk of the Map that has the keywords, under
\* an id that no row has, so that a document may be cited twice.
Score(c) ==
    /\ at[c] = "searchMap"
    /\ QueryKnowledge(c, found[c] = "row" \/ aim[c] \in memory)
    /\ Forget(c)
    /\ UNCHANGED <<rows, memory, records, schema, told, history>>

-----------------------------------------------------------------------------
(* The process ends and starts again: the Map, the records and what was under *)
(* way are gone.                                                              *)
Restart ==
    /\ "crash" \in Faults
    /\ memory' = {} /\ schema' = FALSE
    /\ records' = [d \in Docs |-> "none"]
    /\ at' = [r \in Requests |-> IF Active(r) THEN "dead" ELSE at[r]]
    /\ reply' = [r \in Requests |-> IF Active(r) THEN "lost" ELSE reply[r]]
    /\ crashed' = TRUE
    /\ aim' = [c \in Clients |-> IF Active(c) THEN "none" ELSE aim[c]]
    /\ found' = [c \in Clients |-> "nothing"]
    /\ UNCHANGED <<rows, told, asked, troubled>>

Upload(d) == \/ ReceiveUpload(d) \/ Extract(d) \/ Embed(d) \/ PrepareUpload(d)
             \/ Insert(d) \/ ReadBack(d)

Client(c) == \/ StartList(c) \/ PrepareList(c) \/ ListRows(c) \/ ListRecords(c)
             \/ StartDelete(c) \/ DeleteRows(c)
             \/ StartSearch(c) \/ PrepareSearch(c) \/ SearchRows(c) \/ Score(c)

KnowledgeNext == Restart \/ (\E d \in Docs : Upload(d)) \/ (\E c \in Clients : Client(c))

KnowledgeSpec == KnowledgeInit /\ [][KnowledgeNext]_knowledgeVars

\* Node runs what is ready, and every await ends: the pool gives up after its
\* timeouts, and the embeddings and the language model throw.
FairKnowledge == KnowledgeSpec /\ (\A d \in Docs : WF_knowledgeVars(Upload(d)))
                               /\ (\A c \in Clients : WF_knowledgeVars(Client(c)))

-----------------------------------------------------------------------------
(* Properties                                                                *)

Places == {"idle", "extract", "embed", "schema", "insert", "readBack",
           "listSchema", "listRows", "listRecords", "deleteRows",
           "searchSchema", "searchRows", "searchMap", "over", "dead"}
Replies == {"none", "accepted", "refused", "failed", "listed", "deleted",
            "answered", "unknown", "lost"}

\* Every variable has its type, a request has been answered when it is over, and
\* what the process has recorded as READY has been answered so.
Typed ==
    /\ rows \subseteq Docs /\ memory \subseteq Docs /\ asked \subseteq Docs
    /\ records \in [Docs -> {"none", "READY", "FAILED"}]
    /\ schema \in BOOLEAN /\ crashed \in BOOLEAN
    /\ at \in [Requests -> Places]
    /\ aim \in [Clients -> Docs \cup {"none"}]
    /\ found \in [Clients -> {"row", "far", "nothing", "error"}]
    /\ reply \in [Requests -> Replies]
    /\ told \subseteq Docs \X Names
    /\ troubled \subseteq Docs
    /\ \A r \in Requests : at[r] \in {"over", "dead"} <=> reply[r] # "none"
    /\ \A d \in Docs : records[d] = "READY" => reply[d] = "accepted"

Accepted(d) == reply[d] = "accepted" /\ d \notin asked

\* A document whose upload was accepted stays until somebody asks to delete it: in
\* the database, or, if its upload met an error of the database, at least in the
\* Map until the process ends (vectorStore.add goes on without the database, and
\* readFirstStoredChunk is all that stands between that and an empty promise).
AcceptedIsKept ==
    \A d \in Docs : Accepted(d) =>
        \/ d \in rows
        \/ d \in troubled /\ (d \in memory \/ crashed)

\* An upload that was refused or failed leaves nothing behind, in either store, as
\* long as it met no fault and nobody deleted its rows before it was over (the Map
\* is filled before anything can fail, and the transaction is over when what it
\* stored is verified).
RefusedLeavesNothing ==
    \A d \in Docs :
        reply[d] \in {"refused", "failed"} /\ d \notin troubled \cup asked =>
            d \notin rows \cup memory

MissIsExplained ==
    \A c \in Clients :
        at[c] = "searchMap" /\ reply'[c] = "unknown" /\ Accepted(aim[c])
        => crashed /\ (aim[c] \in troubled \/ found[c] \in {"far", "error"})

\* A search does not miss a document that was accepted, unless the process has
\* ended since, and the row could not be found either: it was never written, the
\* database failed, or document and question were embedded by different means.
AcceptedIsFound == [][MissIsExplained]_knowledgeVars

\* The knowledge base as its users see it.
Phase(d) == CASE at[d] = "idle"                                 -> "new"
              [] d \in rows                                     -> "kept"
              [] d \in memory /\ d \notin rows                   -> "in"
              [] Active(d) /\ d \notin rows /\ d \notin memory   -> "coming"
              [] OTHER                                          -> "out"

Shelf == INSTANCE Catalogue WITH phase  <- [d \in Docs |-> Phase(d)],
                                 answer <- [d \in Docs |-> reply[d]]

\* Uploads, deletions and crashes do to the documents what Catalogue allows, and
\* every upload is answered: the two stores together behave like one shelf, on
\* which a document appears whole and from which it goes only on demand.
ImplementsCatalogue == Shelf!Spec /\ Shelf!Answered
=============================================================================
