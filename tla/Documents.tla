------------------------------- MODULE Documents ------------------------------
(***************************************************************************)
(* Document ingestion: routes/documents.ts and document-ingestion.service  *)
(* in the backend, workers/document-worker.ts in a process of its own.     *)
(*                                                                         *)
(* ingestDocument writes the document row, then the row of its job.  The   *)
(* worker polls on an interval that does not wait for the poll before it,  *)
(* so several polls are coroutines of one process; each lists the queued   *)
(* jobs, claims them one by one and processes what it claimed.  Plain text *)
(* is cut and stored chunk by chunk; other files are converted by docling, *)
(* whose output is found by the base name of the file.  Every statement is *)
(* a step and may fail.  A document has one job.                           *)
(*                                                                         *)
(* A text is the sequence of the kinds of its positions: 0, or the rank of *)
(* the break it ends with ("\n\n" before "\n" before ". ").                *)
(***************************************************************************)
EXTENDS Integers, SequencesExt

CONSTANTS
    MaxDocs,      \* bound on the documents ever created
    Poller,       \* polls of the worker in progress at once
    DocText,      \* the texts of the files
    ChunkSize, Overlap,   \* config.document
    MaxDocFaults  \* bound on failed statements and crashes

ASSUME DocumentsAssumption ==
    /\ MaxDocs \in Nat /\ MaxDocFaults \in Nat /\ IsFiniteSet(Poller)
    /\ DocText \subseteq Seq(Nat)
    /\ ChunkSize \in Nat /\ Overlap \in Nat /\ 0 < ChunkSize /\ 2 * Overlap <= ChunkSize

VARIABLES
    docs,       \* the documents in the order of their creation, with chunks and job
    ingesting,  \* documents whose request has yet to create the job
    files,      \* original files that are there, by the document first made from them
    output,     \* whose conversion the shared markdown file holds, 0 for no file
    pollers,    \* the polls
    docFaults

docVars == <<docs, ingesting, files, output, pollers, docFaults>>

DocId == DOMAIN docs
DocStatus == {"processing", "completed", "failed", "deleted"}
JobStatus == {"none", "queued", "processing", "completed", "failed"}

DocInit ==
    /\ docs = <<>>
    /\ ingesting = {}
    /\ files = {}
    /\ output = 0
    /\ pollers = [p \in Poller |-> [pc |-> "idle", queue |-> {}, doc |-> 0, of |-> 0]]
    /\ docFaults = 0

-----------------------------------------------------------------------------
\* splitIntoChunks.

\* Where the chunk that starts after position from ends: at the last break of the
\* first kind that has one beyond the middle, or at the full length.
ChunkEnd(t, from) ==
    LET full == Min({from + ChunkSize, Len(t)})
        breaks == {i \in from + 1 .. full : t[i] # 0 /\ 2 * (i - from - 1) > ChunkSize}
        first == {i \in breaks : \A j \in breaks : t[i] <= t[j]}
    IN IF full = Len(t) \/ breaks = {} THEN full ELSE Max(first)

\* The chunks as pairs of the positions they lie between.  Every round begins further on,
\* so there are no more rounds than positions.
Chunks(t) ==
    LET after[i \in 0 .. Len(t)] ==
            IF i = 0 THEN <<>>
            ELSE LET chunks == after[i - 1]
                     from == IF chunks = <<>> THEN 0 ELSE Last(chunks)[2] - Overlap
                     stuck == chunks # <<>> /\ Last(chunks)[2] - Last(chunks)[1] <= Overlap
                 IN IF stuck \/ from = Len(t) THEN chunks
                    ELSE Append(chunks, <<from, ChunkEnd(t, from)>>)
    IN after[Len(t)]

Positions(t, n) == UNION {Chunks(t)[i][1] + 1 .. Chunks(t)[i][2] : i \in 1 .. n}

-----------------------------------------------------------------------------
\* The backend.

DocFault == docFaults < MaxDocFaults /\ docFaults' = docFaults + 1

CreateDoc(direct, text, file) ==
    /\ Len(docs) < MaxDocs
    /\ docs' = Append(docs, [status |-> "processing", direct |-> direct, text |-> text, file |-> file,
                             chunks |-> 0, of |-> 0, crossed |-> FALSE, job |-> "none"])
    /\ ingesting' = ingesting \cup {Len(docs) + 1}

Ingest(direct, text) ==
    /\ CreateDoc(direct, text, Len(docs) + 1)
    /\ files' = files \cup {Len(docs) + 1}
    /\ UNCHANGED <<output, pollers, docFaults>>

\* A new document from the same file, unless a job of d is active: a job the worker
\* died on is active for ever.
Reingest(d) ==
    /\ docs[d].status # "deleted" /\ docs[d].job \notin {"queued", "processing"}
    /\ docs[d].file \in files
    /\ CreateDoc(docs[d].direct, docs[d].text, docs[d].file)
    /\ UNCHANGED <<files, output, pollers, docFaults>>

\* The second statement of ingestDocument; when it fails the document is "processing"
\* with nothing that would process it.
CreateJob(d) ==
    /\ d \in ingesting
    /\ ingesting' = ingesting \ {d}
    /\ \/ /\ docs[d].status # "deleted"
          /\ docs' = [docs EXCEPT ![d].job = "queued"]
          /\ UNCHANGED docFaults
       \/ docs[d].status = "deleted" /\ UNCHANGED <<docs, docFaults>>
       \/ DocFault /\ UNCHANGED docs
    /\ UNCHANGED <<files, output, pollers>>

\* The row takes its chunks and its job along; then the files go: the markdown, which
\* another document may share, and the original of a document that was reingested.
DeleteDoc(d) ==
    /\ docs[d].status # "deleted"
    /\ docs' = [docs EXCEPT ![d] = [@ EXCEPT !.status = "deleted", !.job = "none", !.chunks = 0]]
    /\ output' = IF docs[d].status = "completed" /\ ~docs[d].direct THEN 0 ELSE output
    /\ files' = IF docs[d].file # d THEN files \ {docs[d].file} ELSE files
    /\ UNCHANGED <<ingesting, pollers, docFaults>>

-----------------------------------------------------------------------------
\* The worker.

PollerAt(p, pc) == pollers[p].pc = pc
PollerGoes(p, pc) ==
    pollers' = [pollers EXCEPT ![p].pc = pc, ![p].doc = IF pc = "next" THEN 0 ELSE @,
                               ![p].of = IF pc \in {"chunk", "finish"} THEN @ ELSE 0]
PollEnds(p) == pollers' = [pollers EXCEPT ![p] = [pc |-> "idle", queue |-> {}, doc |-> 0, of |-> 0]]
PollerRests == UNCHANGED <<ingesting, files, output>>

\* findMany takes up to five, which is no less than MaxDocs.
PollStarts(p) ==
    /\ PollerAt(p, "idle")
    /\ \E d \in DocId : docs[d].job = "queued"
    /\ pollers' = [pollers EXCEPT ![p].pc = "next", ![p].queue = {d \in DocId : docs[d].job = "queued"}]
    /\ UNCHANGED <<docs, docFaults>> /\ PollerRests

\* claimJob, for the oldest job of the list: the update counts a row only while the job
\* is queued.  An error ends the poll.
Claim(p) ==
    /\ PollerAt(p, "next")
    /\ IF pollers[p].queue = {}
       THEN PollEnds(p) /\ UNCHANGED <<docs, docFaults>>
       ELSE LET d == Min(pollers[p].queue)
                skipped == [pollers EXCEPT ![p].queue = @ \ {d}]
            IN \/ /\ docs[d].job = "queued"
                  /\ docs' = [docs EXCEPT ![d].job = "processing"]
                  /\ pollers' = [skipped EXCEPT ![p].pc = "load", ![p].doc = d]
                  /\ UNCHANGED docFaults
               \/ docs[d].job # "queued" /\ pollers' = skipped /\ UNCHANGED <<docs, docFaults>>
               \/ DocFault /\ PollEnds(p) /\ UNCHANGED docs
    /\ PollerRests

\* A statement of processJob about p's document, which fails when the document is gone.
Statement(p, change, next, orElse) ==
    LET d == pollers[p].doc IN
    /\ \/ /\ docs[d].status # "deleted"
          /\ docs' = [docs EXCEPT ![d] = change[d]]
          /\ PollerGoes(p, next)
          /\ UNCHANGED docFaults
       \/ /\ docs[d].status = "deleted" \/ docFaults < MaxDocFaults
          /\ docFaults' = IF docs[d].status = "deleted" THEN docFaults ELSE docFaults + 1
          /\ PollerGoes(p, orElse)
          /\ UNCHANGED docs
    /\ PollerRests

\* Of an error before the try nobody hears but the poll, which ends; the job of a
\* document that is gone is gone too, and the update that would fail it throws.
Load(p) == PollerAt(p, "load") /\ Statement(p, docs, "read", "lost")
Lost(p) == PollerAt(p, "lost") /\ PollEnds(p) /\ UNCHANGED <<docs, docFaults>> /\ PollerRests

ReadFile(p) ==
    /\ PollerAt(p, "read")
    /\ LET d == pollers[p].doc IN
       IF docs[d].file \notin files
       THEN PollerGoes(p, "caught") /\ UNCHANGED docFaults
       ELSE \/ /\ pollers' = [pollers EXCEPT ![p].pc = IF docs[d].direct THEN "chunk" ELSE "convert", ![p].of = d]
               /\ UNCHANGED docFaults
            \/ DocFault /\ PollerGoes(p, "caught")
    /\ UNCHANGED docs /\ PollerRests

\* Docling writes the file named by the base name; every document has the same one here.
Convert(p) ==
    /\ PollerAt(p, "convert")
    /\ output' = pollers[p].doc
    /\ docs' = LET busy == {q \in Poller : pollers[q].pc \in {"convert", "output"}} IN
               [d \in DocId |-> [docs[d] EXCEPT !.crossed = @ \/
                   (Cardinality(busy) > 1 /\ \E q \in busy : pollers[q].doc = d)]]
    /\ PollerGoes(p, "output")
    /\ UNCHANGED <<ingesting, files, docFaults>>

\* Exit status, signal, spawn error and the timer that kills the process tree are one
\* outcome, as is a file that is empty or not there after three attempts.
ConvertFails(p) ==
    /\ PollerAt(p, "convert") /\ DocFault /\ PollerGoes(p, "failing")
    /\ UNCHANGED docs /\ PollerRests

ReadOutput(p) ==
    /\ PollerAt(p, "output")
    /\ IF output = 0 \/ (output # 0 /\ docs[output].text = <<>>)
       THEN PollerGoes(p, "failing")
       ELSE pollers' = [pollers EXCEPT ![p].pc = "complete", ![p].of = output]
    /\ UNCHANGED <<docs, docFaults>> /\ PollerRests

PollerText(p) == docs[pollers[p].of].text
IsDirect(p) == docs[pollers[p].doc].direct
WhenFailed(p) == IF IsDirect(p) THEN "caught" ELSE "failing"
DocWith(p, f) == LET d == pollers[p].doc IN [docs EXCEPT ![d] = f]

\* A chunk, or after the last one what follows: the document of a plain text is
\* completed now, that of a conversion was completed before its first chunk.
StoreChunk(p) ==
    /\ PollerAt(p, "chunk")
    /\ LET d == pollers[p].doc IN
       IF docs[d].chunks < Len(Chunks(PollerText(p)))
       THEN Statement(p, DocWith(p, [docs[d] EXCEPT !.chunks = @ + 1, !.of = pollers[p].of]),
                      "chunk", WhenFailed(p))
       ELSE IF IsDirect(p)
            THEN Statement(p, DocWith(p, [docs[d] EXCEPT !.status = "completed", !.of = pollers[p].of]),
                           "finish", "caught")
            ELSE Statement(p, DocWith(p, [docs[d] EXCEPT !.job = "completed"]), "next", "failing")

\* A plausible defect: the job of a conversion is completed together with its document.
CompleteBoth(p) ==
    /\ PollerAt(p, "complete")
    /\ LET d == pollers[p].doc IN
       Statement(p, DocWith(p, [docs[d] EXCEPT !.status = "completed", !.job = "completed", !.of = pollers[p].of]),
                 "chunk", "failing")

CompleteConverted(p) ==
    /\ PollerAt(p, "complete")
    /\ LET d == pollers[p].doc IN
       Statement(p, DocWith(p, [docs[d] EXCEPT !.status = "completed", !.of = pollers[p].of]), "chunk", "failing")

FinishDirect(p) ==
    /\ PollerAt(p, "finish")
    /\ LET d == pollers[p].doc IN
       Statement(p, DocWith(p, [docs[d] EXCEPT !.job = "completed"]), "next", "caught")

\* failJob, and after it the handler of processJob, which repeats what failJob could
\* not write.  Nobody else writes the two rows, so what the handler reads is what it
\* writes over; its own error leaves them as they are.
FailJobDoc(p) ==
    /\ PollerAt(p, "failing")
    /\ LET d == pollers[p].doc IN
       Statement(p, DocWith(p, [docs[d] EXCEPT !.status = "failed"]), "failing job", "caught")

FailJobRow(p) ==
    /\ PollerAt(p, "failing job")
    /\ LET d == pollers[p].doc IN
       Statement(p, DocWith(p, [docs[d] EXCEPT !.job = "failed"]), "caught", "caught")

CaughtDoc(p) ==
    /\ PollerAt(p, "caught")
    /\ LET d == pollers[p].doc IN
       Statement(p, DocWith(p, [docs[d] EXCEPT !.status = "failed"]), "caught job", "next")

CaughtRow(p) ==
    /\ PollerAt(p, "caught job")
    /\ LET d == pollers[p].doc IN
       Statement(p, DocWith(p, [docs[d] EXCEPT !.job = "failed"]), "next", "next")

\* Backend or worker dies.
BackendCrash ==
    /\ ingesting # {} /\ DocFault /\ ingesting' = {}
    /\ UNCHANGED <<docs, files, output, pollers>>

WorkerCrash ==
    /\ \E p \in Poller : ~PollerAt(p, "idle")
    /\ DocFault
    /\ pollers' = [p \in Poller |-> [pc |-> "idle", queue |-> {}, doc |-> 0, of |-> 0]]
    /\ UNCHANGED docs /\ PollerRests

DocNext ==
    \/ \E direct \in BOOLEAN, t \in DocText : Ingest(direct, t)
    \/ \E d \in DocId : Reingest(d) \/ CreateJob(d) \/ DeleteDoc(d)
    \/ \E p \in Poller :
          \/ PollStarts(p) \/ Claim(p) \/ Load(p) \/ Lost(p) \/ ReadFile(p)
          \/ Convert(p) \/ ConvertFails(p) \/ ReadOutput(p)
          \/ StoreChunk(p) \/ CompleteConverted(p) \/ FinishDirect(p)
          \/ FailJobDoc(p) \/ FailJobRow(p) \/ CaughtDoc(p) \/ CaughtRow(p)
    \/ BackendCrash \/ WorkerCrash

DocSpec == DocInit /\ [][DocNext]_docVars

-----------------------------------------------------------------------------
\* The type invariant.
DocTypeOK ==
    /\ Len(docs) <= MaxDocs
    /\ \A d \in DocId :
          /\ docs[d].status \in DocStatus /\ docs[d].job \in JobStatus
          /\ docs[d].text \in DocText /\ docs[d].of \in 0 .. MaxDocs /\ docs[d].chunks \in Nat
    /\ ingesting \subseteq DocId /\ files \subseteq DocId /\ output \in 0 .. MaxDocs
    /\ \A p \in Poller : pollers[p].queue \subseteq DocId /\ pollers[p].doc \in 0 .. MaxDocs
    /\ docFaults \in 0 .. MaxDocFaults

\* A document is searched once it is completed.  Then its chunks hold every position of
\* the file's text: always for a plain text, and for a conversion, which is completed
\* before its chunks exist, once its job is completed, whatever statement failed and
\* whoever died.  The text is the document's own unless two conversions ran at once.
CompletedMeansWhole ==
    \A d \in DocId :
        (docs[d].status = "completed" /\ (docs[d].direct \/ docs[d].job = "completed"))
            => /\ docs[d].crossed \/ docs[d].of = d
               /\ Positions(docs[docs[d].of].text, docs[d].chunks) = 1 .. Len(docs[docs[d].of].text)
=============================================================================
