----------------------------- MODULE UploadFiles -----------------------------
(***************************************************************************)
(* Uploaded files on their way into the knowledge graph: by staff          *)
(* (app/api.py:496-513) and by clients for an application (867-909). A     *)
(* request writes its files under uploads/, by name, and the analysis      *)
(* (app/agents/document_analysis.py, app/services/ingestion.py) reads each *)
(* one four times: for the tags, for the NLP enrichment, for the digest    *)
(* that names the document, and for the chunks that are indexed.           *)
(*                                                                         *)
(* Every upload brings bytes of its own: the i-th file of the n-th request *)
(* is <<n, i>>, and what is read from a file stands for what is derived of *)
(* it. A client's file is named by its document type and its name, in the  *)
(* directory of the application.                                           *)
(***************************************************************************)
EXTENDS Integers, FiniteSets, Sequences, SequencesExt

CONSTANTS
    StaffPaths, ClientPaths,   \* files under uploads/
    Workers,                   \* threads that serve requests
    MaxFiles,                  \* bound: files of a request
    MaxRequests, MaxErrors     \* bounds

ASSUME UploadBounds == MaxFiles \in Nat \ {0} /\ MaxRequests \in Nat /\ MaxErrors \in Nat

VARIABLES
    disk,         \* uploads/
    job,          \* per worker: its request and where it is
    sent,         \* the requests so far, and how each was answered
    documents,    \* what was persisted: per file, the bytes each part came from
    mixed,        \* history: requests that wrote a path while another had it
    errors

uploadVars == <<disk, job, sent, documents, mixed, errors>>

(* Bytes: <<n, i>>, or those of no upload *)
Missing == <<0, 0>>
Empty == <<0, 1>>
Torn == <<0, 2>>
Unread == <<0, 3>>
NoBytes == {Missing, Empty, Torn, Unread}
Bytes == NoBytes \cup ((1 .. MaxRequests) \X (1 .. MaxFiles))

Paths == StaffPaths \cup ClientPaths
NoJob == [step |-> "idle", request |-> 0, file |-> 0, tags |-> Unread, nlp |-> Unread, digest |-> Unread]
Writes(n) == [NoJob EXCEPT !.step = "open", !.request = n, !.file = 1]

(* A file of a request: where it goes, and whether its type is one of      *)
(* REQUIRED_DOCUMENTS (staff files have none to be checked).               *)
StaffRequests == {<<[path |-> p, known |-> TRUE]>> : p \in StaffPaths}
ClientRequests ==
    UNION {[1 .. n -> [path : ClientPaths, known : BOOLEAN]] : n \in 1 .. MaxFiles}

UploadInit ==
    /\ disk = [p \in Paths |-> Missing]
    /\ job = [w \in Workers |-> NoJob]
    /\ sent = <<>>
    /\ documents = {}
    /\ mixed = {}
    /\ errors = 0

Is(w, step) == job[w].step = step
FilesOf(n) == sent[n].files
Now(w) == FilesOf(job[w].request)[job[w].file]
PathsOf(files) == {files[i].path : i \in 1 .. Len(files)}
Underway == {job[w].request : w \in {v \in Workers : ~Is(v, "idle")}}
GoesOn(w, step) == job' = [job EXCEPT ![w].step = step]
Answers(w, result) ==
    /\ sent' = [sent EXCEPT ![job[w].request].result = result]
    /\ job' = [job EXCEPT ![w] = NoJob]

(* A path is shared by two files of the request, or with one underway.     *)
Receive(w, files) ==
    /\ Is(w, "idle")
    /\ Len(sent) < MaxRequests
    /\ LET n == Len(sent) + 1
           rivals == {m \in Underway : PathsOf(FilesOf(m)) \cap PathsOf(files) # {}}
           twice == Cardinality(PathsOf(files)) < Len(files)
       IN  /\ sent' = Append(sent, [files |-> files, result |-> "underway"])
           /\ job' = [job EXCEPT ![w] = Writes(n)]
           /\ mixed' = mixed \cup rivals \cup (IF rivals # {} \/ twice THEN {n} ELSE {})
    /\ UNCHANGED <<disk, documents, errors>>

(* A type that is not required ends the request, whatever was written.     *)
Refuse(w) ==
    /\ Is(w, "open")
    /\ ~Now(w).known
    /\ Answers(w, "refused")
    /\ UNCHANGED <<disk, documents, mixed, errors>>

(* Mutant: an existing file is opened at its end. *)
OpenedToAppend(bytes) == IF bytes = Missing THEN Empty ELSE bytes

(* open("wb") empties the file. *)
Opened(bytes) == Empty

Open(w) ==
    /\ Is(w, "open")
    /\ Now(w).known
    /\ disk' = [disk EXCEPT ![Now(w).path] = Opened(@)]
    /\ GoesOn(w, "write")
    /\ UNCHANGED <<sent, documents, mixed, errors>>

(* The bytes are written at the start of the file: over another's, part of *)
(* those may stay. After the last file the analysis begins with the first. *)
Write(w) ==
    /\ Is(w, "write")
    /\ LET bytes == <<job[w].request, job[w].file>>
           path == Now(w).path
       IN  disk' \in {[disk EXCEPT ![path] = b] :
                        b \in {bytes} \cup (IF disk[path] = Empty THEN {} ELSE {Torn})}
    /\ job' = [job EXCEPT ![w] =
            IF job[w].file < Len(FilesOf(job[w].request))
            THEN [@ EXCEPT !.step = "open", !.file = job[w].file + 1]
            ELSE [@ EXCEPT !.step = "tags", !.file = 1]]
    /\ UNCHANGED <<sent, documents, mixed, errors>>

(* _extract_metadata *)
ReadTags(w) ==
    /\ Is(w, "tags")
    /\ job' = [job EXCEPT ![w] = [@ EXCEPT !.step = "nlp", !.tags = disk[Now(w).path]]]
    /\ UNCHANGED <<disk, sent, documents, mixed, errors>>

(* _nlp_enrich *)
ReadNlp(w) ==
    /\ Is(w, "nlp")
    /\ job' = [job EXCEPT ![w] = [@ EXCEPT !.step = "digest", !.nlp = disk[Now(w).path]]]
    /\ UNCHANGED <<disk, sent, documents, mixed, errors>>

(* ingest_document: read_bytes, whose digest names the document *)
ReadDigest(w) ==
    /\ Is(w, "digest")
    /\ job' = [job EXCEPT ![w] = [@ EXCEPT !.step = "text", !.digest = disk[Now(w).path]]]
    /\ UNCHANGED <<disk, sent, documents, mixed, errors>>

(* Mutant: the result keeps what was read for the first file. *)
DocumentOfFirst(w) ==
    [request |-> job[w].request, file |-> 1, doc |-> job[w].digest,
     tags |-> job[w].tags, nlp |-> job[w].nlp, chunks |-> disk[Now(w).path]]

DocumentOf(w) ==
    [request |-> job[w].request, file |-> job[w].file, doc |-> job[w].digest,
     tags |-> job[w].tags, nlp |-> job[w].nlp, chunks |-> disk[Now(w).path]]

(* ... extract_text, add_document and index_chunks; then the next file, or *)
(* the documents are attached and the request is answered.                 *)
Persist(w) ==
    /\ Is(w, "text")
    /\ documents' = documents \cup {DocumentOf(w)}
    /\ IF job[w].file < Len(FilesOf(job[w].request))
       THEN /\ job' = [job EXCEPT ![w] =
                  [NoJob EXCEPT !.step = "tags", !.request = job[w].request, !.file = job[w].file + 1]]
            /\ UNCHANGED sent
       ELSE Answers(w, "accepted")
    /\ UNCHANGED <<disk, mixed, errors>>

(* The file system or the store raises, or the replica is killed: the      *)
(* request is over, and what it wrote stays.                               *)
Fail(w) ==
    /\ ~Is(w, "idle")
    /\ errors < MaxErrors
    /\ errors' = errors + 1
    /\ Answers(w, "failed")
    /\ UNCHANGED <<disk, documents, mixed>>

UploadNext ==
    \E w \in Workers :
        \/ \E files \in StaffRequests \cup ClientRequests : Receive(w, files)
        \/ Refuse(w) \/ Open(w) \/ Write(w)
        \/ ReadTags(w) \/ ReadNlp(w) \/ ReadDigest(w) \/ Persist(w)
        \/ Fail(w)

UploadSpec == UploadInit /\ [][UploadNext]_uploadVars

-----------------------------------------------------------------------------
(* Properties. *)

Results == {"underway", "accepted", "refused", "failed"}
Steps == {"idle", "open", "write", "tags", "nlp", "digest", "text"}

UploadTypeOK ==
    /\ disk \in [Paths -> Bytes]
    /\ job \in [Workers -> [step : Steps, request : 0 .. MaxRequests, file : 0 .. MaxFiles,
                            tags : Bytes, nlp : Bytes, digest : Bytes]]
    /\ sent \in Seq([files : StaffRequests \cup ClientRequests, result : Results])
    /\ documents \subseteq
          [request : 1 .. MaxRequests, file : 1 .. MaxFiles,
           doc : Bytes, tags : Bytes, nlp : Bytes, chunks : Bytes]
    /\ mixed \subseteq 1 .. Len(sent)
    /\ errors \in 0 .. MaxErrors
    /\ \A v, w \in Workers : v # w /\ ~Is(v, "idle") => job[v].request # job[w].request

(* Safety: unless two requests with one path overlapped, or one request    *)
(* had it twice, a document is one file from its name to its chunks        *)
(* (document_analysis.py:60-112, ingestion.py:62-78): the bytes of that    *)
(* very upload, not what an earlier, refused or failed request left under  *)
(* the name. A request that was accepted has every file of its as a        *)
(* document, and one that was refused has none: a bad type is found before *)
(* anything is analysed (api.py:899-908).                                  *)
AnalysedAsOne ==
    /\ \A d \in documents : d.request \notin mixed =>
          LET own == <<d.request, d.file>>
          IN  d.doc = own /\ d.tags = own /\ d.nlp = own /\ d.chunks = own
    /\ \A n \in 1 .. Len(sent) :
          LET analysed == {d.file : d \in {e \in documents : e.request = n}}
          IN  /\ sent[n].result = "accepted" => analysed = 1 .. Len(FilesOf(n))
              /\ sent[n].result = "refused" => analysed = {}
=============================================================================
