------------------------------ MODULE FileUpload ------------------------------
(***************************************************************************)
(* One uploaded file: uploadFile and createProcesses of                    *)
(* pkg/rpc/file/handlers_file.go with the processors of                    *)
(* file_processors.go, as the goroutines they are.                         *)
(*                                                                         *)
(* The handler copies what the client sends to several pipes at once.  A   *)
(* saver reads the first one, possibly after a converter, and stores the   *)
(* file; processors read the others and make thumbnails or find out about  *)
(* the file; a collector waits for all of these and completes the file's   *)
(* document.  A pipe has no buffer: a write waits for its reader.          *)
(***************************************************************************)
EXTENDS Integers, FiniteSets

CONSTANTS
  Kinds,      \* kinds of upload in this instance
  Thumbs,     \* thumbnails of a picture: the preview and three sizes
  Chunks      \* bound: portions of the file a write copies

VARIABLES
  kind,       \* the upload's type, with the file's where it matters
  left,       \* portions the client still has to send
  todo,       \* the pipes this portion is still to be written to
  written,    \* whether the saver's pipe has got anything
  pipe,       \* each pipe: open, closed by the handler, broken by its reader
  main,       \* where the handler is
  errors,     \* errors in chErr
  pre, out,   \* the converter, and the pipe between it and the saver
  save,       \* the saver
  proc,       \* the processors
  waiting,    \* the counter of wgMetaData
  found,      \* thumbnails and metadata in metaData
  collector,  \* where the collector is
  content,    \* ids in the store
  files,      \* ids with a document in files
  listed,     \* what the file's document says of its thumbnails and metadata
  panicked    \* a goroutine panicked: the server has stopped

streams == <<left, todo, written, pipe, out>>
stored == <<content, files, listed>>
vars == <<kind, streams, main, errors, pre, save, proc, waiting, found,
          collector, stored, panicked>>

-----------------------------------------------------------------------------
(* createProcesses.  A FILE is a picture, a video or audio; DOCUMENT and   *)
(* OTHER are FILEs of those types; PICTURE is one of a place or a profile. *)

AllKinds == {"FILE", "DOCUMENT", "OTHER", "PICTURE", "VIDEO", "AUDIO",
             "VOICE", "IMAGE", "GIF"}

Processors(k) ==
  CASE k \in {"FILE", "VIDEO", "AUDIO", "IMAGE", "GIF"} -> Thumbs \cup {"meta"}
    [] k = "PICTURE" -> Thumbs
    [] k \in {"DOCUMENT", "VOICE"} -> {"meta"}
    [] k = "OTHER" -> {}

Preprocessed(k) == k \in {"VIDEO", "AUDIO", "VOICE", "IMAGE", "GIF"}

(* wgMetaData.Add(len(processList)), which the others do not have.         *)
Expected(k) ==
  IF k \in {"VOICE", "IMAGE", "GIF"} THEN Cardinality(Processors(k)) ELSE 0

(* The id of the document.  A voice gets a second id, which is not the one *)
(* it is stored under: createProcesses assigns to its own copy.            *)
DocumentId(k) == IF k = "VOICE" THEN "voice" ELSE "file"

UploadAssumption ==
  /\ Kinds \subseteq AllKinds /\ Chunks \in Nat
  /\ IsFiniteSet(Thumbs) /\ Thumbs \cap {"file", "voice", "meta"} = {}

Ends(k) == {"save"} \cup Processors(k)

Init ==
  /\ kind \in Kinds
  /\ left \in 0..Chunks
  /\ todo = {}
  /\ written = FALSE
  /\ pipe = [e \in Ends(kind) |-> "open"]
  /\ out = "open"
  /\ main = "writing"
  /\ errors = 0
  /\ pre = IF Preprocessed(kind) THEN "reading" ELSE "none"
  /\ save = "reading"
  /\ proc = [p \in Processors(kind) |-> "reading"]
  /\ waiting = Expected(kind)
  /\ found = {}
  /\ collector = "waiting"
  /\ content = {} /\ files = {} /\ listed = {}
  /\ panicked = FALSE

-----------------------------------------------------------------------------
(* The handler.                                                            *)

Reads(e) ==
  IF e # "save" THEN proc[e] # "done"
  ELSE IF pre = "none" THEN save = "reading" ELSE pre = "reading"

(* The next portion: io.CopyN into the MultiWriter, which writes to one    *)
(* pipe after the other, first to the saver's.                             *)
NextPipe == IF "save" \in todo THEN "save" ELSE CHOOSE e \in todo : TRUE

NextChunk ==
  /\ main = "writing" /\ todo = {} /\ left > 0
  /\ left' = left - 1
  /\ todo' = Ends(kind)
  /\ UNCHANGED <<kind, written, pipe, out, main, errors, pre, save, proc,
                 waiting, found, collector, stored, panicked>>

WriteChunk ==
  /\ main = "writing" /\ todo # {}
  /\ pipe[NextPipe] = "open" /\ Reads(NextPipe)
  /\ todo' = todo \ {NextPipe}
  /\ written' = (written \/ NextPipe = "save")
  /\ UNCHANGED <<kind, left, pipe, out, main, errors, pre, save, proc,
                 waiting, found, collector, stored, panicked>>

(* A broken pipe, or the client is gone: the error goes to chErr, if it    *)
(* has room.                                                               *)
StopWriting ==
  /\ main = "writing"
  /\ IF todo = {} THEN left > 0 ELSE pipe[NextPipe] = "broken"
  /\ main' = "closing"
  /\ errors' = IF errors < 2 THEN errors + 1 ELSE errors
  /\ UNCHANGED <<kind, streams, pre, save, proc, waiting, found, collector,
                 stored, panicked>>

EndOfFile ==
  /\ main = "writing" /\ todo = {} /\ left = 0
  /\ main' = "closing"
  /\ UNCHANGED <<kind, streams, errors, pre, save, proc, waiting, found,
                 collector, stored, panicked>>

ClosePipes ==
  /\ main = "closing"
  /\ pipe' = [e \in DOMAIN pipe |->
                IF pipe[e] = "open" THEN "closed" ELSE pipe[e]]
  /\ main' = "awaiting"
  /\ UNCHANGED <<kind, left, todo, written, out, errors, pre, save, proc,
                 waiting, found, collector, stored, panicked>>

Saved == save \in {"done", "failed"}

(* wgMain and wgProcess; then an error that is in chErr is the answer.     *)
Answer ==
  /\ main = "awaiting"
  /\ Saved /\ collector = "done" /\ \A p \in DOMAIN proc : proc[p] = "done"
  /\ main' = IF errors > 0 THEN "refused" ELSE "answered"
  /\ UNCHANGED <<kind, streams, errors, pre, save, proc, waiting, found,
                 collector, stored, panicked>>

-----------------------------------------------------------------------------
(* The converter before the saver.  One that succeeds has read everything. *)

Convert ==
  /\ pre = "reading" /\ pipe["save"] = "closed" /\ written /\ out = "open"
  /\ pre' = "done" /\ out' = "closed"
  /\ UNCHANGED <<kind, left, todo, written, pipe, main, errors, save, proc,
                 waiting, found, collector, stored, panicked>>

(* It breaks both its pipes: on an error of the tool, or a saver that has  *)
(* stopped.                                                                *)
ConvertFails ==
  /\ pre = "reading"
  /\ pre' = "failed"
  /\ pipe' = [pipe EXCEPT !["save"] = "broken"]
  /\ out' = "broken"
  /\ UNCHANGED <<kind, left, todo, written, main, errors, save, proc, waiting,
                 found, collector, stored, panicked>>

(* The tool has written nothing, which is an error of its own.             *)
ConvertEmpty ==
  /\ pre = "reading" /\ pipe["save"] = "closed" /\ errors < 2
  /\ pre' = "failed"
  /\ errors' = errors + 1
  /\ pipe' = [pipe EXCEPT !["save"] = "broken"]
  /\ out' = "broken"
  /\ UNCHANGED <<kind, left, todo, written, main, save, proc, waiting, found,
                 collector, stored, panicked>>

-----------------------------------------------------------------------------
(* The saver: Store.Save, then AddFile, which answers true also when the   *)
(* insert fails.                                                           *)

Source == IF pre = "none" THEN pipe["save"] ELSE out

StoreFile ==
  /\ save = "reading" /\ Source = "closed" /\ written
  /\ save' = "stored"
  /\ content' = content \cup {"file"}
  /\ UNCHANGED <<kind, streams, main, errors, pre, proc, waiting, found,
                 collector, files, listed, panicked>>

(* Mutant: the reader stays open when the store fails.                     *)
StoreFailsOpen ==
  /\ save = "reading"
  /\ save' = "failed"
  /\ UNCHANGED <<kind, streams, main, errors, pre, proc, waiting, found,
                 collector, stored, panicked>>

(* The store fails, its source broke, or the file is empty.                *)
StoreFails ==
  /\ save = "reading"
  /\ save' = "failed"
  /\ IF pre = "none" THEN pipe' = [pipe EXCEPT !["save"] = "broken"]
                          /\ UNCHANGED out
     ELSE out' = "broken" /\ UNCHANGED pipe
  /\ UNCHANGED <<kind, left, todo, written, main, errors, pre, proc, waiting,
                 found, collector, stored, panicked>>

AddFile ==
  /\ save = "stored"
  /\ save' = "done"
  /\ files' \in {files, files \cup {DocumentId(kind)}}
  /\ UNCHANGED <<kind, streams, main, errors, pre, proc, waiting, found,
                 collector, content, listed, panicked>>

-----------------------------------------------------------------------------
(* A processor: its tool, then for a thumbnail the store and its document, *)
(* then the shared map; Done; then it reads what is left of its pipe.      *)

Done(p, s) ==
  /\ proc' = [proc EXCEPT ![p] = s]
  /\ waiting' = waiting - 1
  /\ panicked' = (waiting = 0)

StoreThumb(p) ==
  /\ p \in Thumbs /\ proc[p] = "reading"
  /\ proc' = [proc EXCEPT ![p] = "stored"]
  /\ content' = content \cup {p} /\ files' \in {files, files \cup {p}}
  /\ UNCHANGED <<kind, streams, main, errors, pre, save, waiting, found,
                 collector, listed, panicked>>

Note(p) ==
  /\ proc[p] = IF p \in Thumbs THEN "stored" ELSE "reading"
  /\ found' = found \cup {p}
  /\ Done(p, "draining")
  /\ UNCHANGED <<kind, streams, main, errors, pre, save, collector, stored>>

ProcessFails(p) ==
  /\ proc[p] = "reading"
  /\ Done(p, "draining")
  /\ UNCHANGED <<kind, streams, main, errors, pre, save, found, collector,
                 stored>>

(* The pipe's end: wgProcess.Done.                                         *)
Drained(p) ==
  /\ proc[p] = "draining" /\ pipe[p] = "closed"
  /\ proc' = [proc EXCEPT ![p] = "done"]
  /\ UNCHANGED <<kind, streams, main, errors, pre, save, waiting, found,
                 collector, stored, panicked>>

-----------------------------------------------------------------------------
(* The collector: after wgMetaData and wgMain, the metadata, then the      *)
(* thumbnails, each in the store and in the document, if there is one.     *)

(* Mutant: only wgMain is waited for.                                      *)
CollectEarly ==
  /\ collector = "waiting" /\ Saved
  /\ collector' = "thumbnails"
  /\ listed' = IF DocumentId(kind) \in files
                 THEN listed \cup (found \cap {"meta"})
                 ELSE listed
  /\ UNCHANGED <<kind, streams, main, errors, pre, save, proc, waiting, found,
                 content, files, panicked>>

Collect ==
  /\ collector = "waiting" /\ waiting = 0 /\ Saved
  /\ collector' = "thumbnails"
  /\ listed' = IF DocumentId(kind) \in files
                 THEN listed \cup (found \cap {"meta"})
                 ELSE listed
  /\ UNCHANGED <<kind, streams, main, errors, pre, save, proc, waiting, found,
                 content, files, panicked>>

ListThumbs ==
  /\ collector = "thumbnails"
  /\ collector' = "done"
  /\ listed' = IF DocumentId(kind) \in files
                 THEN listed \cup (found \cap Thumbs)
                 ELSE listed
  /\ UNCHANGED <<kind, streams, main, errors, pre, save, proc, waiting, found,
                 content, files, panicked>>

-----------------------------------------------------------------------------

Handler == NextChunk \/ WriteChunk \/ EndOfFile \/ ClosePipes \/ Answer
Converter == Convert \/ ConvertFails \/ ConvertEmpty
Saver == StoreFile \/ StoreFails \/ AddFile
Processor(p) == StoreThumb(p) \/ Note(p) \/ ProcessFails(p) \/ Drained(p)
Collector == Collect \/ ListThumbs

(* What the goroutines do of themselves.                                   *)
Step ==
  /\ ~panicked
  /\ \/ Handler \/ Converter \/ Saver \/ Collector \/ StopWriting
     \/ \E p \in DOMAIN proc : Processor(p)

Next == Step

(* Waiting, for ever only once the upload is answered: UploadAnswered.      *)
Stop == UNCHANGED vars

(* Goroutines run, tools end, and a client sends its file or goes.         *)
Fairness == WF_vars(Step)

Spec == Init /\ [][Next \/ Stop]_vars /\ Fairness

-----------------------------------------------------------------------------
(* Properties.                                                             *)

TypeOK ==
  /\ kind \in AllKinds /\ left \in 0..Chunks
  /\ pipe \in [Ends(kind) -> {"open", "closed", "broken"}]
  /\ out \in {"open", "closed", "broken"}
  /\ main \in {"writing", "closing", "awaiting", "answered", "refused"}
  /\ errors \in 0..2 /\ waiting \in Int
  /\ pre \in {"none", "reading", "done", "failed"}
  /\ save \in {"reading", "stored", "done", "failed"}
  /\ proc \in [Processors(kind) -> {"reading", "stored", "draining", "done"}]
  /\ found \subseteq Processors(kind) /\ listed \subseteq found
  /\ collector \in {"waiting", "thumbnails", "done"}
  /\ panicked \in BOOLEAN

(* Whichever tools, writes of the store or clients fail, at whichever      *)
(* point, no goroutine waits for ever on a pipe or a counter: the upload   *)
(* is answered.                                                            *)
UploadAnswered == main = "writing" ~> main \in {"answered", "refused"}

(* Once it is answered, the file's document lists all thumbnails and       *)
(* metadata that the processors found.                                     *)
ThumbsListed ==
  main \in {"answered", "refused"} /\ DocumentId(kind) \in files
    => listed = found

(* "Block client connection if request is not early-responded until all    *)
(* thumbs are created" (handlers_file.go:620): as long as the client is    *)
(* waiting the server works on the thumbnails.                             *)
ThumbsAwaited == main = "writing" ~> \A p \in DOMAIN proc : proc[p] = "done"
=============================================================================
