--------------------------- MODULE DocumentPublish ---------------------------
(***************************************************************************)
(* The files of one session: the session manager's upload and remove       *)
(* commands (src/backend/services/session_manager.py), the document        *)
(* service's PrepareResources thread (src/document_service), the objects   *)
(* of the session's bucket, and the agent's worker that reads them for a   *)
(* turn (src/agent/.../tools).                                             *)
(*                                                                         *)
(* Every get, put and delete of an object is a step, so that the store may *)
(* fail, the manager may stop waiting and a turn may read between any two. *)
(* A document is its file name and the request that brought its content    *)
(* (its version); it has one block and one chunk, whose text and vector    *)
(* are the document.  Two versions of a file have blocks of the same       *)
(* names, so that a stale reference is noticed only by its directory.      *)
(***************************************************************************)
EXTENDS Naturals, Sequences, SequencesExt, FiniteSets, FiniteSetsExt, Functions, TLC

CONSTANTS
    File,          \* names of the files
    Absent,        \* what the store answers for a key that is not there
    MaxRequests,   \* bound: uploads and removals of the session
    MaxFiles,      \* settings.upload_max_files
    MaxFaults,     \* bound: store operations, parses, transactions that fail
    MaxTimeouts,   \* bound: requests the manager stops waiting for
    MaxReads       \* bound: turns that read the workspace

Request == 1 .. MaxRequests
Version == Request
Key == {"documents.zip", "manifest.json", "index.json", "vectors.npy"}

(* A document's directory in the archive: its number and its file's name.  *)
Roots == (1 .. MaxRequests * Cardinality(File)) \X File
Number(root) == root[1]
FileOf(root) == root[2]

(* A row of the index, and of the vectors.                                 *)
Chunk == [root : Roots, version : Version]
Vector == [file : File, version : Version]

ASSUME PublishAssumption ==
    /\ IsFiniteSet(File)
    /\ \A n \in {MaxRequests, MaxFiles, MaxFaults, MaxTimeouts, MaxReads} : n \in Nat

(* Absent is no archive, manifest, index or array of vectors.              *)
ASSUME AbsentAssumption ==
    /\ \A roots \in SUBSET Roots : Absent \notin [roots -> Version]
    /\ \A files \in SUBSET File : Absent \notin [files -> Roots]
    /\ Absent \notin Seq(Chunk) /\ Absent \notin Seq(Vector)

VARIABLES
    objects,       \* the published objects of the bucket, by key
    raw,           \* the objects under raw/: [held files -> version]
    rows,          \* the session's resource rows (and the manager's copy)
    thread,        \* [requests -> the service's thread for it]
    waiting,       \* the request the manager's queue waits for, 0: none
    asked,         \* requests made so far
    reader,        \* the worker that prepares a turn's workspace
    faults, timeouts, reads,
    torn,          \* a publication was cut short and nothing repaired it
    overlapped     \* history: a request was made while the service still
                   \* worked on one that the manager no longer waits for

store == <<objects, raw>>
budget == <<faults, timeouts, reads>>
vars == <<objects, raw, rows, thread, waiting, asked, reader, budget, torn,
          overlapped>>

NoObjects == [k \in Key |-> Absent]
NoRows == [bundle |-> FALSE, raw |-> {}]

(* A thread of the service: the request, raw names it listed, objects it   *)
(* fetched (then: the objects it is about to put), and what is left to do. *)
NoThread == [pc |-> "none", adds |-> <<>>, removes |-> {}, names |-> {},
             got |-> NoObjects, left |-> {}]

(* A worker: the objects it has, and the last request it may overlap; 0    *)
(* when it began although the bucket held no original.                     *)
NoReader == [pc |-> "none", got |-> NoObjects, last |-> 0]

Running(r) == thread[r].pc \in {"list", "load", "build", "publish", "clear", "raw"}
Working == {r \in Request : thread[r].pc \notin {"none", "given up"}}
Added(t) == Range(t.adds)
Remaining(t) == (t.names \cup Added(t)) \ t.removes

(* The request wrote or cleared all the objects, whatever was there.       *)
FromNothing(t) == t.names = {} \/ Remaining(t) = {}

(* The order in which _load_published and load_workspace_payload fetch.    *)
LoadOrder == <<"manifest.json", "index.json", "vectors.npy", "documents.zip">>
ReadOrder == <<"documents.zip", "manifest.json", "index.json", "vectors.npy">>
NextGet(order, got) == order[Min({i \in DOMAIN order : got[order[i]] = Absent})]

(* _validate_prepared and the agent's _read_index: all objects present, as *)
(* many vectors as chunks, and every chunk's block in the archive.         *)
Valid(o) ==
    /\ \A k \in Key : o[k] # Absent
    /\ Len(o["vectors.npy"]) = Len(o["index.json"])
    /\ \A i \in DOMAIN o["index.json"] :
          o["index.json"][i].root \in DOMAIN o["documents.zip"]

(***************************************************************************)
(* What a thread builds from the objects it fetched                        *)
(***************************************************************************)

Without(archive, roots) == [d \in DOMAIN archive \ roots |-> archive[d]]

(* The rows of the index, in their order, that are not of these roots.     *)
KeptRows(o, roots) ==
    CHOOSE kept \in SetToSeqs({i \in DOMAIN o["index.json"] : o["index.json"][i].root \notin roots}) :
       \A i, j \in DOMAIN kept : i < j => kept[i] < kept[j]

RowsOf(seq, kept) == [j \in DOMAIN kept |-> seq[kept[j]]]

RootsOf(manifest, files) == {manifest[f] : f \in files \cap DOMAIN manifest}

(* Mutant of Pruned: the rows of the vectors are left as they were. *)
PrunedKeepsVectors(o, files) ==
    LET roots == RootsOf(o["manifest.json"], files)
        kept == KeptRows(o, roots)
    IN [o EXCEPT !["documents.zip"] = Without(@, roots),
                 !["index.json"] = RowsOf(@, kept),
                 !["manifest.json"] = Without(@, files)]

(* Mutant of Pruned: the directories stay in the archive. *)
PrunedKeepsArchive(o, files) ==
    LET roots == RootsOf(o["manifest.json"], files)
        kept == KeptRows(o, roots)
    IN [o EXCEPT !["index.json"] = RowsOf(@, kept),
                 !["vectors.npy"] = RowsOf(@, kept),
                 !["manifest.json"] = Without(@, files)]

(* remove_published_documents: cut the documents out, keep the rest.       *)
Pruned(o, files) ==
    LET roots == RootsOf(o["manifest.json"], files)
        kept == KeptRows(o, roots)
    IN [o EXCEPT !["documents.zip"] = Without(@, roots),
                 !["index.json"] = RowsOf(@, kept),
                 !["vectors.npy"] = RowsOf(@, kept),
                 !["manifest.json"] = Without(@, files)]

EmptyPublication ==
    [k \in Key |-> IF k \in {"index.json", "vectors.npy"} THEN <<>>
                   ELSE [d \in {} |-> 0]]

Highest(manifest) == Max({Number(manifest[f]) : f \in DOMAIN manifest} \cup {0})

(* Mutant of NewRoots: the numbers count from zero. *)
NewRootsFromZero(old, adds) ==
    [i \in DOMAIN adds |-> <<Highest(old["manifest.json"]) + i - 1, adds[i]>>]

(* Mutant of NewRoots: the number of a replaced document is used again. *)
NewRootsReused(old, adds) ==
    [i \in DOMAIN adds |->
       <<Highest(Without(old["manifest.json"], Range(adds))) + i, adds[i]>>]

(* publish_resources: the new documents get the numbers after the highest  *)
(* one in the manifest, in the order of the upload.                        *)
NewRoots(old, adds) ==
    [i \in DOMAIN adds |-> <<Highest(old["manifest.json"]) + i, adds[i]>>]

Extended(old, adds, version) ==
    LET kept == Pruned(old, Range(adds))
        roots == NewRoots(old, adds)
        rootOf(f) == CHOOSE d \in Range(roots) : FileOf(d) = f
        chunk(d) == [root |-> d, version |-> version]
        vector(d) == [file |-> FileOf(d), version |-> version]
    IN [k \in Key |->
          CASE k = "documents.zip" ->
                  [d \in DOMAIN kept[k] \cup Range(roots) |->
                     IF d \in Range(roots) THEN version ELSE kept[k][d]]
            [] k = "manifest.json" ->
                  [f \in DOMAIN kept[k] \cup Range(adds) |->
                     IF f \in Range(adds) THEN rootOf(f) ELSE kept[k][f]]
            [] k = "index.json" -> kept[k] \o [i \in DOMAIN roots |-> chunk(roots[i])]
            [] OTHER -> kept[k] \o [i \in DOMAIN roots |-> vector(roots[i])]]

(* entry.rename(document / root) fails on a directory that has files.      *)
Collides(old, adds) ==
    Range(NewRoots(old, adds)) \cap DOMAIN Pruned(old, Range(adds))["documents.zip"] # {}

(***************************************************************************)
(* The session manager                                                     *)
(***************************************************************************)

(* The queue waits for the answer of its command and for nothing else: a   *)
(* thread whose answer it no longer awaits may still be at work.           *)
Free == waiting = 0 /\ asked < MaxRequests

Start(r, adds, removes) ==
    /\ waiting' = r
    /\ asked' = r
    /\ thread' = [thread EXCEPT ![r] =
                    [NoThread EXCEPT !.pc = "list", !.adds = adds, !.removes = removes]]
    /\ overlapped' = (overlapped \/ Working # {})
    /\ UNCHANGED <<store, rows, reader, budget, torn>>

(* _handle_upload: the queue runs one command at a time; the quota counts  *)
(* a replaced file twice.                                                  *)
Upload ==
    /\ Free
    /\ \E files \in (SUBSET File) \ {{}} :
       \E adds \in SetToSeqs(files) :
          /\ Cardinality(rows.raw) + Len(adds) <= MaxFiles
          /\ Start(asked + 1, adds, {})

(* _handle_remove: one raw row of this session.                            *)
RemoveFile ==
    /\ Free
    /\ \E f \in rows.raw : Start(asked + 1, <<>>, {f})

(* The thread ends; of a request that failed one remembers what it asked.  *)
(* A session written from nothing is whole again.                          *)
Settle(r) ==
    /\ thread' = [thread EXCEPT ![r] =
        IF @.pc = "done" THEN NoThread
        ELSE [@ EXCEPT !.pc = "given up", !.names = {}, !.got = NoObjects, !.left = {}]]
    /\ torn' = (torn /\ ~(thread[r].pc = "done" /\ FromNothing(thread[r])))
    /\ UNCHANGED <<store, asked, reader, overlapped>>

(* The references arrive and _replace_resources stores them; its           *)
(* transaction may fail, and then the rows stay as they were.              *)
Replace(r) ==
    /\ waiting = r /\ thread[r].pc = "done"
    /\ waiting' = 0
    /\ \/ /\ rows' = [bundle |-> Remaining(thread[r]) # {}, raw |-> Remaining(thread[r])]
          /\ UNCHANGED budget
       \/ /\ faults < MaxFaults /\ faults' = faults + 1
          /\ UNCHANGED <<rows, timeouts, reads>>
    /\ Settle(r)

(* DocumentServiceError: the command fails and changes nothing.            *)
Refused(r) ==
    /\ waiting = r /\ thread[r].pc \in {"refused", "failed"}
    /\ waiting' = 0
    /\ Settle(r)
    /\ UNCHANGED <<rows, budget>>

(* The answer to a call that nobody waits for any more.                    *)
Discard(r) ==
    /\ waiting # r /\ thread[r].pc \in {"done", "refused", "failed"}
    /\ Settle(r)
    /\ UNCHANGED <<rows, waiting, budget>>

(* The call's deadline passes: the manager takes its next command, the     *)
(* thread of asyncio.to_thread goes on.                                    *)
TimeOut(r) ==
    /\ waiting = r /\ Running(r)
    /\ timeouts < MaxTimeouts /\ timeouts' = timeouts + 1
    /\ waiting' = 0
    /\ UNCHANGED <<store, rows, thread, asked, reader, faults, reads, torn, overlapped>>

(***************************************************************************)
(* The service's thread                                                    *)
(***************************************************************************)

Go(r, pc) == thread' = [thread EXCEPT ![r].pc = pc]

(* prepare_session_resources: list raw/, then parse the uploads, cut       *)
(* documents out, or clear the bucket when no original remains.            *)
List(r) ==
    LET t == [thread[r] EXCEPT !.names = DOMAIN raw]
        pc == IF t.adds # <<>> THEN IF t.names = {} THEN "build" ELSE "load"
              ELSE IF Remaining(t) = {} THEN "clear"
              ELSE IF t.names \cap t.removes # {} THEN "load" ELSE "done"
    IN /\ thread[r].pc = "list"
       /\ thread' = [thread EXCEPT ![r] =
            [t EXCEPT !.pc = pc, !.left = IF pc = "clear" THEN Key ELSE {}]]
       /\ UNCHANGED <<store, rows, waiting, asked, reader, budget, torn, overlapped>>

(* _load_published: one get per object; a missing one is a ValueError.     *)
Load(r) ==
    LET got == thread[r].got
        k == NextGet(LoadOrder, got)
    IN /\ thread[r].pc = "load"
       /\ thread' = [thread EXCEPT
            ![r].got = [got EXCEPT ![k] = objects[k]],
            ![r].pc = IF objects[k] = Absent THEN "refused"
                      ELSE IF k = "documents.zip" THEN "build" ELSE "load"]
       /\ UNCHANGED <<store, rows, waiting, asked, reader, budget, torn, overlapped>>

(* Everything up to the first put happens in a local directory.            *)
Build(r) ==
    LET t == thread[r]
        old == IF t.names = {} THEN EmptyPublication ELSE t.got
        refused == ~Valid(old) \/ (t.adds # <<>> /\ Collides(old, t.adds))
    IN /\ t.pc = "build"
       /\ thread' = [thread EXCEPT ![r] =
            IF refused THEN [t EXCEPT !.pc = "refused"]
            ELSE [t EXCEPT !.pc = "publish", !.left = Key,
                           !.got = IF t.adds = <<>> THEN Pruned(old, t.removes)
                                   ELSE Extended(old, t.adds, r)]]
       /\ UNCHANGED <<store, rows, waiting, asked, reader, budget, torn, overlapped>>

(* The puts and deletes still to come, in the order the code makes them:   *)
(* the archive first, index and manifest in the order of the directory     *)
(* walk, then the originals.                                               *)
NextPuts(t) ==
    IF "documents.zip" \in t.left THEN {"documents.zip"} ELSE t.left

NextClears(t) ==
    IF "documents.zip" \in t.left THEN {"documents.zip"}
    ELSE IF "manifest.json" \in t.left THEN {"manifest.json"}
    ELSE t.left

(* Mutant of AfterPublish: only additions have originals to see to. *)
AfterPublishAdded(t) == [t EXCEPT !.pc = "raw", !.left = Added(t)]
AfterPublish(t) == [t EXCEPT !.pc = "raw", !.left = Added(t) \cup (t.names \cap t.removes)]

Advance(t, item) ==
    LET rest == t.left \ {item}
    IN IF rest # {} THEN [t EXCEPT !.left = rest]
       ELSE IF t.pc = "raw" \/ AfterPublish(t).left = {} THEN [t EXCEPT !.pc = "done", !.left = {}]
       ELSE AfterPublish(t)

(* _publish_to_store                                                       *)
Put(r) ==
    /\ thread[r].pc = "publish"
    /\ \E k \in NextPuts(thread[r]) :
          /\ objects' = [objects EXCEPT ![k] = thread[r].got[k]]
          /\ thread' = [thread EXCEPT ![r] = Advance(@, k)]
    /\ UNCHANGED <<raw, rows, waiting, asked, reader, budget, torn, overlapped>>

(* _delete_published                                                       *)
Clear(r) ==
    /\ thread[r].pc = "clear"
    /\ \E k \in NextClears(thread[r]) :
          /\ objects' = [objects EXCEPT ![k] = Absent]
          /\ thread' = [thread EXCEPT ![r] = Advance(@, k)]
    /\ UNCHANGED <<raw, rows, waiting, asked, reader, budget, torn, overlapped>>

(* The originals: additions are put, then the removed ones are deleted.    *)
StoreRaw(r) ==
    LET t == thread[r] IN
    /\ t.pc = "raw"
    /\ \E f \in IF t.left \cap Added(t) # {} THEN t.left \cap Added(t) ELSE t.left :
          /\ raw' = IF f \in Added(t)
                    THEN [g \in DOMAIN raw \cup {f} |-> IF g = f THEN r ELSE raw[g]]
                    ELSE Without(raw, {f})
          /\ thread' = [thread EXCEPT ![r] = Advance(@, f)]
    /\ UNCHANGED <<objects, rows, waiting, asked, reader, budget, torn, overlapped>>

(* A store operation or the parsing and embedding of an upload fails, or   *)
(* the service dies: the thread ends where it is.                          *)
Fail(r) ==
    LET t == thread[r]
        began == t.pc = "raw" \/ (t.pc \in {"publish", "clear"} /\ t.left # Key)
    IN /\ Running(r)
       /\ faults < MaxFaults /\ faults' = faults + 1
       /\ Go(r, "failed")
       /\ torn' = (torn \/ began)
       /\ UNCHANGED <<store, rows, waiting, asked, reader, timeouts, reads, overlapped>>

(***************************************************************************)
(* The worker that prepares a turn's workspace                             *)
(***************************************************************************)

(* A turn starts with the references of the resource rows.  (Rows may be   *)
(* stale: of a bucket without originals they say nothing.)                 *)
BeginRead ==
    /\ rows.bundle /\ reader.pc # "load"
    /\ reads < MaxReads /\ reads' = reads + 1
    /\ reader' = [NoReader EXCEPT !.pc = "load",
                               !.last = IF DOMAIN raw = {} THEN 0
                                        ELSE IF Working = {} THEN asked + 1 ELSE asked]
    /\ UNCHANGED <<store, rows, thread, waiting, asked, faults, timeouts, torn, overlapped>>

(* load_workspace_payload: the archive, then _read_index's three objects   *)
(* and its checks.                                                         *)
Read ==
    LET k == NextGet(ReadOrder, reader.got)
        got == [reader.got EXCEPT ![k] = objects[k]]
    IN /\ reader.pc = "load"
       /\ reader' = IF objects[k] # Absent /\ k # "vectors.npy" THEN [reader EXCEPT !.got = got]
                    ELSE IF objects[k] # Absent /\ Valid(got)
                    THEN [reader EXCEPT !.pc = "workspace", !.got = got]
                    ELSE NoReader
       /\ UNCHANGED <<store, rows, thread, waiting, asked, budget, torn, overlapped>>

(* The store fails, or WORKER_TIMEOUT passes and the worker is killed: the *)
(* workspace is refused as a whole.                                        *)
ReadFails ==
    /\ reader.pc = "load"
    /\ reader' = NoReader
    /\ UNCHANGED <<store, rows, thread, waiting, asked, budget, torn, overlapped>>

(***************************************************************************)
(* Specification                                                           *)
(***************************************************************************)

Init ==
    /\ objects = NoObjects
    /\ raw = [f \in {} |-> 0]
    /\ rows = NoRows
    /\ thread = [r \in Request |-> NoThread]
    /\ waiting = 0 /\ asked = 0
    /\ reader = NoReader
    /\ faults = 0 /\ timeouts = 0 /\ reads = 0
    /\ torn = FALSE /\ overlapped = FALSE

Next ==
    \/ Upload
    \/ RemoveFile
    \/ \E r \in Request :
          \/ Replace(r) \/ Refused(r) \/ Discard(r) \/ TimeOut(r)
          \/ List(r) \/ Load(r) \/ Build(r)
          \/ Put(r) \/ Clear(r) \/ StoreRaw(r)
          \/ Fail(r)
    \/ BeginRead
    \/ Read
    \/ ReadFails

Spec == Init /\ [][Next]_vars

(***************************************************************************)
(* Properties                                                              *)
(***************************************************************************)

ArchiveOK(a) == a = Absent \/ (DOMAIN a \subseteq Roots /\ Range(a) \subseteq Version)

(* The types of the variables; in particular what a get may return, and    *)
(* that the manager waits only for the request it made last.               *)
TypeOK ==
    /\ DOMAIN objects = Key
    /\ \A o \in {objects, reader.got} \cup {thread[r].got : r \in Request} :
          /\ ArchiveOK(o["documents.zip"])
          /\ o["manifest.json"] = Absent
             \/ (DOMAIN o["manifest.json"] \subseteq File /\ Range(o["manifest.json"]) \subseteq Roots)
          /\ o["index.json"] = Absent
             \/ Range(o["index.json"]) \subseteq Chunk
          /\ o["vectors.npy"] = Absent
             \/ Range(o["vectors.npy"]) \subseteq Vector
    /\ DOMAIN raw \subseteq File /\ Range(raw) \subseteq Version
    /\ rows \in [bundle : BOOLEAN, raw : SUBSET File]
    /\ asked \in 0 .. MaxRequests /\ waiting \in {0, asked}
    /\ \A r \in Request : r > asked => thread[r] = NoThread
    /\ torn \in BOOLEAN /\ overlapped \in BOOLEAN

(* The index speaks of the text that the archive has, in its version.      *)
Cites(o) ==
    \A i \in DOMAIN o["index.json"] :
       LET chunk == o["index.json"][i]
       IN o["documents.zip"][chunk.root] = chunk.version

(* ... and the vectors are those of the chunks in the same rows.           *)
Aligned(o) ==
    /\ Cites(o)
    /\ \A i \in DOMAIN o["index.json"] :
          LET chunk == o["index.json"][i]
          IN o["vectors.npy"][i] = [file |-> FileOf(chunk.root), version |-> chunk.version]

Quiet == \A r \in Request : ~Running(r)

(* The queue's commands are serial, and the document service relies on it; *)
(* its threads are not serial once the manager has stopped waiting for     *)
(* one of them and made its next request.  What follows is promised of a   *)
(* bucket to which that has not happened (StoredRowsAreFull says what it costs).   *)
Serial == ~overlapped

(* A bucket at rest whose publications were never cut short is one         *)
(* publication: archive, manifest, index, vectors and originals speak of   *)
(* the same documents in the same versions.                                *)
SettledBucketIsOnePublication ==
    Serial /\ Quiet /\ ~torn =>
       \/ raw = [f \in {} |-> 0] /\ objects = NoObjects
       \/ /\ Valid(objects) /\ Aligned(objects)
          /\ DOMAIN objects["manifest.json"] = DOMAIN raw
          /\ Range(objects["manifest.json"]) = DOMAIN objects["documents.zip"]
          /\ {objects["index.json"][i].root : i \in DOMAIN objects["index.json"]}
                = DOMAIN objects["documents.zip"]
          /\ \A f \in DOMAIN raw :
                objects["documents.zip"][objects["manifest.json"][f]] = raw[f]

(* What a publication that was cut short leaves behind, and a later upload *)
(* loads or a turn reads: if it passes the checks (as many vectors as      *)
(* chunks, the blocks present), the index is that of the archive.  The     *)
(* same of a workspace that a turn was given: read object by object while  *)
(* a request is worked on, it cites no text that it does not have.         *)
(* (Directories' numbers start again in a bucket without originals: a      *)
(* worker that is overtaken by the removal of the last file and another    *)
(* upload may mix them, and one that is sent there by stale rows may mix   *)
(* two uploads of which the first was cut short.)                          *)
IndexCitesItsArchive ==
    Serial =>
       /\ Quiet /\ DOMAIN raw # {} /\ Valid(objects) => Cites(objects)
       /\ reader.pc = "workspace" /\ asked <= reader.last => Cites(reader.got)

(* What the document service's design says of every answer: the references *)
(* that the manager stores are those of all the originals that the bucket  *)
(* holds.  It is not so when a request ran beside one that the manager had *)
(* stopped waiting for: its answer misses the file that the other thread   *)
(* stored after it had listed the originals.                               *)
StoredRowsAreFull ==
    [][rows' # rows => rows'.raw = DOMAIN raw /\ rows'.bundle = (DOMAIN raw # {})]_vars

(* A request is refused without a fault of its own only after a            *)
(* publication was cut short.                                              *)
RefusalsHaveCause ==
    Serial => \A r \in Request : thread[r].pc = "refused" => torn

(* A request that failed may be made again: the same request succeeds,     *)
(* unless it meets a fault itself.                                         *)
RetriesSucceed ==
    Serial => \A r \in Request \ {1} :
       ~(/\ thread[r].pc = "refused" /\ thread[r - 1].pc = "given up"
         /\ thread[r].adds = thread[r - 1].adds
         /\ thread[r].removes = thread[r - 1].removes)

(* The service's promise in terms of files alone.                          *)
Current == Max(Working \cup {0})
CurrentThread == IF Working = {} THEN NoThread ELSE thread[Current]

Library == INSTANCE DocumentLibrary WITH
    shown <- [f \in File |->
                IF objects["documents.zip"] = Absent THEN {}
                ELSE {objects["documents.zip"][d] :
                        d \in {e \in DOMAIN objects["documents.zip"] : FileOf(e) = f}}],
    held <- [f \in File |-> IF f \in DOMAIN raw THEN {raw[f]} ELSE {}],
    request <- [adds |-> Added(CurrentThread), removes |-> CurrentThread.removes,
                version |-> Current],
    damaged <- torn,
    trusted <- Serial

(* Archive and originals change as the abstract library does, whatever     *)
(* fails or comes too late, as long as no request ran beside another.      *)
ImplementsLibrary == Library!LibrarySpec
=============================================================================
