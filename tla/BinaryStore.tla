---------------------------- MODULE BinaryStore ----------------------------
(***************************************************************************)
(* Images a phone uploads for its prompts and HTML exports it downloads:   *)
(* the upload request with its quota check before the body and its storage *)
(* after it, the attachment rows and their blobs, prompts that read the    *)
(* images long after they were accepted, the expiry sweep, and the export  *)
(* registry with its file.  Code: packages/bridge/src/core/binary-http.ts, *)
(* core/attachments.ts, auth/rate-quota.ts, pi/export-registry.ts and the  *)
(* parts of pi/one-session-adapter.ts and daemon.ts that call them.        *)
(*                                                                         *)
(* The bridge is single threaded: a step ends where the code awaits or     *)
(* where its death leaves two writes apart.  abort() and complete() of the *)
(* attachment store and delete() of the registry have no caller.  Sizes    *)
(* and times are in units; only their order matters.                       *)
(***************************************************************************)
EXTENDS Naturals, Sequences, FiniteSets, SequencesExt

CONSTANTS
  Upload,          \* client upload ids of one installation
  Content,         \* images, distinguished by their digest
  Size,            \* the bytes of each image
  Request,         \* upload requests that may be open at the same time
  Prompt,          \* prompt.submit commands with one image each
  None,            \* no image, no upload
  MaxImage,        \* MAX_IMAGE_BYTES, 10 MiB
  ChunkMax,        \* chunkMaxBytes, 8 MiB
  Quota,           \* retainedBytesPerInstallation
  PerMinute,       \* uploadsPerMinute
  UploadTtl,       \* ttlMs and completedTtlMs, 24 h
  RetainTtl,       \* how long an accepted prompt keeps its images, 7 days
  ExportTtl,       \* ttlMs of an export, 24 h
  MaxExports,      \* capacity of the export registry
  MaxMade,         \* bound: exports requested
  MaxClock,        \* bound: time
  MaxCrashes       \* bound: deaths of the bridge

ASSUME BinaryAssumption ==
  /\ Size \in [Content -> 1..MaxImage]
  /\ None \notin Content \cup Upload
  /\ IsFiniteSet(Upload) /\ IsFiniteSet(Request) /\ Request # {}
  /\ {MaxImage, ChunkMax, Quota, PerMinute, UploadTtl, RetainTtl} \subseteq Nat
  /\ {ExportTtl, MaxExports, MaxMade, MaxClock, MaxCrashes} \subseteq Nat
  /\ UploadTtl > 0 /\ RetainTtl >= UploadTtl

VARIABLES
  rows,      \* table attachments
  blobs,     \* the image stored on disk for each upload
  open,      \* upload requests whose body is being read
  recent,    \* requests of the last minute
  prompts,   \* the prompts and the images they were accepted with
  exports,   \* the registry and its file, oldest first
  running,   \* exports Pi is writing
  made,      \* exports requested so far
  clock,
  up,        \* the bridge is running
  crashes

uploads == <<rows, blobs, open, recent>>
files   == <<exports, running, made>>
vars    == <<uploads, prompts, files, clock, up, crashes>>

NoRow == [state |-> "none", content |-> None, expires |-> 0]

Init ==
  /\ rows = [u \in Upload |-> NoRow]
  /\ blobs = [u \in Upload |-> None]
  /\ open = [q \in Request |-> <<>>]
  /\ recent = 0
  /\ prompts = [p \in Prompt |-> [state |-> "none", image |-> None, until |-> 0]]
  /\ exports = <<>> /\ running = {} /\ made = 0
  /\ clock = 0 /\ up = TRUE /\ crashes = 0

-----------------------------------------------------------------------------
(* Uploads. *)

\* The sum of the values of a function.
SumOver(w) ==
  LET order == SetToSeq(DOMAIN w)
      total[k \in 0..Len(order)] == IF k = 0 THEN 0 ELSE total[k - 1] + w[order[k]]
  IN  total[Len(order)]

\* Bytes of the rows that are open or complete; an open row has received none.
receivedBytes ==
  [u \in Upload |-> IF rows[u].state = "complete" THEN Size[rows[u].content] ELSE 0]
retainedBytes == SumOver(receivedBytes)

\* Mutant: the quota is asked for what is stored already.
canUploadOnce(seen) == seen <= PerMinute /\ retainedBytes <= Quota

\* The quota is asked for the largest image, before the body is read.
canUpload(seen) == seen <= PerMinute /\ retainedBytes + MaxImage <= Quota

\* A request with a valid credential; one that is refused counts in the window.
RequestUpload(q, u, c) ==
  /\ up /\ open[q] = <<>> /\ recent <= PerMinute
  /\ recent' = recent + 1
  /\ open' = IF canUpload(recent') THEN [open EXCEPT ![q] = <<u, c>>] ELSE open
  /\ UNCHANGED <<rows, blobs, prompts, files, clock, up, crashes>>

WindowPasses ==
  /\ recent > 0
  /\ recent' = recent - 1
  /\ UNCHANGED <<rows, blobs, open, prompts, files, clock, up, crashes>>

\* The body is cut off, malformed, not an image, or for another installation.
BodyFails(q) ==
  /\ up /\ open[q] # <<>>
  /\ open' = [open EXCEPT ![q] = <<>>]
  /\ UNCHANGED <<rows, blobs, recent, prompts, files, clock, up, crashes>>

\* Idempotent on the upload id: an existing row is kept, whatever its state.
begin(u, c) ==
  IF rows[u].state = "none"
  THEN [rows EXCEPT ![u] = [state |-> "open", content |-> c, expires |-> clock + UploadTtl]]
  ELSE rows

\* Retry identity is the upload id and the digest.
detectBeginMismatch(u, c) == rows[u].state # "none" /\ rows[u].content # c

\* The one chunk of the image is written, then the row is completed.
chunkFits(u, c) ==
  /\ begin(u, c)[u].state = "open"
  /\ begin(u, c)[u].expires > clock
  /\ Size[c] <= ChunkMax

appendChunk(u, c) ==
  /\ blobs' = [blobs EXCEPT ![u] = c]
  /\ rows' = [begin(u, c) EXCEPT ![u] = [state |-> "complete", content |-> c,
                                         expires |-> clock + UploadTtl]]

\* The body has arrived: begin, then appendChunk unless the row is complete.
StoreUpload(q) ==
  /\ up /\ open[q] # <<>>
  /\ LET u == open[q][1]
         c == open[q][2]
     IN  \/ /\ detectBeginMismatch(u, c) \/ rows[u].state = "complete"
            /\ UNCHANGED <<rows, blobs>>
         \/ /\ ~detectBeginMismatch(u, c) /\ chunkFits(u, c)
            /\ appendChunk(u, c)
         \/ /\ ~detectBeginMismatch(u, c) /\ rows[u].state # "complete" /\ ~chunkFits(u, c)
            /\ rows' = begin(u, c)
            /\ UNCHANGED blobs
  /\ open' = [open EXCEPT ![q] = <<>>]
  /\ UNCHANGED <<recent, prompts, files, clock, up, crashes>>

-----------------------------------------------------------------------------
(* Prompts with images. *)

available(u) == rows[u].state = "complete" /\ rows[u].expires > clock

Smaller(a, b) == IF a <= b THEN a ELSE b
Larger(a, b) == IF a <= b THEN b ELSE a

\* Mutant: an accepted prompt keeps its image like any other upload.
retainForADay(u, until) ==
  [rows EXCEPT ![u].expires = Larger(@, clock + UploadTtl)]

\* Extends a complete row, never past seven days from now.
retain(u, until) ==
  [rows EXCEPT ![u].expires = Smaller(Larger(@, until), clock + RetainTtl)]

\* validateCommand, the durable submission and commandAccepted.
AcceptPrompt(p, u) ==
  /\ up /\ prompts[p].state = "none" /\ available(u)
  /\ prompts' = [prompts EXCEPT ![p] = [state |-> "accepted", image |-> u,
                                        until |-> clock + RetainTtl]]
  /\ rows' = retain(u, clock + RetainTtl)
  /\ UNCHANGED <<blobs, open, recent, files, clock, up, crashes>>

\* handlePromptSubmit resolves the image and opens its stream.
DispatchPrompt(p) ==
  /\ up /\ prompts[p].state = "accepted"
  /\ prompts' = [prompts EXCEPT ![p].state =
                   IF available(prompts[p].image) THEN "reading" ELSE "failed"]
  /\ UNCHANGED <<uploads, files, clock, up, crashes>>

\* The chunks are read behind an await; then the row is retained for a day.
ReadImage(p) ==
  /\ up /\ prompts[p].state = "reading"
  /\ LET u == prompts[p].image
     IN  \/ /\ blobs[u] # None /\ rows[u].state = "complete"
            /\ rows' = retain(u, clock + UploadTtl)
            /\ prompts' = [prompts EXCEPT ![p].state = "sent"]
         \/ /\ blobs[u] = None \/ rows[u].state # "complete"
            /\ prompts' = [prompts EXCEPT ![p].state = "failed"]
            /\ UNCHANGED rows
  /\ UNCHANGED <<blobs, open, recent, files, clock, up, crashes>>

-----------------------------------------------------------------------------
(* The sweep: rows in a transaction, then their directories. *)

Due == {u \in Upload : rows[u].state \in {"open", "complete"} /\ rows[u].expires <= clock}

markExpired(D) ==
  [u \in Upload |-> IF u \in D THEN [rows[u] EXCEPT !.state = "expired"] ELSE rows[u]]

removeBlobs(D) == [u \in Upload |-> IF u \in D THEN None ELSE blobs[u]]

sweep ==
  /\ rows' = markExpired(Due)
  /\ blobs' = removeBlobs(Due)

Sweep ==
  /\ up /\ Due # {}
  /\ sweep
  /\ UNCHANGED <<open, recent, prompts, files, clock, up, crashes>>

-----------------------------------------------------------------------------
(* Exports. *)

\* Expired records are marked and kept.
sweepExpired ==
  [k \in 1..Len(exports) |-> IF exports[k].expires <= clock
                             THEN [exports[k] EXCEPT !.status = "expired"] ELSE exports[k]]

liveCount(list) == Cardinality({k \in 1..Len(list) : list[k].status = "available"})

\* handleExport: sweep, reserve, and ask Pi to write the file.
StartExport ==
  /\ up
  /\ LET swept == sweepExpired
     IN  \/ /\ liveCount(swept) < MaxExports /\ made < MaxMade
            /\ exports' = Append(swept, [id |-> made + 1, status |-> "available",
                                         expires |-> clock + ExportTtl, done |-> "pending"])
            /\ running' = running \cup {made + 1}
            /\ made' = made + 1
         \/ /\ liveCount(swept) >= MaxExports
            /\ exports' = swept
            /\ UNCHANGED <<running, made>>
  /\ UNCHANGED <<uploads, prompts, clock, up, crashes>>

Settled(e, outcome) ==
  [k \in 1..Len(exports) |-> IF exports[k].id = e
                             THEN [exports[k] EXCEPT !.done = outcome] ELSE exports[k]]

\* Pi has answered: the record is completed and announced, or failed.
FinishExport(e) ==
  /\ up /\ e \in running
  /\ running' = running \ {e}
  /\ \E outcome \in {"completed", "failed"} : exports' = Settled(e, outcome)
  /\ UNCHANGED <<made, uploads, prompts, clock, up, crashes>>

\* The file of a completed record, until it expires.
getExport(e) ==
  \E k \in 1..Len(exports) : /\ exports[k].id = e
                             /\ exports[k].expires > clock
                             /\ exports[k].done = "completed"

\* A download that finds the record expired marks it, without announcing it.
DownloadExport(e) ==
  /\ up /\ e \in {exports[k].id : k \in 1..Len(exports)}
  /\ exports' = [k \in 1..Len(exports) |->
                   IF exports[k].id = e THEN sweepExpired[k] ELSE exports[k]]
  /\ UNCHANGED <<uploads, prompts, running, made, clock, up, crashes>>

-----------------------------------------------------------------------------
(* Time and the bridge's own death. *)

Tick ==
  /\ clock < MaxClock
  /\ clock' = clock + 1
  /\ UNCHANGED <<uploads, prompts, files, up, crashes>>

\* What a death leaves on disk: whatever the code had written by then.
Dies ==
  /\ up /\ crashes < MaxCrashes
  /\ up' = FALSE /\ crashes' = crashes + 1
  /\ open' = [q \in Request |-> <<>>]
  /\ recent' = 0 /\ running' = {}
  /\ UNCHANGED <<exports, made, clock>>

Interrupted ==
  [p \in Prompt |-> IF prompts[p].state = "reading"
                    THEN [prompts[p] EXCEPT !.state = "unknown"] ELSE prompts[p]]

Crash == Dies /\ prompts' = Interrupted /\ UNCHANGED <<rows, blobs>>

\* Between begin and appendChunk, or between the chunk's file and its row.
CrashStoring(q) ==
  /\ Dies /\ open[q] # <<>>
  /\ LET u == open[q][1]
         c == open[q][2]
     IN  /\ rows[u].state = "none"
         /\ rows' = begin(u, c)
         /\ blobs' \in {blobs, [blobs EXCEPT ![u] = c]}
  /\ prompts' = Interrupted

\* After the submission and before the image is retained.
CrashAccepting(p, u) ==
  /\ Dies /\ prompts[p].state = "none" /\ available(u)
  /\ prompts' = [Interrupted EXCEPT ![p] = [state |-> "accepted", image |-> u, until |-> 0]]
  /\ UNCHANGED <<rows, blobs>>

\* Mutant: the sweep removes the directories before it marks the rows.
sweepCutFilesFirst == blobs' = removeBlobs(Due) /\ UNCHANGED rows

\* After the sweep's transaction and before its directories are removed.
sweepCut == rows' = markExpired(Due) /\ UNCHANGED blobs

CrashSweeping == Dies /\ Due # {} /\ sweepCut /\ prompts' = Interrupted

\* Mutant: the first record is skipped.
loadTail == IF exports = <<>> THEN exports ELSE SubSeq(exports, 2, Len(exports))

\* load() reads the first maxExports records of the file.
load == SubSeq(exports, 1, Smaller(MaxExports, Len(exports)))

Restart ==
  /\ ~up /\ up' = TRUE
  /\ sweep
  /\ exports' = load
  /\ UNCHANGED <<open, recent, prompts, running, made, clock, crashes>>

Next ==
  \/ \E q \in Request, u \in Upload, c \in Content : RequestUpload(q, u, c)
  \/ \E q \in Request : BodyFails(q) \/ StoreUpload(q) \/ CrashStoring(q)
  \/ \E p \in Prompt, u \in Upload : AcceptPrompt(p, u) \/ CrashAccepting(p, u)
  \/ \E p \in Prompt : DispatchPrompt(p) \/ ReadImage(p)
  \/ StartExport
  \/ \E e \in 1..MaxMade : FinishExport(e) \/ DownloadExport(e)
  \/ WindowPasses \/ Sweep \/ Tick \/ Crash \/ CrashSweeping \/ Restart

Spec == Init /\ [][Next]_vars

-----------------------------------------------------------------------------
(* Properties. *)

\* A row that says complete has its image on disk, whichever write the bridge
\* died after (attachments.ts: the part is written before the row commits, the
\* rows are marked expired before their directories go).
CompleteHasBytes ==
  \A u \in Upload : rows[u].state = "complete" => blobs[u] = rows[u].content

\* A prompt whose images were retained at acceptance finds them when it is
\* dispatched, unless it waited longer than the seven days they are kept for:
\* neither the sweep nor a restart takes them from a queued prompt.
AcceptedPromptKeepsImage ==
  \A p \in Prompt : prompts[p].state = "failed" => clock >= prompts[p].until

\* The quota is read before the body and never again, so requests open at the
\* same time exceed it together; what is stored and what is on its way never
\* exceed it by more than the other requests' bodies.
QuotaOvershootBounded ==
  retainedBytes + Cardinality({q \in Request : open[q] # <<>>}) * MaxImage
    <= Quota + (Cardinality(Request) - 1) * MaxImage

\* An export that can be downloaded stops being so when it expires, or when a
\* restart finds more records in the registry's file than it reads, of which
\* the oldest may long have expired (export-registry.ts load): neither other
\* exports nor downloads, failures or sweeps take it away.
ExportStaysServed ==
  [][\A e \in 1..made : getExport(e) =>
        getExport(e)' \/ clock' > clock \/ Len(exports) > MaxExports]_vars
=============================================================================
