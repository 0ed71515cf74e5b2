------------------------- MODULE BinaryStoreProofs -------------------------
(***************************************************************************)
(* Theorems about BinaryStore, for every set of uploads, images, requests  *)
(* and prompts, every limit and every time to live: what a row promises is *)
(* on disk, an accepted prompt keeps its image, and a finished export is   *)
(* served until it expires or the registry's file is too long.             *)
(***************************************************************************)
EXTENDS BinaryStore, InductionLemmas, TLAPS

Row == [state : {"none", "open", "complete", "expired"},
        content : Content \cup {None}, expires : Nat]

PromptRow == [state : {"none", "accepted", "reading", "sent", "failed", "unknown"},
              image : Upload \cup {None}, until : Nat]

\* Types of what the argument speaks of.
StoreOK ==
  /\ rows \in [Upload -> Row]
  /\ \A u \in Upload : rows[u].state # "none" => rows[u].content \in Content
  /\ blobs \in [Upload -> Content \cup {None}]
  /\ open \in [Request -> {<<>>} \cup (Upload \X Content)]
  /\ prompts \in [Prompt -> PromptRow]
  /\ clock \in Nat

-----------------------------------------------------------------------------
(* What the operations on rows return.                                     *)

\* An upload lives no longer than what a prompt retains.
LEMMA Times == UploadTtl \in Nat /\ RetainTtl \in Nat /\ UploadTtl <= RetainTtl
BY BinaryAssumption

\* begin() touches a row only if there is none.
LEMMA BeginType ==
  ASSUME StoreOK, NEW u \in Upload, NEW c \in Content
  PROVE  /\ begin(u, c) \in [Upload -> Row]
         /\ \A v \in Upload : begin(u, c)[v].state # "none" => begin(u, c)[v].content \in Content
         /\ \A v \in Upload : rows[v].state # "none" => begin(u, c)[v] = rows[v]
         /\ \A v \in Upload : begin(u, c)[v].state = "complete" => begin(u, c)[v] = rows[v]
<1>1. CASE rows[u].state # "none"
  BY <1>1 DEF begin, StoreOK, Row
<1>2. CASE rows[u].state = "none"
  <2> DEFINE new == [state |-> "open", content |-> c, expires |-> clock + UploadTtl]
  <2>1. new \in Row /\ new.content = c /\ new.state = "open"
    BY Times DEF StoreOK, Row
  <2>2. begin(u, c) = [rows EXCEPT ![u] = new]
    BY <1>2 DEF begin
  <2> HIDE DEF new
  <2> QED BY <1>2, <2>1, <2>2 DEF StoreOK
<1> QED BY <1>1, <1>2

\* appendChunk() completes the row of the bytes it has written.
LEMMA AppendType ==
  ASSUME StoreOK, NEW u \in Upload, NEW c \in Content, appendChunk(u, c)
  PROVE  /\ rows' \in [Upload -> Row]
         /\ blobs' \in [Upload -> Content \cup {None}]
         /\ rows'[u].state = "complete" /\ rows'[u].content = c /\ blobs'[u] = c
         /\ \A v \in Upload : v # u => rows'[v] = begin(u, c)[v] /\ blobs'[v] = blobs[v]
<1> DEFINE new == [state |-> "complete", content |-> c, expires |-> clock + UploadTtl]
<1>1. new \in Row /\ new.content = c /\ new.state = "complete"
  BY Times DEF StoreOK, Row
<1>2. rows' = [begin(u, c) EXCEPT ![u] = new] /\ blobs' = [blobs EXCEPT ![u] = c]
  BY DEF appendChunk
<1> HIDE DEF new
<1> QED BY <1>1, <1>2, BeginType DEF StoreOK

\* retain() changes nothing but a time, which it never brings closer than the
\* seven days.
LEMMA RetainType ==
  ASSUME StoreOK, NEW u \in Upload, NEW until \in Nat
  PROVE  /\ retain(u, until) \in [Upload -> Row]
         /\ \A v \in Upload : v # u => retain(u, until)[v] = rows[v]
         /\ retain(u, until)[u].state = rows[u].state
         /\ retain(u, until)[u].content = rows[u].content
         /\ retain(u, until)[u].expires = Smaller(Larger(rows[u].expires, until), clock + RetainTtl)
<1> DEFINE t == Smaller(Larger(rows[u].expires, until), clock + RetainTtl)
           new == [rows[u] EXCEPT !.expires = t]
<1>1. rows[u] \in Row
  BY DEF StoreOK
<1>2. t \in Nat
  BY <1>1, Times DEF StoreOK, Row, Smaller, Larger
<1> HIDE DEF t
<1>3. new \in Row /\ new.state = rows[u].state /\ new.content = rows[u].content /\ new.expires = t
  BY <1>1, <1>2 DEF Row
<1>4. retain(u, until) = [rows EXCEPT ![u] = new]
  BY DEF retain, t
<1> HIDE DEF new
<1>5. /\ retain(u, until) \in [Upload -> Row]
      /\ \A v \in Upload : v # u => retain(u, until)[v] = rows[v]
      /\ retain(u, until)[u] = new
  BY <1>3, <1>4 DEF StoreOK
<1> QED BY <1>3, <1>5 DEF t

\* The sweep's transaction and its removal of directories.
LEMMA SweepType ==
  ASSUME StoreOK
  PROVE  /\ markExpired(Due) \in [Upload -> Row]
         /\ \A u \in Upload : markExpired(Due)[u].content = rows[u].content
         /\ \A u \in Upload : markExpired(Due)[u].state = "none" => rows[u].state = "none"
         /\ \A u \in Upload : u \notin Due => markExpired(Due)[u] = rows[u] /\ removeBlobs(Due)[u] = blobs[u]
         /\ \A u \in Due : markExpired(Due)[u].state = "expired"
         /\ removeBlobs(Due) \in [Upload -> Content \cup {None}]
<1>1. ASSUME NEW u \in Upload
      PROVE  LET new == [rows[u] EXCEPT !.state = "expired"]
             IN  new \in Row /\ new.content = rows[u].content /\ new.state = "expired"
  <2>1. rows[u] \in Row
    BY DEF StoreOK
  <2> QED BY <2>1 DEF Row
<1>2. Due \subseteq Upload
  BY DEF Due
<1> QED BY <1>1, <1>2 DEF markExpired, removeBlobs, StoreOK

-----------------------------------------------------------------------------
(* Types and bytes.                                                        *)

\* A death keeps the types of the prompts it interrupts.
LEMMA InterruptedType ==
  ASSUME StoreOK
  PROVE  /\ Interrupted \in [Prompt -> PromptRow]
         /\ \A p \in Prompt : Interrupted[p].state \in {"accepted", "reading", "failed"} =>
                                Interrupted[p] = prompts[p]
<1>1. ASSUME NEW p \in Prompt
      PROVE  LET new == [prompts[p] EXCEPT !.state = "unknown"]
             IN  new \in PromptRow /\ new.state = "unknown"
  <2>1. prompts[p] \in PromptRow
    BY DEF StoreOK
  <2> QED BY <2>1 DEF PromptRow
<1> QED BY <1>1 DEF Interrupted, StoreOK

\* The rows and blobs of one step: which row a store, a retention or a sweep
\* touches, and how.
StoreStep ==
  /\ rows' \in [Upload -> Row]
  /\ \A u \in Upload : rows'[u].state # "none" => rows'[u].content \in Content
  /\ blobs' \in [Upload -> Content \cup {None}]
  /\ \A u \in Upload :
       \/ rows'[u].state # "complete"
       \/ blobs'[u] = rows'[u].content
       \/ /\ rows[u].state = "complete"
          /\ rows'[u].content = rows[u].content
          /\ blobs'[u] = blobs[u]
  /\ \A u \in Upload : rows[u].state = "complete" =>
       \/ rows[u].expires <= clock
       \/ /\ rows'[u].state = "complete"
          /\ rows'[u].expires >= Smaller(rows[u].expires, clock + RetainTtl)

\* A time is not brought closer when it is left alone.
LEMMA NotCloser ==
  ASSUME StoreOK, NEW u \in Upload
  PROVE  rows[u].expires >= Smaller(rows[u].expires, clock + RetainTtl)
<1>1. rows[u].expires \in Nat
  BY DEF StoreOK, Row
<1> QED BY <1>1, Times DEF StoreOK, Smaller

\* A step that leaves the rows alone.
LEMMA UnchangedStore ==
  ASSUME StoreOK, UNCHANGED <<rows, blobs>>
  PROVE  StoreStep
BY NotCloser DEF StoreOK, StoreStep

\* A row that is not complete is begun, and its bytes written or not.
LEMMA StoredStep ==
  ASSUME StoreOK, NEW u \in Upload, NEW c \in Content, rows[u].state # "complete",
         \/ appendChunk(u, c)
         \/ rows' = begin(u, c) /\ blobs' = blobs
         \/ rows' = begin(u, c) /\ blobs' = [blobs EXCEPT ![u] = c]
  PROVE  StoreStep
<1>1. /\ rows' \in [Upload -> Row] /\ blobs' \in [Upload -> Content \cup {None}]
      /\ \A v \in Upload : rows'[v].state # "none" => rows'[v].content \in Content
      /\ \A v \in Upload : v # u => rows'[v] = begin(u, c)[v] /\ blobs'[v] = blobs[v]
      /\ rows'[u].state = "complete" => blobs'[u] = rows'[u].content
  <2>1. CASE appendChunk(u, c)
    BY <2>1, BeginType, AppendType
  <2>2. CASE rows' = begin(u, c) /\ blobs' = blobs
    <3>1. rows'[u].state # "complete"
      BY <2>2, BeginType
    <3> QED BY <2>2, <3>1, BeginType DEF StoreOK
  <2>3. CASE rows' = begin(u, c) /\ blobs' = [blobs EXCEPT ![u] = c]
    <3>1. rows'[u].state # "complete"
      BY <2>3, BeginType
    <3>2. /\ blobs' \in [Upload -> Content \cup {None}]
          /\ \A v \in Upload : v # u => blobs'[v] = blobs[v]
      BY <2>3 DEF StoreOK
    <3> QED BY <2>3, <3>1, <3>2, BeginType
  <2> QED BY <2>1, <2>2, <2>3
<1>2. ASSUME NEW v \in Upload, rows[v].state = "complete"
      PROVE  rows'[v] = rows[v] /\ blobs'[v] = blobs[v]
  <2>1. v # u
    BY <1>2
  <2> QED BY <1>1, <1>2, <2>1, BeginType
<1>3. ASSUME NEW v \in Upload, rows'[v].state = "complete", v # u
      PROVE  rows'[v] = rows[v] /\ blobs'[v] = blobs[v]
  BY <1>1, <1>3, BeginType
<1> QED BY <1>1, <1>2, <1>3, NotCloser DEF StoreStep

\* Retaining keeps rows well formed.
LEMMA RetainStep ==
  ASSUME StoreOK, NEW u \in Upload, NEW until \in Nat,
         rows' = retain(u, until), blobs' = blobs
  PROVE  StoreStep
<1>1. ASSUME NEW v \in Upload
      PROVE  /\ rows'[v].state = rows[v].state /\ rows'[v].content = rows[v].content
             /\ rows'[v].expires >= Smaller(rows[v].expires, clock + RetainTtl)
  <2>1. CASE v = u
    <3>1. rows[u].expires \in Nat /\ clock + RetainTtl \in Nat
      BY Times DEF StoreOK, Row
    <3>2. Smaller(Larger(rows[u].expires, until), clock + RetainTtl)
            >= Smaller(rows[u].expires, clock + RetainTtl)
      BY <3>1 DEF Smaller, Larger
    <3> QED BY <2>1, <3>2, RetainType
  <2>2. CASE v # u
    <3>1. rows'[v] = rows[v]
      BY <2>2, RetainType
    <3> QED BY <3>1, NotCloser
  <2> QED BY <2>1, <2>2
<1>2. rows' \in [Upload -> Row]
  BY RetainType
<1> QED BY <1>1, <1>2 DEF StoreStep, StoreOK

\* So does the sweeper.
LEMMA SweepStep ==
  ASSUME StoreOK, rows' = markExpired(Due),
         blobs' = removeBlobs(Due) \/ blobs' = blobs
  PROVE  StoreStep
<1>1. ASSUME NEW u \in Upload, u \notin Due
      PROVE  rows'[u] = rows[u] /\ blobs'[u] = blobs[u]
  BY <1>1, SweepType
<1>2. ASSUME NEW u \in Due
      PROVE  rows'[u].state # "complete" /\ rows[u].expires <= clock
  BY SweepType DEF Due
<1>3. rows' \in [Upload -> Row]
  BY SweepType
<1>4. blobs' \in [Upload -> Content \cup {None}]
  BY SweepType DEF StoreOK
<1>5. ASSUME NEW u \in Upload, rows'[u].state # "none"
      PROVE  rows'[u].content \in Content
  <2>1. rows[u].state # "none" /\ rows'[u].content = rows[u].content
    <3>1. CASE u \in Due
      BY <3>1, SweepType DEF Due
    <3>2. CASE u \notin Due
      BY <3>2, <1>1, <1>5
    <3> QED BY <3>1, <3>2
  <2> QED BY <2>1 DEF StoreOK
<1> QED BY <1>1, <1>2, <1>3, <1>4, <1>5, NotCloser DEF StoreStep
-----------------------------------------------------------------------------
(* Every step, by what it does to the store and by what it does to prompts.*)

\* A request with a body names an upload and an image.
LEMMA OpenType ==
  ASSUME StoreOK, NEW q \in Request, open[q] # <<>>
  PROVE  open[q][1] \in Upload /\ open[q][2] \in Content
<1>1. open[q] \in Upload \X Content
  BY DEF StoreOK
<1> QED BY <1>1

\* The prompts of one step: one may be accepted, dispatched, read or cut off.
PromptStep(p) ==
  \/ prompts'[p] = prompts[p]
  \/ prompts'[p].state \in {"sent", "unknown"}
  \/ /\ prompts[p].state = "accepted" /\ prompts'[p].state = "reading"
     /\ prompts'[p].image = prompts[p].image /\ prompts'[p].until = prompts[p].until
  \/ /\ prompts[p].state = "accepted" /\ prompts'[p].state = "failed"
     /\ prompts'[p].until = prompts[p].until
     /\ ~available(prompts[p].image)
  \/ /\ prompts[p].state = "reading" /\ prompts'[p].state = "failed"
     /\ prompts'[p].until = prompts[p].until
     /\ \/ blobs[prompts[p].image] = None
        \/ rows[prompts[p].image].state # "complete"
  \/ /\ prompts'[p].state = "accepted" /\ prompts'[p].until = 0
     /\ prompts'[p].image \in Upload
  \/ /\ prompts'[p].state = "accepted" /\ prompts'[p].until = clock + RetainTtl
     /\ prompts'[p].image \in Upload /\ available(prompts'[p].image)
     /\ rows' = retain(prompts'[p].image, clock + RetainTtl)

PromptsStep ==
  /\ prompts' \in [Prompt -> PromptRow]
  /\ \A p \in Prompt : PromptStep(p)

\* A step that leaves the prompts alone.
LEMMA UnchangedPrompts ==
  ASSUME StoreOK, prompts' = prompts
  PROVE  PromptsStep
BY DEF StoreOK, PromptsStep, PromptStep

\* A prompt whose row is replaced, the others left alone.
LEMMA OnePrompt ==
  ASSUME StoreOK, NEW p \in Prompt, NEW new \in PromptRow,
         prompts' = [prompts EXCEPT ![p] = new],
         prompts'[p] = new => PromptStep(p)
  PROVE  PromptsStep
<1>1. prompts' \in [Prompt -> PromptRow] /\ prompts'[p] = new
  BY DEF StoreOK
<1>2. \A r \in Prompt : r # p => prompts'[r] = prompts[r]
  BY DEF StoreOK
<1> QED BY <1>1, <1>2 DEF PromptsStep, PromptStep

\* A prompt is accepted and its image retained.
LEMMA AcceptStep ==
  ASSUME StoreOK, NEW p \in Prompt, NEW u \in Upload, AcceptPrompt(p, u)
  PROVE  StoreStep /\ PromptsStep
<1> DEFINE new == [state |-> "accepted", image |-> u, until |-> clock + RetainTtl]
<1>1. clock + RetainTtl \in Nat
  BY Times DEF StoreOK
<1>2. new \in PromptRow /\ new.state = "accepted" /\ new.image = u /\ new.until = clock + RetainTtl
  BY <1>1 DEF PromptRow
<1>3. /\ prompts' = [prompts EXCEPT ![p] = new] /\ available(u)
      /\ rows' = retain(u, clock + RetainTtl) /\ blobs' = blobs
  BY DEF AcceptPrompt
<1> HIDE DEF new
<1>4. prompts'[p] = new => PromptStep(p)
  BY <1>2, <1>3 DEF PromptStep
<1>5. PromptsStep
  BY <1>2, <1>3, <1>4, OnePrompt
<1> QED BY <1>1, <1>3, <1>5, RetainStep

\* A dispatched prompt goes on to read its image, or fails when that is gone.
LEMMA DispatchStep ==
  ASSUME StoreOK, NEW p \in Prompt, DispatchPrompt(p)
  PROVE  PromptsStep
<1> DEFINE to == IF available(prompts[p].image) THEN "reading" ELSE "failed"
           new == [prompts[p] EXCEPT !.state = to]
<1>1. prompts[p] \in PromptRow /\ to \in {"reading", "failed"}
  BY DEF StoreOK
<1>2. to = "failed" => ~available(prompts[p].image)
  OBVIOUS
<1> HIDE DEF to
<1>3. /\ new \in PromptRow /\ new.state = to
      /\ new.image = prompts[p].image /\ new.until = prompts[p].until
  BY <1>1 DEF PromptRow
<1>4. prompts' = [prompts EXCEPT ![p] = new] /\ prompts[p].state = "accepted"
  BY DEF DispatchPrompt, to
<1> HIDE DEF new
<1>5. prompts'[p] = new => PromptStep(p)
  BY <1>1, <1>2, <1>3, <1>4 DEF PromptStep
<1> QED BY <1>3, <1>4, <1>5, OnePrompt

\* A prompt reads its image, and retains it again.
LEMMA ReadStep ==
  ASSUME StoreOK, NEW p \in Prompt, prompts[p].image \in Upload, ReadImage(p)
  PROVE  StoreStep /\ PromptsStep
<1> DEFINE u == prompts[p].image
           new(to) == [prompts[p] EXCEPT !.state = to]
<1>1. prompts[p] \in PromptRow
  BY DEF StoreOK
<1>2. ASSUME NEW to \in {"sent", "failed"}
      PROVE  new(to) \in PromptRow /\ new(to).state = to /\ new(to).until = prompts[p].until
  BY <1>1 DEF PromptRow
<1>3. CASE /\ rows' = retain(u, clock + UploadTtl)
           /\ prompts' = [prompts EXCEPT ![p] = new("sent")]
  <2>1. StoreStep
    BY <1>3, Times, RetainStep DEF ReadImage, StoreOK
  <2>2. prompts'[p] = new("sent") => PromptStep(p)
    BY <1>2 DEF PromptStep
  <2> QED BY <1>2, <1>3, <2>1, <2>2, OnePrompt
<1>4. CASE /\ blobs[u] = None \/ rows[u].state # "complete"
           /\ prompts' = [prompts EXCEPT ![p] = new("failed")]
           /\ UNCHANGED rows
  <2>1. StoreStep
    BY <1>4, UnchangedStore DEF ReadImage
  <2>2. prompts'[p] = new("failed") => PromptStep(p)
    BY <1>2, <1>4 DEF PromptStep, ReadImage
  <2> QED BY <1>2, <1>4, <2>1, <2>2, OnePrompt
<1> QED BY <1>3, <1>4 DEF ReadImage

\* A death: the prompts that were read are cut off, one may just have been
\* accepted.
LEMMA InterruptedStep ==
  ASSUME StoreOK, prompts' = Interrupted
  PROVE  PromptsStep
<1>1. ASSUME NEW p \in Prompt
      PROVE  prompts'[p] = prompts[p] \/ prompts'[p].state = "unknown"
  <2>1. prompts[p] \in PromptRow
    BY DEF StoreOK
  <2> QED BY <2>1 DEF Interrupted, PromptRow
<1> QED BY <1>1, InterruptedType DEF PromptsStep, PromptStep

\* A death between accepting a prompt and retaining its image.
LEMMA CrashAcceptingStep ==
  ASSUME StoreOK, NEW p \in Prompt, NEW u \in Upload, CrashAccepting(p, u)
  PROVE  PromptsStep
<1> DEFINE new == [state |-> "accepted", image |-> u, until |-> 0]
<1>1. new \in PromptRow /\ new.state = "accepted" /\ new.image = u /\ new.until = 0
  BY DEF PromptRow
<1>2. prompts' = [Interrupted EXCEPT ![p] = new]
  BY DEF CrashAccepting
<1> HIDE DEF new
<1>3. /\ prompts' \in [Prompt -> PromptRow] /\ prompts'[p] = new
      /\ \A r \in Prompt : r # p => prompts'[r] = Interrupted[r]
  BY <1>1, <1>2, InterruptedType
<1>4. ASSUME NEW r \in Prompt, r # p
      PROVE  prompts'[r] = prompts[r] \/ prompts'[r].state = "unknown"
  <2>1. prompts[r] \in PromptRow
    BY DEF StoreOK
  <2> QED BY <1>3, <1>4, <2>1 DEF Interrupted, PromptRow
<1> QED BY <1>1, <1>3, <1>4 DEF PromptsStep, PromptStep
-----------------------------------------------------------------------------
(* The invariant.                                                          *)

\* What is promised to a prompt that has not been read yet: until its time is
\* over the row of its image is complete and does not expire before.  The time
\* is never more than seven days away, so that another prompt's retention of
\* the same row, which is cut at seven days, cannot bring it closer.
PromiseKept ==
  \A p \in Prompt : prompts[p].state \in {"accepted", "reading"} =>
    /\ prompts[p].image \in Upload
    /\ prompts[p].until <= clock + RetainTtl
    /\ clock < prompts[p].until =>
         /\ rows[prompts[p].image].state = "complete"
         /\ rows[prompts[p].image].expires >= prompts[p].until

BinaryInv == StoreOK /\ CompleteHasBytes /\ PromiseKept /\ AcceptedPromptKeepsImage

\* The store starts empty.
LEMMA BinaryInit == Init => BinaryInv
<1> SUFFICES ASSUME Init
             PROVE  BinaryInv
  OBVIOUS
<1>1. NoRow \in Row /\ NoRow.state = "none"
  BY DEF NoRow, Row
<1>2. [state |-> "none", image |-> None, until |-> 0] \in PromptRow
  BY DEF PromptRow
<1>3. StoreOK
  BY <1>1, <1>2 DEF Init, StoreOK
<1> QED BY <1>1, <1>3 DEF Init, BinaryInv, CompleteHasBytes, PromiseKept, AcceptedPromptKeepsImage

\* What a step may do, for the steps of uploads, prompts, sweeps and deaths.
LEMMA StepFacts ==
  ASSUME BinaryInv, [Next]_vars
  PROVE  /\ StoreStep /\ PromptsStep
         /\ open' \in [Request -> {<<>>} \cup (Upload \X Content)]
         /\ clock' \in Nat /\ clock' >= clock
<1> DEFINE Goal == /\ StoreStep /\ PromptsStep
                   /\ open' \in [Request -> {<<>>} \cup (Upload \X Content)]
                   /\ clock' \in Nat /\ clock' >= clock
<1>1. StoreOK
  BY DEF BinaryInv
<1>2. ASSUME open' = open \/ open' = [q \in Request |-> <<>>], clock' = clock,
             StoreStep, PromptsStep
      PROVE  Goal
  BY <1>1, <1>2 DEF StoreOK
<1>3. ASSUME NEW q \in Request, NEW u \in Upload, NEW c \in Content, RequestUpload(q, u, c)
      PROVE  Goal
  <2>1. open' \in [Request -> {<<>>} \cup (Upload \X Content)]
    BY <1>1, <1>3 DEF RequestUpload, StoreOK
  <2>2. StoreStep /\ PromptsStep /\ clock' = clock
    BY <1>1, <1>3, UnchangedStore, UnchangedPrompts DEF RequestUpload
  <2> QED BY <1>1, <2>1, <2>2 DEF StoreOK
<1>4. ASSUME NEW q \in Request, BodyFails(q) \/ StoreUpload(q)
      PROVE  Goal
  <2>1. /\ open' \in [Request -> {<<>>} \cup (Upload \X Content)]
        /\ clock' = clock /\ prompts' = prompts /\ open[q] # <<>>
    BY <1>1, <1>4 DEF BodyFails, StoreUpload, StoreOK
  <2>2. open[q][1] \in Upload /\ open[q][2] \in Content
    BY <1>1, <2>1, OpenType
  <2>3. StoreStep
    <3>1. CASE UNCHANGED <<rows, blobs>>
      BY <1>1, <3>1, UnchangedStore
    <3>2. CASE chunkFits(open[q][1], open[q][2]) /\ appendChunk(open[q][1], open[q][2])
      <4>1. rows[open[q][1]].state # "complete"
        BY <1>1, <2>2, <3>2, BeginType DEF chunkFits
      <4> QED BY <1>1, <2>2, <3>2, <4>1, StoredStep
    <3>3. CASE /\ rows[open[q][1]].state # "complete"
               /\ rows' = begin(open[q][1], open[q][2]) /\ blobs' = blobs
      BY <1>1, <2>2, <3>3, StoredStep
    <3> QED BY <1>4, <3>1, <3>2, <3>3 DEF BodyFails, StoreUpload
  <2> QED BY <1>1, <2>1, <2>3, UnchangedPrompts DEF StoreOK
<1>5. ASSUME NEW q \in Request, CrashStoring(q)
      PROVE  Goal
  <2>1. /\ open' = [r \in Request |-> <<>>] /\ clock' = clock
        /\ prompts' = Interrupted /\ open[q] # <<>>
    BY <1>5 DEF CrashStoring, Dies
  <2>2. open[q][1] \in Upload /\ open[q][2] \in Content
    BY <1>1, <2>1, OpenType
  <2>3. /\ rows[open[q][1]].state = "none" /\ rows' = begin(open[q][1], open[q][2])
        /\ blobs' = blobs \/ blobs' = [blobs EXCEPT ![open[q][1]] = open[q][2]]
    BY <1>5 DEF CrashStoring
  <2>4. StoreStep
    BY <1>1, <2>2, <2>3, StoredStep
  <2> QED BY <1>1, <1>2, <2>1, <2>4, InterruptedStep
<1>6. ASSUME NEW p \in Prompt, NEW u \in Upload, AcceptPrompt(p, u)
      PROVE  Goal
  BY <1>1, <1>2, <1>6, AcceptStep DEF AcceptPrompt
<1>7. ASSUME NEW p \in Prompt, NEW u \in Upload, CrashAccepting(p, u)
      PROVE  Goal
  BY <1>1, <1>2, <1>7, CrashAcceptingStep, UnchangedStore DEF CrashAccepting, Dies
<1>8. ASSUME NEW p \in Prompt, DispatchPrompt(p)
      PROVE  Goal
  BY <1>1, <1>2, <1>8, DispatchStep, UnchangedStore DEF DispatchPrompt, uploads
<1>9. ASSUME NEW p \in Prompt, ReadImage(p)
      PROVE  Goal
  <2>1. prompts[p].image \in Upload
    BY <1>9 DEF BinaryInv, PromiseKept, ReadImage
  <2> QED BY <1>1, <1>2, <1>9, <2>1, ReadStep DEF ReadImage
<1>10. CASE Sweep \/ Restart
  BY <1>1, <1>2, <1>10, SweepStep, UnchangedPrompts DEF Sweep, Restart, sweep
<1>11. CASE Crash
  BY <1>1, <1>2, <1>11, InterruptedStep, UnchangedStore DEF Crash, Dies
<1>12. CASE CrashSweeping
  BY <1>1, <1>2, <1>12, InterruptedStep, SweepStep DEF CrashSweeping, sweepCut, Dies
<1>13. CASE Tick
  <2>1. StoreStep /\ PromptsStep /\ open' = open /\ clock' = clock + 1
    BY <1>1, <1>13, UnchangedStore, UnchangedPrompts DEF Tick, uploads
  <2> QED BY <1>1, <2>1 DEF StoreOK
<1>14. CASE StartExport \/ WindowPasses \/ UNCHANGED vars
  BY <1>1, <1>2, <1>14, UnchangedStore, UnchangedPrompts
     DEF StartExport, WindowPasses, uploads, vars
<1>15. ASSUME NEW e \in 1..MaxMade, FinishExport(e) \/ DownloadExport(e)
       PROVE  Goal
  BY <1>1, <1>2, <1>15, UnchangedStore, UnchangedPrompts
     DEF FinishExport, DownloadExport, uploads
<1> QED BY <1>3, <1>4, <1>5, <1>6, <1>7, <1>8, <1>9, <1>10, <1>11, <1>12, <1>13, <1>14, <1>15
        DEF Next

\* One case per request, sweep, prompt step and crash.
LEMMA BinaryStep == BinaryInv /\ [Next]_vars => BinaryInv'
<1> SUFFICES ASSUME BinaryInv, [Next]_vars
             PROVE  BinaryInv'
  OBVIOUS
<1>1. /\ StoreOK /\ StoreStep /\ PromptsStep /\ clock' \in Nat /\ clock' >= clock
      /\ open' \in [Request -> {<<>>} \cup (Upload \X Content)]
  BY StepFacts DEF BinaryInv
<1>2. StoreOK'
  BY <1>1 DEF StoreOK, StoreStep, PromptsStep
<1>3. CompleteHasBytes'
  BY <1>1 DEF BinaryInv, CompleteHasBytes, StoreStep
<1>4. ASSUME NEW p \in Prompt, prompts'[p].state \in {"accepted", "reading"}
      PROVE  /\ prompts'[p].image \in Upload
             /\ prompts'[p].until <= clock' + RetainTtl
             /\ clock' < prompts'[p].until =>
                  /\ rows'[prompts'[p].image].state = "complete"
                  /\ rows'[prompts'[p].image].expires >= prompts'[p].until
  <2>1. CASE prompts'[p].state = "accepted" /\ prompts'[p].until = 0 /\ prompts'[p].image \in Upload
    BY <1>1, <2>1, Times DEF StoreOK
  <2>2. CASE /\ prompts'[p].until = clock + RetainTtl
             /\ prompts'[p].image \in Upload /\ available(prompts'[p].image)
             /\ rows' = retain(prompts'[p].image, clock + RetainTtl)
    <3> DEFINE u == prompts'[p].image
    <3>1. clock + RetainTtl \in Nat /\ rows[u].expires \in Nat /\ clock \in Nat
      BY <1>1, <2>2, Times DEF StoreOK, Row
    <3>2. /\ rows'[u].state = "complete"
          /\ rows'[u].expires = Smaller(Larger(rows[u].expires, clock + RetainTtl), clock + RetainTtl)
      BY <1>1, <2>2, <3>1, RetainType DEF available
    <3>3. rows'[u].expires = clock + RetainTtl
      BY <3>1, <3>2 DEF Smaller, Larger
    <3> QED BY <1>1, <2>2, <3>1, <3>2, <3>3, Times
  <2>3. CASE /\ prompts[p].state \in {"accepted", "reading"}
             /\ prompts'[p].image = prompts[p].image /\ prompts'[p].until = prompts[p].until
    <3> DEFINE u == prompts[p].image
               t == prompts[p].until
    <3>1. /\ u \in Upload /\ t <= clock + RetainTtl
          /\ clock < t => rows[u].state = "complete" /\ rows[u].expires >= t
      BY <2>3 DEF BinaryInv, PromiseKept
    <3>2. t \in Nat /\ clock \in Nat /\ rows[u].expires \in Nat /\ rows'[u].expires \in Nat
      BY <1>1, <1>2, <3>1 DEF StoreOK, PromptRow, Row
    <3>3. t <= clock' + RetainTtl
      BY <1>1, <3>1, <3>2, Times
    <3>4. ASSUME clock' < t
          PROVE  rows'[u].state = "complete" /\ rows'[u].expires >= t
      <4>1. rows[u].state = "complete" /\ rows[u].expires >= t /\ ~(rows[u].expires <= clock)
        BY <1>1, <3>1, <3>2, <3>4
      <4>2. /\ rows'[u].state = "complete"
            /\ rows'[u].expires >= Smaller(rows[u].expires, clock + RetainTtl)
        BY <1>1, <3>1, <4>1 DEF StoreStep
      <4> QED BY <3>1, <3>2, <4>1, <4>2, Times DEF Smaller
    <3> QED BY <2>3, <3>1, <3>3, <3>4
  <2>4. PromptStep(p)
    BY <1>1 DEF PromptsStep
  <2> QED BY <1>4, <2>1, <2>2, <2>3, <2>4 DEF PromptStep
<1>5. PromiseKept'
  BY <1>4 DEF PromiseKept
<1>6. ASSUME NEW p \in Prompt, prompts'[p].state = "failed"
      PROVE  clock' >= prompts'[p].until
  <2>1. prompts[p].until \in Nat /\ clock \in Nat
    BY <1>1 DEF StoreOK, PromptRow
  <2>2. CASE prompts'[p] = prompts[p]
    BY <1>1, <1>6, <2>1, <2>2 DEF BinaryInv, AcceptedPromptKeepsImage
  <2>3. ASSUME prompts[p].state \in {"accepted", "reading"}, clock < prompts[p].until
        PROVE  /\ available(prompts[p].image)
               /\ blobs[prompts[p].image] # None /\ rows[prompts[p].image].state = "complete"
    <3> DEFINE u == prompts[p].image
    <3>1. u \in Upload /\ rows[u].state = "complete" /\ rows[u].expires >= prompts[p].until
      BY <2>3 DEF BinaryInv, PromiseKept
    <3>2. rows[u].content \in Content /\ blobs[u] = rows[u].content /\ rows[u].expires \in Nat
      BY <1>1, <3>1 DEF BinaryInv, CompleteHasBytes, StoreOK, Row
    <3>3. blobs[u] # None
      BY <3>2, BinaryAssumption
    <3>4. rows[u].expires > clock
      BY <2>1, <2>3, <3>1, <3>2
    <3> QED BY <3>1, <3>3, <3>4 DEF available
  <2>4. CASE /\ prompts[p].state \in {"accepted", "reading"}
             /\ prompts'[p].until = prompts[p].until
             /\ ~(clock < prompts[p].until)
    BY <1>1, <2>1, <2>4
  <2>5. PromptStep(p)
    BY <1>1 DEF PromptsStep
  <2> QED BY <1>6, <2>2, <2>3, <2>4, <2>5 DEF PromptStep
<1>7. AcceptedPromptKeepsImage'
  BY <1>6 DEF AcceptedPromptKeepsImage
<1> QED BY <1>2, <1>3, <1>5, <1>7 DEF BinaryInv

\* A row that says complete has its image on disk, whichever write the bridge
\* died after (attachments.ts appendChunk and sweep).
THEOREM RowsHaveBytes == Spec => []CompleteHasBytes
<1>1. BinaryInv => CompleteHasBytes
  BY DEF BinaryInv
<1> QED BY <1>1, BinaryInit, BinaryStep, PTL DEF Spec

\* An accepted prompt finds its image until the seven days it is kept for are
\* over (attachments.ts retain, one-session-adapter.ts commandAccepted), with
\* any number of prompts sharing it, sweeps and restarts in between.
THEOREM PromptsKeepImages == Spec => []AcceptedPromptKeepsImage
<1>1. BinaryInv => AcceptedPromptKeepsImage
  BY DEF BinaryInv
<1> QED BY <1>1, BinaryInit, BinaryStep, PTL DEF Spec

-----------------------------------------------------------------------------
(* Exports.                                                                *)

ExportRecord == [id : Nat \ {0}, status : {"available", "expired"}, expires : Nat,
                 done : {"pending", "completed", "failed"}]

\* Every record has its own request, and the record of an export Pi is still
\* writing is pending: nobody is served it.
ExportInv ==
  /\ clock \in Nat /\ made \in Nat
  /\ exports \in Seq(ExportRecord)
  /\ running \subseteq 1..made
  /\ \A k \in 1..Len(exports) : exports[k].id <= made
  /\ \A k \in 1..Len(exports) : exports[k].id \in running => exports[k].done = "pending"

\* What a step that adds nothing may do to the records: keep the identity and
\* the expiry of each, and settle only one that is running.
RecordsStep(list) ==
  /\ list \in Seq(ExportRecord) /\ Len(list) = Len(exports)
  /\ \A k \in 1..Len(exports) :
       /\ list[k].id = exports[k].id /\ list[k].expires = exports[k].expires
       /\ list[k].done = exports[k].done \/ exports[k].id \in running

\* Sweeping marks expired records, and settles none.
LEMMA SweptRecords ==
  ASSUME ExportInv
  PROVE  RecordsStep(sweepExpired) /\ \A k \in 1..Len(exports) : sweepExpired[k].done = exports[k].done
<1>1. exports \in Seq(ExportRecord) /\ Len(exports) \in Nat
  BY DEF ExportInv
<1>2. ASSUME NEW k \in 1..Len(exports)
      PROVE  /\ sweepExpired[k] \in ExportRecord
             /\ sweepExpired[k].id = exports[k].id /\ sweepExpired[k].expires = exports[k].expires
             /\ sweepExpired[k].done = exports[k].done
  <2>1. exports[k] \in ExportRecord
    BY <1>1
  <2>2. \/ sweepExpired[k] = exports[k]
        \/ sweepExpired[k] = [exports[k] EXCEPT !.status = "expired"]
    BY DEF sweepExpired
  <2> QED BY <2>1, <2>2 DEF ExportRecord
<1>3. sweepExpired \in Seq(ExportRecord) /\ Len(sweepExpired) = Len(exports)
  BY <1>1, <1>2 DEF sweepExpired
<1> QED BY <1>2, <1>3 DEF RecordsStep

\* Settling the record of one running export.
LEMMA SettledRecords ==
  ASSUME ExportInv, NEW e \in running, NEW outcome \in {"completed", "failed"}
  PROVE  RecordsStep(Settled(e, outcome))
         /\ \A k \in 1..Len(exports) : exports[k].id # e => Settled(e, outcome)[k] = exports[k]
<1>1. exports \in Seq(ExportRecord) /\ Len(exports) \in Nat
  BY DEF ExportInv
<1> DEFINE list == Settled(e, outcome)
<1>2. ASSUME NEW k \in 1..Len(exports)
      PROVE  /\ list[k] \in ExportRecord
             /\ list[k].id = exports[k].id /\ list[k].expires = exports[k].expires
             /\ list[k].done = exports[k].done \/ exports[k].id = e
             /\ exports[k].id # e => list[k] = exports[k]
  <2>1. exports[k] \in ExportRecord
    BY <1>1
  <2>2. \/ list[k] = exports[k]
        \/ exports[k].id = e /\ list[k] = [exports[k] EXCEPT !.done = outcome]
    BY DEF Settled
  <2> QED BY <2>1, <2>2 DEF ExportRecord
<1>3. list \in Seq(ExportRecord) /\ Len(list) = Len(exports)
  BY <1>1, <1>2 DEF Settled
<1> HIDE DEF list
<1> QED BY <1>2, <1>3 DEF RecordsStep, list

\* What the step property says of one export.
ServedStep ==
  \A e \in 1..made : getExport(e) =>
    getExport(e)' \/ clock' > clock \/ Len(exports) > MaxExports

\* Records that keep identity, expiry and outcome are served as before.
LEMMA KeptRecords ==
  ASSUME ExportInv, UNCHANGED clock, Len(exports) <= Len(exports'), Len(exports') \in Nat,
         \A k \in 1..Len(exports) :
           /\ exports'[k].id = exports[k].id /\ exports'[k].expires = exports[k].expires
           /\ exports'[k].done = exports[k].done \/ exports[k].id \in running
  PROVE  ServedStep
<1> SUFFICES ASSUME NEW e \in 1..made, getExport(e)
             PROVE  getExport(e)'
  BY DEF ServedStep
<1>1. PICK k \in 1..Len(exports) :
        exports[k].id = e /\ exports[k].expires > clock /\ exports[k].done = "completed"
  BY DEF getExport
<1>2. exports[k].id \notin running /\ k \in 1..Len(exports')
  BY <1>1 DEF ExportInv
<1> QED BY <1>1, <1>2 DEF getExport

\* A step that adds no export and settles only what it ends.
LEMMA RecordsInv ==
  ASSUME ExportInv, RecordsStep(exports'), UNCHANGED <<clock, made>>, running' \subseteq running,
         \A k \in 1..Len(exports) : exports[k].id \in running' => exports'[k].done = exports[k].done
  PROVE  ExportInv' /\ ServedStep
<1>1. ExportInv'
  BY DEF ExportInv, RecordsStep
<1>2. Len(exports) \in Nat /\ Len(exports') = Len(exports)
  BY DEF ExportInv, RecordsStep
<1>3. ServedStep
  BY <1>2, KeptRecords DEF RecordsStep
<1> QED BY <1>1, <1>3

\* An export is started.
LEMMA StartExportServed ==
  ASSUME ExportInv, StartExport
  PROVE  ExportInv' /\ ServedStep
<1>0. /\ exports \in Seq(ExportRecord) /\ Len(exports) \in Nat /\ made \in Nat /\ clock \in Nat
      /\ clock' = clock /\ ExportTtl \in Nat
  BY BinaryAssumption DEF ExportInv, StartExport
<1> DEFINE swept == sweepExpired
<1>1. RecordsStep(swept) /\ \A k \in 1..Len(exports) : swept[k].done = exports[k].done
  BY SweptRecords
<1>2. /\ swept \in Seq(ExportRecord) /\ Len(swept) = Len(exports)
      /\ \A k \in 1..Len(exports) : /\ swept[k].id = exports[k].id /\ swept[k].expires = exports[k].expires
                                    /\ swept[k].done = exports[k].done
  BY <1>1 DEF RecordsStep
<1> HIDE DEF swept
<1>3. CASE exports' = swept /\ UNCHANGED <<running, made>>
  BY <1>0, <1>1, <1>3, RecordsInv
<1> DEFINE new == [id |-> made + 1, status |-> "available", expires |-> clock + ExportTtl, done |-> "pending"]
<1>4. CASE exports' = Append(swept, new) /\ running' = running \cup {made + 1} /\ made' = made + 1
  <2>1. new \in ExportRecord /\ new.id = made + 1 /\ new.done = "pending"
    BY <1>0 DEF ExportRecord
  <2> HIDE DEF new
  <2>2. /\ exports' \in Seq(ExportRecord) /\ Len(exports') = Len(exports) + 1
        /\ exports'[Len(exports) + 1] = new
        /\ \A k \in 1..Len(exports) : exports'[k] = swept[k]
    BY <1>0, <1>2, <1>4, <2>1
  <2>3. ASSUME NEW k \in 1..Len(exports')
        PROVE  exports'[k].id <= made' /\ (exports'[k].id \in running' => exports'[k].done = "pending")
    <3>1. CASE k = Len(exports) + 1
      BY <1>0, <1>4, <2>1, <2>2, <3>1
    <3>2. CASE k \in 1..Len(exports)
      <4>1. exports'[k].id = exports[k].id /\ exports'[k].done = exports[k].done
        BY <1>2, <2>2, <3>2
      <4>2. exports[k].id \in Nat /\ exports[k].id <= made
        <5>1. exports[k] \in ExportRecord
          BY <1>0, <3>2
        <5> QED BY <3>2, <5>1 DEF ExportInv, ExportRecord
      <4>3. exports[k].id \in running => exports[k].done = "pending"
        BY <3>2 DEF ExportInv
      <4> QED BY <1>0, <1>4, <4>1, <4>2, <4>3
    <3> QED BY <1>0, <2>2, <3>1, <3>2
  <2>4. running' \subseteq 1..made' /\ made' \in Nat /\ clock' \in Nat
    BY <1>0, <1>4 DEF ExportInv
  <2>5. ExportInv'
    BY <2>2, <2>3, <2>4 DEF ExportInv
  <2>6. ServedStep
    BY <1>0, <1>2, <2>2, KeptRecords
  <2> QED BY <2>5, <2>6
<1> QED BY <1>3, <1>4 DEF StartExport, swept, new

\* An export is finished by Pi, or downloaded.
LEMMA SettleServed ==
  ASSUME ExportInv, NEW e \in 1..MaxMade, FinishExport(e) \/ DownloadExport(e)
  PROVE  ExportInv' /\ ServedStep
<1>1. CASE FinishExport(e)
  <2>1. PICK outcome \in {"completed", "failed"} : exports' = Settled(e, outcome)
    BY <1>1 DEF FinishExport
  <2>2. e \in running /\ running' = running \ {e} /\ UNCHANGED <<clock, made>>
    BY <1>1 DEF FinishExport
  <2>3. /\ RecordsStep(exports')
        /\ \A k \in 1..Len(exports) : exports[k].id # e => exports'[k] = exports[k]
    BY <2>1, <2>2, SettledRecords
  <2> QED BY <2>2, <2>3, RecordsInv
<1>2. CASE DownloadExport(e)
  <2>0. exports \in Seq(ExportRecord) /\ Len(exports) \in Nat /\ UNCHANGED <<clock, made, running>>
    BY <1>2 DEF ExportInv, DownloadExport
  <2> DEFINE swept == sweepExpired
  <2>1. /\ swept \in Seq(ExportRecord) /\ Len(swept) = Len(exports)
        /\ \A k \in 1..Len(exports) : /\ swept[k].id = exports[k].id /\ swept[k].expires = exports[k].expires
                                      /\ swept[k].done = exports[k].done
    BY SweptRecords DEF RecordsStep
  <2> HIDE DEF swept
  <2>2. exports' = [k \in 1..Len(exports) |-> IF exports[k].id = e THEN swept[k] ELSE exports[k]]
    BY <1>2 DEF DownloadExport, swept
  <2>3. \A k \in 1..Len(exports) : exports[k] \in ExportRecord /\ swept[k] \in ExportRecord
    BY <2>0, <2>1
  <2>4. exports' \in Seq(ExportRecord) /\ Len(exports') = Len(exports)
    BY <2>0, <2>2, <2>3
  <2>5. \A k \in 1..Len(exports) :
          /\ exports'[k].id = exports[k].id /\ exports'[k].expires = exports[k].expires
          /\ exports'[k].done = exports[k].done
    BY <2>1, <2>2
  <2>6. RecordsStep(exports')
    BY <2>4, <2>5 DEF RecordsStep
  <2> QED BY <2>0, <2>5, <2>6, RecordsInv
<1> QED BY <1>1, <1>2

\* A restart reads a registry that fits completely.
LEMMA RestartServed ==
  ASSUME ExportInv, Restart
  PROVE  ExportInv' /\ ServedStep
<1>0. /\ exports \in Seq(ExportRecord) /\ Len(exports) \in Nat /\ MaxExports \in Nat
      /\ UNCHANGED <<clock, made, running>>
  BY BinaryAssumption DEF ExportInv, Restart
<1>1. CASE Len(exports) > MaxExports
  <2>1. exports' = SubSeq(exports, 1, MaxExports)
    BY <1>0, <1>1 DEF Restart, load, Smaller
  <2>2. /\ exports' \in Seq(ExportRecord) /\ Len(exports') = MaxExports
        /\ \A k \in 1..MaxExports : exports'[k] = exports[k] /\ k \in 1..Len(exports)
    BY <1>0, <1>1, <2>1
  <2>3. ExportInv'
    BY <1>0, <2>2 DEF ExportInv
  <2> QED BY <1>1, <2>3 DEF ServedStep
<1>2. CASE ~(Len(exports) > MaxExports)
  <2>1. exports' = SubSeq(exports, 1, Len(exports))
    BY <1>0, <1>2 DEF Restart, load, Smaller
  <2>2. exports' = exports
    BY <1>0, <2>1
  <2>3. RecordsStep(exports')
    BY <1>0, <2>2 DEF RecordsStep
  <2> QED BY <1>0, <2>2, <2>3, RecordsInv
<1> QED BY <1>1, <1>2

\* One case per operation of the exports; the others leave them alone.
LEMMA ExportStep == ExportInv /\ [Next]_vars => ExportInv' /\ ServedStep
<1> SUFFICES ASSUME ExportInv, [Next]_vars
             PROVE  ExportInv' /\ ServedStep
  OBVIOUS
<1>0. exports \in Seq(ExportRecord)
  BY DEF ExportInv
<1>1. ASSUME UNCHANGED <<exports, made, clock>>, running' \subseteq running
      PROVE  ExportInv' /\ ServedStep
  <2>1. RecordsStep(exports')
    BY <1>0, <1>1 DEF RecordsStep
  <2> QED BY <1>1, <2>1, RecordsInv
<1>2. ASSUME NEW q \in Request, NEW u \in Upload, NEW c \in Content, RequestUpload(q, u, c)
      PROVE  ExportInv' /\ ServedStep
  BY <1>1, <1>2 DEF RequestUpload, files
<1>3. ASSUME NEW q \in Request, BodyFails(q) \/ StoreUpload(q) \/ CrashStoring(q)
      PROVE  ExportInv' /\ ServedStep
  BY <1>1, <1>3 DEF BodyFails, StoreUpload, CrashStoring, Dies, files
<1>4. ASSUME NEW p \in Prompt, NEW u \in Upload, AcceptPrompt(p, u) \/ CrashAccepting(p, u)
      PROVE  ExportInv' /\ ServedStep
  BY <1>1, <1>4 DEF AcceptPrompt, CrashAccepting, Dies, files
<1>5. ASSUME NEW p \in Prompt, DispatchPrompt(p) \/ ReadImage(p)
      PROVE  ExportInv' /\ ServedStep
  BY <1>1, <1>5 DEF DispatchPrompt, ReadImage, files
<1>6. CASE StartExport
  BY <1>6, StartExportServed
<1>7. ASSUME NEW e \in 1..MaxMade, FinishExport(e) \/ DownloadExport(e)
      PROVE  ExportInv' /\ ServedStep
  BY <1>7, SettleServed
<1>8. CASE WindowPasses \/ Sweep \/ Crash \/ CrashSweeping \/ UNCHANGED vars
  BY <1>1, <1>8 DEF WindowPasses, Sweep, Crash, CrashSweeping, Dies, files, vars
<1>9. CASE Tick
  <2>1. clock' = clock + 1 /\ UNCHANGED <<exports, running, made>> /\ clock \in Nat
    BY <1>9 DEF Tick, files, ExportInv
  <2>2. ExportInv'
    BY <2>1 DEF ExportInv
  <2>3. clock' > clock
    BY <2>1
  <2> QED BY <2>2, <2>3 DEF ServedStep
<1>10. CASE Restart
  BY <1>10, RestartServed
<1> QED BY <1>2, <1>3, <1>4, <1>5, <1>6, <1>7, <1>8, <1>9, <1>10 DEF Next

\* An export that can be downloaded is taken away only by its expiry, or by a
\* restart whose registry file holds more records than it reads
\* (export-registry.ts load).
THEOREM ExportsStayServed == Spec => ExportStaysServed
<1>1. Init => ExportInv
  BY DEF Init, ExportInv
<1>2. ExportInv /\ [Next]_vars => ExportInv'
  BY ExportStep
<1>3. ExportInv /\ [Next]_vars
        => [\A e \in 1..made : getExport(e) =>
              getExport(e)' \/ clock' > clock \/ Len(exports) > MaxExports]_vars
  BY ExportStep DEF ServedStep
<1> QED BY <1>1, <1>2, <1>3, PTL DEF Spec, ExportStaysServed

-----------------------------------------------------------------------------
(* The quota.                                                              *)

\* f holds the sums of w along the order o, up to place m.
Totals(f, w, o, m) == f = [k \in 0 .. m |-> IF k = 0 THEN 0 ELSE f[k - 1] + w[o[k]]]

\* Adding up along an order is well founded.
LEMMA TotalsExist ==
  ASSUME NEW S, NEW w \in [S -> Nat], NEW o \in Seq(S)
  PROVE  \A m \in 0 .. Len(o) : \E f \in [0 .. m -> Nat] : Totals(f, w, o, m)
<1> DEFINE T == {m \in 0 .. Len(o) : \E f \in [0 .. m -> Nat] : Totals(f, w, o, m)}
<1>0. Len(o) \in Nat
  OBVIOUS
<1>1. 0 \in T
  <2> DEFINE z == [k \in 0 .. 0 |-> 0]
  <2>1. z \in [0 .. 0 -> Nat] /\ 0 \in 0 .. Len(o)
    BY <1>0
  <2>2. Totals(z, w, o, 0)
    BY DEF Totals
  <2> QED BY <2>1, <2>2
<1>2. ASSUME NEW m \in 0 .. Len(o), m \in T, m < Len(o) PROVE m + 1 \in T
  <2>1. PICK f \in [0 .. m -> Nat] : Totals(f, w, o, m)
    BY <1>2
  <2>2. m + 1 \in 1 .. Len(o) /\ m \in 0 .. m /\ m \in Nat
    BY <1>0, <1>2
  <2>3. o[m + 1] \in S
    BY <2>2
  <2>4. f[m] \in Nat /\ w[o[m + 1]] \in Nat
    BY <2>2, <2>3
  <2> DEFINE g == [k \in 0 .. m + 1 |-> IF k = m + 1 THEN f[m] + w[o[m + 1]] ELSE f[k]]
  <2>5. g \in [0 .. m + 1 -> Nat]
    BY <2>2, <2>4
  <2>6. ASSUME NEW k \in 0 .. m + 1
        PROVE  g[k] = IF k = 0 THEN 0 ELSE g[k - 1] + w[o[k]]
    <3>1. CASE k = m + 1
      <4>1. k # 0 /\ k - 1 = m /\ k - 1 \in 0 .. m + 1 /\ k - 1 # m + 1
        BY <2>2, <3>1
      <4>2. g[k - 1] = f[m]
        BY <4>1
      <4> QED BY <3>1, <4>1, <4>2
    <3>2. CASE k # m + 1
      <4>1. k \in 0 .. m /\ (k # 0 => k - 1 \in 0 .. m + 1 /\ k - 1 # m + 1)
        BY <2>2, <3>2
      <4>2. g[k] = f[k] /\ (k # 0 => g[k - 1] = f[k - 1])
        BY <3>2, <4>1
      <4>3. f[k] = IF k = 0 THEN 0 ELSE f[k - 1] + w[o[k]]
        BY <2>1, <4>1 DEF Totals
      <4> QED BY <4>2, <4>3
    <3> QED BY <3>1, <3>2
  <2>7. Totals(g, w, o, m + 1)
    <3> HIDE DEF g
    <3> QED BY <2>5, <2>6 DEF Totals
  <2> HIDE DEF g
  <2>8. \E h \in [0 .. m + 1 -> Nat] : Totals(h, w, o, m + 1)
    BY <2>5, <2>7, Zenon
  <2>9. m + 1 \in 0 .. Len(o)
    BY <2>2
  <2> QED BY <2>8, <2>9, Zenon
<1>3. 0 .. Len(o) \subseteq T
  <2> HIDE DEF T
  <2> QED BY <1>0, <1>1, <1>2, UpTo
<1> QED BY <1>3

\* f adds up the n values of w in the order o.
AddsUp(f, w, o, n) ==
  /\ f \in [0 .. n -> Nat]
  /\ f[0] = 0
  /\ \A k \in 1 .. n : f[k] = f[k - 1] + w[o[k]]

\* SumOver adds the values up, one at a time.
LEMMA SumIs ==
  ASSUME NEW S, IsFiniteSet(S), NEW w \in [S -> Nat]
  PROVE  \E f : /\ AddsUp(f, w, SetToSeq(S), Len(SetToSeq(S)))
                /\ SumOver(w) = f[Len(SetToSeq(S))]
<1> DEFINE o == SetToSeq(S)
           n == Len(o)
<1>1. o \in Seq(S) /\ n \in Nat
  BY SetToSeqLists
<1> DEFINE g == CHOOSE f : Totals(f, w, o, n)
<1>2. Totals(g, w, o, n)
  <2>1. n \in 0 .. Len(o)
    BY <1>1
  <2> QED BY <1>1, <2>1, TotalsExist
<1>3. SumOver(w) = g[n]
  BY DEF SumOver, Totals
<1> HIDE DEF g, o, n
<1>4. /\ \A k \in 0 .. n : g[k] = IF k = 0 THEN 0 ELSE g[k - 1] + w[o[k]]
      /\ g = [k \in 0 .. n |-> g[k]]
  BY <1>2 DEF Totals
<1>5. g[0] = 0
  <2>1. 0 \in 0 .. n
    BY <1>1
  <2>2. g[0] = IF 0 = 0 THEN 0 ELSE g[0 - 1] + w[o[0]]
    BY <1>4, <2>1, Zenon
  <2> QED BY <2>2
<1>6. ASSUME NEW k \in 1 .. n PROVE g[k] = g[k - 1] + w[o[k]]
  <2>1. k \in 0 .. n /\ k # 0
    BY <1>1
  <2>2. g[k] = IF k = 0 THEN 0 ELSE g[k - 1] + w[o[k]]
    BY <1>4, <2>1, Zenon
  <2> QED BY <2>1, <2>2
<1> DEFINE T == {k \in 0 .. n : g[k] \in Nat}
<1>7. 0 \in T
  BY <1>1, <1>5
<1>8. ASSUME NEW k \in 0 .. n, k \in T, k < n PROVE k + 1 \in T
  <2>1. k + 1 \in 1 .. n /\ (k + 1) - 1 = k /\ k + 1 \in 0 .. n
    BY <1>1, <1>8
  <2>2. g[k + 1] = g[k] + w[o[k + 1]]
    BY <1>6, <2>1
  <2>3. o[k + 1] \in S
    BY <1>1, <2>1 DEF n
  <2> QED BY <1>8, <2>1, <2>2, <2>3
<1>9. 0 .. n \subseteq T
  <2> HIDE DEF T
  <2> QED BY <1>1, <1>7, <1>8, UpTo
<1>10. g \in [0 .. n -> Nat]
  BY <1>4, <1>9
<1>11. AddsUp(g, w, o, n)
  BY <1>5, <1>6, <1>10 DEF AddsUp
<1> QED BY <1>3, <1>11 DEF o, n

\* If one value grows by at most d and no other grows, so does the sum.
LEMMA SumBound ==
  ASSUME NEW S, IsFiniteSet(S), NEW v \in [S -> Nat], NEW w \in [S -> Nat],
         NEW x, NEW d \in Nat,
         \A u \in S : u # x => v[u] <= w[u],
         x \in S => v[x] <= w[x] + d
  PROVE  /\ SumOver(v) \in Nat /\ SumOver(w) \in Nat
         /\ SumOver(v) <= SumOver(w) + d
<1> DEFINE o == SetToSeq(S)
           n == Len(o)
<1>1. o \in Seq(S) /\ n \in Nat
  BY SetToSeqLists
<1>2. \A i, j \in 1 .. n : o[i] = o[j] => i = j
  BY SetToSeqOnce
<1>3. PICK f : AddsUp(f, v, o, n) /\ SumOver(v) = f[n]
  BY SumIs
<1>4. PICK g : AddsUp(g, w, o, n) /\ SumOver(w) = g[n]
  BY SumIs
<1> HIDE DEF o, n
<1> DEFINE Seen(k) == \E j \in 1 .. k : o[j] = x
           T == {k \in 0 .. n : f[k] <= g[k] + d /\ (~Seen(k) => f[k] <= g[k])}
<1>5. 0 \in T
  <2>1. f[0] = 0 /\ g[0] = 0
    BY <1>3, <1>4 DEF AddsUp
  <2> QED BY <1>1, <2>1
<1>6. ASSUME NEW k \in 0 .. n, k \in T, k < n PROVE k + 1 \in T
  <2>1. k + 1 \in 1 .. n /\ (k + 1) - 1 = k /\ k + 1 \in 0 .. n /\ k \in Nat /\ k + 1 \in 1 .. k + 1
    BY <1>1, <1>6
  <2>2. o[k + 1] \in S
    BY <1>1, <2>1 DEF n
  <2>3. f[k + 1] = f[k] + v[o[k + 1]] /\ g[k + 1] = g[k] + w[o[k + 1]]
    <3>1. f[k + 1] = f[(k + 1) - 1] + v[o[k + 1]] /\ g[k + 1] = g[(k + 1) - 1] + w[o[k + 1]]
      BY <1>3, <1>4, <2>1, Zenon DEF AddsUp
    <3> QED BY <2>1, <3>1
  <2>4. f[k] \in Nat /\ g[k] \in Nat /\ v[o[k + 1]] \in Nat /\ w[o[k + 1]] \in Nat
    BY <1>3, <1>4, <2>2 DEF AddsUp
  <2>5. f[k] <= g[k] + d /\ (~Seen(k) => f[k] <= g[k])
    BY <1>6
  <2>6. CASE o[k + 1] = x
    <3>1. ~Seen(k)
      <4>1. \A j \in 1 .. k : j \in 1 .. n /\ j # k + 1
        BY <1>1, <2>1
      <4> QED BY <1>2, <2>1, <2>6, <4>1
    <3>2. Seen(k + 1)
      BY <2>1, <2>6
    <3>3. v[o[k + 1]] <= w[o[k + 1]] + d
      BY <2>2, <2>6
    <3>4. f[k + 1] <= g[k + 1] + d
      <4> HIDE DEF Seen
      <4> QED BY <2>3, <2>4, <2>5, <3>1, <3>3
    <3> HIDE DEF Seen
    <3> QED BY <2>1, <3>2, <3>4
  <2>7. CASE o[k + 1] # x
    <3>1. v[o[k + 1]] <= w[o[k + 1]]
      BY <2>2, <2>7
    <3>2. Seen(k) => Seen(k + 1)
      <4>1. \A j \in 1 .. k : j \in 1 .. k + 1
        BY <2>1
      <4> QED BY <4>1
    <3> HIDE DEF Seen
    <3>3. f[k + 1] <= g[k + 1] + d
      BY <2>3, <2>4, <2>5, <3>1
    <3>4. ~Seen(k) => f[k + 1] <= g[k + 1]
      BY <2>3, <2>4, <2>5, <3>1
    <3> QED BY <2>1, <3>2, <3>3, <3>4
  <2> QED BY <2>6, <2>7
<1>7. 0 .. n \subseteq T
  <2> HIDE DEF T
  <2> QED BY <1>1, <1>5, <1>6, UpTo
<1>8. n \in 0 .. n
  BY <1>1
<1>9. f[n] <= g[n] + d /\ f[n] \in Nat /\ g[n] \in Nat
  BY <1>3, <1>4, <1>7, <1>8 DEF AddsUp
<1> QED BY <1>3, <1>4, <1>9

\* Nothing adds up to nothing.
LEMMA SumZero ==
  ASSUME NEW S, IsFiniteSet(S), NEW w \in [S -> Nat], \A u \in S : w[u] = 0
  PROVE  SumOver(w) = 0
<1> DEFINE o == SetToSeq(S)
           n == Len(o)
<1>1. o \in Seq(S) /\ n \in Nat
  BY SetToSeqLists
<1>2. PICK f : AddsUp(f, w, o, n) /\ SumOver(w) = f[n]
  BY SumIs
<1> HIDE DEF o, n
<1> DEFINE T == {k \in 0 .. n : f[k] = 0}
<1>3. 0 \in T
  BY <1>1, <1>2 DEF AddsUp
<1>4. ASSUME NEW k \in 0 .. n, k \in T, k < n PROVE k + 1 \in T
  <2>1. k + 1 \in 1 .. n /\ (k + 1) - 1 = k /\ k + 1 \in 0 .. n
    BY <1>1, <1>4
  <2>2. o[k + 1] \in S
    BY <1>1, <2>1 DEF n
  <2>3. f[k + 1] = f[(k + 1) - 1] + w[o[k + 1]]
    BY <1>2, <2>1, Zenon DEF AddsUp
  <2> QED BY <1>4, <2>1, <2>2, <2>3
<1>5. 0 .. n \subseteq T
  <2> HIDE DEF T
  <2> QED BY <1>1, <1>3, <1>4, UpTo
<1>6. n \in 0 .. n
  BY <1>1
<1> QED BY <1>2, <1>5, <1>6

\* The limits of the store are numbers.
LEMMA Limits ==
  /\ MaxImage \in Nat /\ Quota \in Nat /\ IsFiniteSet(Upload) /\ IsFiniteSet(Request)
  /\ Cardinality(Request) \in Nat \ {0}
<1>1. /\ MaxImage \in Nat /\ Quota \in Nat /\ IsFiniteSet(Upload) /\ IsFiniteSet(Request)
      /\ Request # {}
  BY BinaryAssumption
<1>2. Cardinality(Request) \in Nat /\ Cardinality(Request) # 0
  BY <1>1, FS_CardinalityType, FS_EmptySet
<1> QED BY <1>1, <1>2

\* A row holds the bytes of one image at most.
LEMMA BytesType ==
  ASSUME NEW r \in [Upload -> Row], NEW w,
         \A u \in Upload : r[u].state # "none" => r[u].content \in Content,
         w = [u \in Upload |-> IF r[u].state = "complete" THEN Size[r[u].content] ELSE 0]
  PROVE  /\ w \in [Upload -> Nat]
         /\ \A u \in Upload : w[u] <= MaxImage
<1>1. ASSUME NEW c \in Content PROVE Size[c] \in Nat /\ Size[c] <= MaxImage
  <2>1. Size[c] \in 1 .. MaxImage
    BY BinaryAssumption
  <2> QED BY <2>1, Limits
<1>2. ASSUME NEW u \in Upload
      PROVE  w[u] \in Nat /\ w[u] <= MaxImage
  <2>1. CASE r[u].state = "complete"
    BY <1>1, <2>1
  <2>2. CASE r[u].state # "complete"
    BY <2>2, Limits
  <2> QED BY <2>1, <2>2
<1> QED BY <1>2

\* Outside X, a row is complete after the step only with the image it had before.
KeptBut(X) ==
  \A u \in Upload : u \notin X /\ rows'[u].state = "complete" =>
    rows[u].state = "complete" /\ rows'[u].content = rows[u].content

\* So the sum grows by what one row stores, and by nothing if there is none.
LEMMA SumStep ==
  ASSUME StoreOK, StoreOK', NEW x, NEW d \in Nat, KeptBut({x}), d = MaxImage \/ KeptBut({})
  PROVE  retainedBytes \in Nat /\ retainedBytes' \in Nat /\ retainedBytes' <= retainedBytes + d
<1>0. PICK w : w = receivedBytes
  OBVIOUS
<1>1. PICK v : v = receivedBytes'
  OBVIOUS
<1>2. /\ w \in [Upload -> Nat] /\ v \in [Upload -> Nat]
      /\ \A u \in Upload : v[u] <= MaxImage
  <2>1. PICK r : r = rows
    OBVIOUS
  <2>2. PICK r1 : r1 = rows'
    OBVIOUS
  <2>3. /\ r \in [Upload -> Row] /\ r1 \in [Upload -> Row]
        /\ \A u \in Upload : r[u].state # "none" => r[u].content \in Content
        /\ \A u \in Upload : r1[u].state # "none" => r1[u].content \in Content
    BY <2>1, <2>2 DEF StoreOK
  <2>4. /\ w = [u \in Upload |-> IF r[u].state = "complete" THEN Size[r[u].content] ELSE 0]
        /\ v = [u \in Upload |-> IF r1[u].state = "complete" THEN Size[r1[u].content] ELSE 0]
    BY <1>0, <1>1, <2>1, <2>2 DEF receivedBytes
  <2> QED BY <2>3, <2>4, BytesType
<1>3. ASSUME NEW u \in Upload, u # x \/ KeptBut({}) PROVE v[u] <= w[u]
  <2>1. rows'[u].state = "complete" =>
          rows[u].state = "complete" /\ rows'[u].content = rows[u].content
    BY <1>3 DEF KeptBut
  <2>2. /\ w[u] = IF rows[u].state = "complete" THEN Size[rows[u].content] ELSE 0
        /\ v[u] = IF rows'[u].state = "complete" THEN Size[rows'[u].content] ELSE 0
    BY <1>0, <1>1 DEF receivedBytes
  <2>3. w[u] \in Nat /\ v[u] \in Nat
    BY <1>2
  <2> QED BY <2>1, <2>2, <2>3
<1>4. ASSUME x \in Upload PROVE v[x] <= w[x] + d
  <2>1. w[x] \in Nat /\ v[x] \in Nat
    BY <1>2, <1>4
  <2>2. CASE KeptBut({})
    BY <1>3, <1>4, <2>1, <2>2
  <2>3. CASE d = MaxImage
    <3>1. v[x] <= MaxImage
      BY <1>2, <1>4
    <3> QED BY <2>1, <2>3, <3>1, Limits
  <2> QED BY <2>2, <2>3
<1>5. SumOver(v) \in Nat /\ SumOver(w) \in Nat /\ SumOver(v) <= SumOver(w) + d
  BY <1>2, <1>3, <1>4, Limits, SumBound
<1>6. retainedBytes = SumOver(w) /\ retainedBytes' = SumOver(v)
  BY <1>0, <1>1 DEF retainedBytes, SumOver
<1> QED BY <1>5, <1>6

\* The requests whose body is being read.
Reading == {q \in Request : open[q] # <<>>}

\* Sets of requests are finite.
LEMMA SomeRequests ==
  ASSUME NEW T, T \subseteq Request
  PROVE  /\ IsFiniteSet(T) /\ Cardinality(T) \in Nat
         /\ Cardinality(T) <= Cardinality(Request)
BY Limits, FS_Subset, FS_CardinalityType

\* How a step changes what is stored and what is on its way.
Quiet == KeptBut({}) /\ (open' = open \/ open' = [q \in Request |-> <<>>])
Granted == rows' = rows /\ retainedBytes + MaxImage <= Quota
Finished(q) ==
  /\ open[q] # <<>> /\ open' = [open EXCEPT ![q] = <<>>]
  /\ KeptBut({open[q][1]})

\* Nothing is stored: what is complete stays as it is.
LEMMA Unstored == ASSUME rows' = rows PROVE KeptBut({})
BY DEF KeptBut

\* Retaining a row does not change its bytes.
LEMMA RetainKeeps ==
  ASSUME StoreOK, NEW u \in Upload, NEW until \in Nat, rows' = retain(u, until)
  PROVE  KeptBut({})
<1> DEFINE t == Smaller(Larger(rows[u].expires, until), clock + RetainTtl)
<1>1. rows' = [rows EXCEPT ![u] = [rows[u] EXCEPT !.expires = t]]
  BY DEF retain
<1> HIDE DEF t
<1>2. ASSUME NEW v \in Upload
      PROVE  rows'[v].state = rows[v].state /\ rows'[v].content = rows[v].content
  <2>1. rows[v] \in Row
    BY DEF StoreOK
  <2>2. CASE v = u
    BY <1>1, <2>1, <2>2 DEF StoreOK, Row
  <2>3. CASE v # u
    BY <1>1, <2>3 DEF StoreOK
  <2> QED BY <2>2, <2>3
<1> QED BY <1>2 DEF KeptBut

\* Sweeping adds no bytes.
LEMMA SweepKeeps ==
  ASSUME StoreOK, rows' = markExpired(Due)
  PROVE  KeptBut({})
<1>1. ASSUME NEW v \in Upload, rows'[v].state = "complete" PROVE rows'[v] = rows[v]
  <2>1. rows[v] \in Row
    BY DEF StoreOK
  <2>2. rows'[v] = IF v \in Due THEN [rows[v] EXCEPT !.state = "expired"] ELSE rows[v]
    BY DEF markExpired
  <2>3. v \in Due => rows'[v].state = "expired"
    BY <2>1, <2>2 DEF Row
  <2> QED BY <1>1, <2>2, <2>3
<1> QED BY <1>1 DEF KeptBut

\* Beginning an upload adds no bytes.
LEMMA BeginKeeps ==
  ASSUME StoreOK, NEW u \in Upload, NEW c \in Content, rows' = begin(u, c)
  PROVE  KeptBut({})
<1>1. \A v \in Upload : begin(u, c)[v].state = "complete" => begin(u, c)[v] = rows[v]
  BY BeginType
<1> QED BY <1>1 DEF KeptBut

\* A chunk completes at most its own upload.
LEMMA AppendKeeps ==
  ASSUME StoreOK, NEW u \in Upload, NEW c \in Content, appendChunk(u, c)
  PROVE  KeptBut({u})
<1>1. \A v \in Upload : begin(u, c)[v].state = "complete" => begin(u, c)[v] = rows[v]
  BY BeginType
<1>2. \A v \in Upload : v # u => rows'[v] = begin(u, c)[v]
  BY AppendType
<1> QED BY <1>1, <1>2 DEF KeptBut

\* Every step is of one of these kinds.
LEMMA QuotaKinds ==
  ASSUME BinaryInv, [Next]_vars
  PROVE  Quiet \/ Granted \/ \E q \in Request : Finished(q)
<1>1. StoreOK /\ clock \in Nat
  BY DEF BinaryInv, StoreOK
<1>2. ASSUME NEW q \in Request, NEW u \in Upload, NEW c \in Content, RequestUpload(q, u, c)
      PROVE  Quiet \/ Granted
  BY <1>2, Unstored DEF RequestUpload, canUpload, Quiet, Granted
<1>3. ASSUME NEW q \in Request, BodyFails(q)
      PROVE  Finished(q)
  BY <1>3 DEF BodyFails, Finished, KeptBut
<1>4. ASSUME NEW q \in Request, StoreUpload(q)
      PROVE  Finished(q)
  <2>1. open[q] # <<>> /\ open' = [open EXCEPT ![q] = <<>>]
    BY <1>4 DEF StoreUpload
  <2>2. PICK u \in Upload, c \in Content : u = open[q][1] /\ c = open[q][2]
    BY <1>1, <2>1, OpenType
  <2>3. \/ rows' = rows \/ appendChunk(u, c) \/ rows' = begin(u, c)
    BY <1>4, <2>2 DEF StoreUpload
  <2>4. KeptBut({u}) \/ KeptBut({})
    BY <1>1, <2>3, Unstored, AppendKeeps, BeginKeeps
  <2>5. KeptBut({u})
    BY <2>4 DEF KeptBut
  <2> QED BY <2>1, <2>2, <2>5 DEF Finished
<1>5. ASSUME NEW q \in Request, CrashStoring(q)
      PROVE  Quiet
  <2>1. open[q] # <<>> /\ open' = [r \in Request |-> <<>>]
    BY <1>5 DEF CrashStoring, Dies
  <2>2. PICK u \in Upload, c \in Content : u = open[q][1] /\ c = open[q][2]
    BY <1>1, <2>1, OpenType
  <2>3. rows' = begin(u, c)
    BY <1>5, <2>2 DEF CrashStoring
  <2> QED BY <1>1, <2>1, <2>3, BeginKeeps DEF Quiet
<1>6. ASSUME NEW p \in Prompt, NEW u \in Upload, AcceptPrompt(p, u)
      PROVE  Quiet
  <2>1. clock + RetainTtl \in Nat
    BY <1>1, Times
  <2>2. rows' = retain(u, clock + RetainTtl) /\ open' = open
    BY <1>6 DEF AcceptPrompt
  <2> QED BY <1>1, <2>1, <2>2, RetainKeeps DEF Quiet
<1>7. ASSUME NEW p \in Prompt, NEW u \in Upload, CrashAccepting(p, u)
      PROVE  Quiet
  BY <1>7, Unstored DEF CrashAccepting, Dies, Quiet
<1>8. ASSUME NEW p \in Prompt, DispatchPrompt(p)
      PROVE  Quiet
  BY <1>8, Unstored DEF DispatchPrompt, uploads, Quiet
<1>9. ASSUME NEW p \in Prompt, ReadImage(p)
      PROVE  Quiet
  <2>1. prompts[p].image \in Upload
    BY <1>9 DEF BinaryInv, PromiseKept, ReadImage
  <2>2. PICK u \in Upload : u = prompts[p].image
    BY <2>1
  <2>3. clock + UploadTtl \in Nat
    BY <1>1, Times
  <2>4. open' = open /\ (rows' = rows \/ rows' = retain(u, clock + UploadTtl))
    BY <1>9, <2>2 DEF ReadImage
  <2> QED BY <1>1, <2>3, <2>4, Unstored, RetainKeeps DEF Quiet
<1>10. CASE Sweep \/ Restart
  <2>1. rows' = markExpired(Due) /\ open' = open
    BY <1>10 DEF Sweep, Restart, sweep
  <2> QED BY <1>1, <2>1, SweepKeeps DEF Quiet
<1>11. CASE Crash
  BY <1>11, Unstored DEF Crash, Dies, Quiet
<1>12. CASE CrashSweeping
  <2>1. rows' = markExpired(Due) /\ open' = [q \in Request |-> <<>>]
    BY <1>12 DEF CrashSweeping, sweepCut, Dies
  <2> QED BY <1>1, <2>1, SweepKeeps DEF Quiet
<1>13. CASE Tick \/ StartExport \/ WindowPasses \/ UNCHANGED vars
  <2>1. rows' = rows /\ open' = open
    BY <1>13 DEF Tick, StartExport, WindowPasses, uploads, vars
  <2> QED BY <2>1, Unstored DEF Quiet
<1>14. ASSUME NEW e \in 1..MaxMade, FinishExport(e) \/ DownloadExport(e)
       PROVE  Quiet
  <2>1. rows' = rows /\ open' = open
    BY <1>14 DEF FinishExport, DownloadExport, uploads
  <2> QED BY <2>1, Unstored DEF Quiet
<1> QED BY <1>2, <1>3, <1>4, <1>5, <1>6, <1>7, <1>8, <1>9, <1>10, <1>11, <1>12, <1>13, <1>14
        DEF Next

\* Arithmetic of the bound.
LEMMA Scaled ==
  ASSUME NEW m \in Nat, NEW a \in Nat, NEW b \in Nat, a <= b
  PROVE  /\ a * m \in Nat /\ a * m <= b * m
         /\ a > 0 => (a - 1) * m = a * m - m /\ (a - 1) * m \in Nat
OBVIOUS

\* An empty store is below the quota.
LEMMA QuotaInit == Init => QuotaOvershootBounded
<1> SUFFICES ASSUME Init PROVE QuotaOvershootBounded
  OBVIOUS
<1>1. PICK w : w = receivedBytes
  OBVIOUS
<1>2. w \in [Upload -> Nat] /\ \A u \in Upload : w[u] = 0
  BY <1>1 DEF Init, NoRow, receivedBytes
<1>3. retainedBytes = 0
  BY <1>1, <1>2, Limits, SumZero DEF retainedBytes
<1>4. {q \in Request : open[q] # <<>>} = {}
  BY DEF Init
<1>5. Cardinality({q \in Request : open[q] # <<>>}) = 0
  BY <1>4, FS_EmptySet
<1>6. (Cardinality(Request) - 1) * MaxImage \in Nat
  BY Limits, Scaled
<1> QED BY <1>3, <1>5, <1>6, Limits DEF QuotaOvershootBounded

\* Each step is quiet, grants one request, or finishes one that was granted.
LEMMA QuotaStep ==
  ASSUME BinaryInv, BinaryInv', QuotaOvershootBounded, [Next]_vars
  PROVE  QuotaOvershootBounded'
<1> DEFINE m == MaxImage
           r == Cardinality(Request)
           a == Cardinality(Reading)
           b == Cardinality(Reading)'
           s == retainedBytes
           t == retainedBytes'
<1>1. StoreOK /\ StoreOK'
  BY DEF BinaryInv
<1>2. /\ IsFiniteSet(Reading) /\ a \in Nat /\ b \in Nat /\ a <= r /\ b <= r
      /\ r \in Nat \ {0} /\ m \in Nat /\ Quota \in Nat
  <2>1. Reading \subseteq Request /\ Reading' \subseteq Request
    BY DEF Reading
  <2>2. b = Cardinality(Reading')
    OBVIOUS
  <2> QED BY <2>1, <2>2, SomeRequests, Limits
<1>3. s + a * m <= Quota + (r - 1) * m
  BY DEF QuotaOvershootBounded, Reading
<1>4. SUFFICES t + b * m <= Quota + (r - 1) * m
  BY DEF QuotaOvershootBounded, Reading
<1>5. /\ a * m \in Nat /\ b * m \in Nat /\ b * m <= r * m
      /\ (r - 1) * m = r * m - m /\ (r - 1) * m \in Nat /\ r * m \in Nat
  <2> HIDE DEF a, b, m, r
  <2> QED BY <1>2, Scaled
<1>6. CASE Quiet
  <2>1. s \in Nat /\ t \in Nat /\ t <= s + 0
    <3>1. KeptBut({}) /\ KeptBut({None})
      BY <1>6 DEF Quiet, KeptBut
    <3> QED BY <1>1, <3>1, SumStep
  <2>2. b * m <= a * m
    <3>1. CASE open' = open
      BY <1>2, <1>5, <3>1 DEF Reading
    <3>2. CASE open' = [q \in Request |-> <<>>]
      <4>1. Reading' = {}
        BY <3>2 DEF Reading
      <4>2. b = 0
        BY <4>1, FS_EmptySet
      <4> HIDE DEF a, b, m
      <4> QED BY <1>2, <1>5, <4>2, Scaled
    <3> QED BY <1>6, <3>1, <3>2 DEF Quiet
  <2> HIDE DEF a, b, m, r, s, t
  <2> QED BY <1>2, <1>3, <1>5, <2>1, <2>2
<1>7. CASE Granted
  <2>1. s \in Nat /\ t = s /\ s + m <= Quota
    <3>1. KeptBut({}) /\ KeptBut({None})
      BY <1>7, Unstored DEF Granted, KeptBut
    <3>2. s \in Nat
      BY <1>1, <3>1, SumStep
    <3>3. t = s
      BY <1>7 DEF Granted, retainedBytes, receivedBytes
    <3> QED BY <1>7, <3>2, <3>3 DEF Granted
  <2> HIDE DEF a, b, m, r, s, t
  <2> QED BY <1>2, <1>5, <2>1
<1>8. ASSUME NEW q \in Request, Finished(q)
      PROVE  t + b * m <= Quota + (r - 1) * m
  <2>1. PICK x : x = open[q][1]
    OBVIOUS
  <2>2. s \in Nat /\ t \in Nat /\ t <= s + m
    <3>1. KeptBut({x})
      BY <1>8, <2>1 DEF Finished
    <3> QED BY <1>1, <1>2, <3>1, SumStep
  <2>3. Reading' = Reading \ {q} /\ q \in Reading
    BY <1>1, <1>8 DEF Finished, Reading, StoreOK
  <2>4. b = a - 1
    BY <1>2, <2>3, FS_RemoveElement
  <2>5. b * m = a * m - m
    <3> HIDE DEF a, b, m
    <3> QED BY <1>2, <2>4, Scaled
  <2> HIDE DEF a, b, m, r, s, t
  <2> QED BY <1>2, <1>3, <1>5, <2>2, <2>5
<1> QED BY <1>6, <1>7, <1>8, QuotaKinds

\* However many requests read their bodies between the question and the store,
\* over any number of uploads, prompts, sweeps, deaths and restarts, what is
\* stored and what is on its way exceeds the quota by at most the bodies of the
\* other requests (binary-http.ts asks canUpload once, before the body).
THEOREM QuotaHolds == Spec => []QuotaOvershootBounded
<1>1. Init => BinaryInv /\ QuotaOvershootBounded
  BY BinaryInit, QuotaInit
<1>2. BinaryInv /\ QuotaOvershootBounded /\ [Next]_vars => (BinaryInv /\ QuotaOvershootBounded)'
  BY BinaryStep, QuotaStep
<1> QED BY <1>1, <1>2, PTL DEF Spec
=============================================================================
