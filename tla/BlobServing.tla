----------------------------- MODULE BlobServing -----------------------------
(***************************************************************************)
(* One blob: how DatastoreBlobStorage stores it in chunks and deletes it,  *)
(* and how ServeBlobFilter sends a range of it.  The meta data are an      *)
(* entity of their own, which the upload server writes once the blob is    *)
(* stored and deleteBlob deletes last.  Nothing is in a transaction.       *)
(***************************************************************************)
EXTENDS Integers

CONSTANTS
  Readers,    \* requests that serve the blob
  Deleters,   \* calls of deleteBlob
  MaxInt,     \* the largest int, and length of an array
  MaxLong,    \* the largest long, and bound of a range
  Fetch,      \* MAX_BLOB_FETCH_SIZE, the size of a chunk
  BufSize     \* BUF_SIZE

ASSUME BlobAssumption ==
  /\ MaxInt \in Nat /\ MaxLong \in Nat /\ MaxInt <= MaxLong
  /\ Fetch \in 1..MaxInt /\ BufSize \in Nat \ {0}

VARIABLES
  size,       \* length of the blob
  store,      \* the stream of storeBlob: "open", "closing", "stored", "failed", "saved"
  blockCount, startPos,   \* of its close()
  chunks,     \* the chunk entities, each with the bytes from .. to - 1
  info,       \* the meta data are there
  deleter, count,         \* where a deleteBlob is, and the chunk it deletes next
  reader,     \* where a serveBlob is
  start, length,          \* its first byte and Content-Length
  fetched,    \* the blocks its stream has read
  pos,        \* the position of its stream
  skip, left, \* what skip and copy still have to do
  written     \* length of the body

storeVars == <<size, store, blockCount, startPos>>
deleteVars == <<deleter, count>>
readVars == <<reader, start, length, fetched, pos, skip, left, written>>
vars == <<storeVars, chunks, info, deleteVars, readVars>>

Init ==
  /\ size \in 0..MaxInt
  /\ store = "open" /\ blockCount = 0 /\ startPos = 0
  /\ chunks = {} /\ info = FALSE
  /\ deleter = [d \in Deleters |-> "idle"] /\ count = [d \in Deleters |-> 0]
  /\ reader = [r \in Readers |-> "idle"]
  /\ start = [r \in Readers |-> 0] /\ length = [r \in Readers |-> 0]
  /\ fetched = [r \in Readers |-> 0] /\ pos = [r \in Readers |-> 0]
  /\ skip = [r \in Readers |-> 0] /\ left = [r \in Readers |-> 0]
  /\ written = [r \in Readers |-> 0]

Least(a, b) == IF a < b THEN a ELSE b

-----------------------------------------------------------------------------
(* storeBlob: the application has written the stream and closes it.        *)

Close ==
  /\ store = "open"
  /\ store' = "closing"
  /\ UNCHANGED <<size, blockCount, startPos, chunks, info, deleteVars, readVars>>

\* startPos + MAX_BLOB_FETCH_SIZE, in the width of an int.
Plus == IF startPos + Fetch > MaxInt THEN startPos + Fetch - 2 * (MaxInt + 1) ELSE startPos + Fetch

EndPos == IF Plus > size THEN size ELSE Plus

\* Defect: the loop ends before a last chunk that is not full.
PutChunkFull ==
  /\ store = "closing" /\ EndPos >= startPos
  /\ chunks' = chunks \cup {[number |-> blockCount, from |-> startPos, to |-> EndPos]}
  /\ blockCount' = blockCount + 1
  /\ IF EndPos + Fetch <= size
     THEN startPos' = EndPos /\ UNCHANGED store
     ELSE store' = "stored" /\ UNCHANGED startPos
  /\ UNCHANGED <<size, info, deleteVars, readVars>>

\* One round of the loop.
PutChunk ==
  /\ store = "closing" /\ EndPos >= startPos
  /\ chunks' = chunks \cup {[number |-> blockCount, from |-> startPos, to |-> EndPos]}
  /\ blockCount' = blockCount + 1
  /\ IF EndPos < size
     THEN startPos' = EndPos /\ UNCHANGED store
     ELSE store' = "stored" /\ UNCHANGED startPos
  /\ UNCHANGED <<size, info, deleteVars, readVars>>

\* The datastore refuses a chunk, or the end is less than the start:
\* copyOfRange throws.  The chunks that were put stay.
StoreFails ==
  /\ store = "closing"
  /\ store' = "failed"
  /\ UNCHANGED <<size, blockCount, startPos, chunks, info, deleteVars, readVars>>

\* The meta data follow when close() has returned.
SaveInfo ==
  /\ store = "stored"
  /\ store' = "saved" /\ info' = TRUE
  /\ UNCHANGED <<size, blockCount, startPos, chunks, deleteVars, readVars>>

-----------------------------------------------------------------------------
(* deleteBlob.                                                             *)

\* Defect: the size is rounded down when it is not a multiple of a chunk.
DeleteBeginShort(d) ==
  /\ deleter[d] = "idle" /\ info
  /\ deleter' = [deleter EXCEPT ![d] = "deleting"]
  /\ count' = [count EXCEPT ![d] = size \div Fetch - 1]
  /\ UNCHANGED <<storeVars, chunks, info, readVars>>

DeleteBegin(d) ==
  /\ deleter[d] = "idle" /\ info
  /\ deleter' = [deleter EXCEPT ![d] = "deleting"]
  /\ count' = [count EXCEPT ![d] = size \div Fetch]
  /\ UNCHANGED <<storeVars, chunks, info, readVars>>

\* Chunks that are not there may be deleted as well.
DeleteChunk(d) ==
  /\ deleter[d] = "deleting" /\ count[d] >= 0
  /\ chunks' = {c \in chunks : c.number # count[d]}
  /\ count' = [count EXCEPT ![d] = @ - 1]
  /\ UNCHANGED <<storeVars, info, deleter, readVars>>

DeleteInfo(d) ==
  /\ deleter[d] = "deleting" /\ count[d] < 0
  /\ info' = FALSE
  /\ deleter' = [deleter EXCEPT ![d] = "deleted"]
  /\ UNCHANGED <<storeVars, chunks, count, readVars>>

\* There are no meta data (a NullPointerException), or the datastore fails.
DeleteFails(d) ==
  /\ deleter[d] = "deleting" \/ (deleter[d] = "idle" /\ ~info)
  /\ deleter' = [deleter EXCEPT ![d] = "failed"]
  /\ UNCHANGED <<storeVars, chunks, info, count, readVars>>

-----------------------------------------------------------------------------
(* serveBlob.                                                              *)

Goes(r, s) == reader' = [reader EXCEPT ![r] = s]

\* loadBlobInfo, and what follows it until hasBlob loads it again.
LoadInfo(r) ==
  /\ reader[r] = "idle"
  /\ Goes(r, IF info THEN "found" ELSE "notFound")
  /\ UNCHANGED <<storeVars, chunks, info, deleteVars, start, length, fetched, pos, skip, left, written>>

BlobGone(r) ==
  /\ reader[r] = "found" /\ ~info
  /\ Goes(r, "notFound")
  /\ UNCHANGED <<storeVars, chunks, info, deleteVars, start, length, fetched, pos, skip, left, written>>

\* A sum in the width of a long.
Long(n) == IF n > MaxLong THEN n - 2 * (MaxLong + 1) ELSE n

\* calculateContentRange, and the header set from first to last, the bounds of
\* the Content-Range header.  From 0 to the largest long the length overflows.
Header(r, first, last) ==
  /\ Goes(r, "open")
  /\ start' = [start EXCEPT ![r] = first]
  /\ length' = [length EXCEPT ![r] = Long(last - first + 1)]
  /\ UNCHANGED <<storeVars, chunks, info, deleteVars, fetched, pos, skip, left, written>>

\* No range asked for.
WholeBlob(r) ==
  /\ reader[r] = "found" /\ info
  /\ Header(r, 0, size - 1)

\* bytes=first-last, or a Content-Range of the application's own.  The range is
\* not compared with the blob's size.
Range(r, first, last) ==
  /\ reader[r] = "found" /\ info /\ first <= last
  /\ Header(r, first, last)

\* Defect: a range that begins after the blob is not refused.
OpenRangeUnchecked(r, first) ==
  /\ reader[r] = "found" /\ info
  /\ Header(r, first, size - 1)

\* bytes=first-, and bytes=-n with first = size - n.
OpenRange(r, first) ==
  /\ reader[r] = "found" /\ info /\ first <= size - 1
  /\ Header(r, first, size - 1)

\* The range makes no sense, or begins before the blob or after its end.
Unsatisfiable(r) ==
  /\ reader[r] = "found" /\ info
  /\ Goes(r, "refused")
  /\ UNCHANGED <<storeVars, chunks, info, deleteVars, start, length, fetched, pos, skip, left, written>>

\* fetchBlob, skip(start) and copy(..., contentLength) begin.
Open(r) ==
  /\ reader[r] = "open"
  /\ Goes(r, IF info THEN "copy" ELSE "failed")
  /\ skip' = [skip EXCEPT ![r] = start[r]]
  /\ left' = [left EXCEPT ![r] = length[r]]
  /\ UNCHANGED <<storeVars, chunks, info, deleteVars, start, length, fetched, pos, written>>

Wants(r) == reader[r] = "copy" /\ (skip[r] > 0 \/ left[r] > 0)

\* Defect: the last block is taken for a full one.
BufferedFull(r) == fetched[r] * Fetch

\* The end of the blocks the stream has read.
Buffered(r) == Least(fetched[r] * Fetch, size)

\* The stream needs a block: it fetches the chunk, or throws if it is gone.
FetchData(r) ==
  /\ Wants(r) /\ pos[r] < size /\ pos[r] = Buffered(r)
  /\ IF \E c \in chunks : c.number = fetched[r]
     THEN fetched' = [fetched EXCEPT ![r] = @ + 1] /\ UNCHANGED reader
     ELSE Goes(r, "failed") /\ UNCHANGED fetched
  /\ UNCHANGED <<storeVars, chunks, info, deleteVars, start, length, pos, skip, left, written>>

\* skip reads n bytes and drops them.
Skip(r, n) ==
  /\ reader[r] = "copy" /\ skip[r] > 0 /\ n <= skip[r] /\ n <= Buffered(r) - pos[r]
  /\ pos' = [pos EXCEPT ![r] = @ + n]
  /\ skip' = [skip EXCEPT ![r] = @ - n]
  /\ UNCHANGED <<storeVars, chunks, info, deleteVars, reader, start, length, fetched, left, written>>

\* Defect: all that was read is written.
CopyAll(r, n) ==
  /\ reader[r] = "copy" /\ skip[r] = 0 /\ left[r] > 0
  /\ n <= BufSize /\ n <= Buffered(r) - pos[r]
  /\ pos' = [pos EXCEPT ![r] = @ + n]
  /\ written' = [written EXCEPT ![r] = @ + n]
  /\ left' = [left EXCEPT ![r] = @ - n]
  /\ UNCHANGED <<storeVars, chunks, info, deleteVars, reader, start, length, fetched, skip>>

\* copy reads n bytes into its buffer and writes as many as are wanted.
Copy(r, n) ==
  /\ reader[r] = "copy" /\ skip[r] = 0 /\ left[r] > 0
  /\ n <= BufSize /\ n <= Buffered(r) - pos[r]
  /\ pos' = [pos EXCEPT ![r] = @ + n]
  /\ written' = [written EXCEPT ![r] = @ + Least(n, left[r])]
  /\ left' = [left EXCEPT ![r] = @ - n]
  /\ UNCHANGED <<storeVars, chunks, info, deleteVars, reader, start, length, fetched, skip>>

\* Defect: copy takes the end of the stream for a read that got nothing.
SentWhole(r) ==
  /\ reader[r] = "copy"
  /\ skip[r] = 0 /\ left[r] <= 0
  /\ Goes(r, "sent")
  /\ UNCHANGED <<storeVars, chunks, info, deleteVars, start, length, fetched, pos, skip, left, written>>

\* All is copied, or the stream ends before: skip stops short, and copy
\* returns.  Both streams are closed.
Sent(r) ==
  /\ reader[r] = "copy"
  /\ (skip[r] = 0 /\ left[r] <= 0) \/ pos[r] = size
  /\ Goes(r, "sent")
  /\ UNCHANGED <<storeVars, chunks, info, deleteVars, start, length, fetched, pos, skip, left, written>>

\* The client is gone: the write throws.
WriteFails(r) ==
  /\ reader[r] = "copy" /\ skip[r] = 0 /\ left[r] > 0
  /\ Goes(r, "failed")
  /\ UNCHANGED <<storeVars, chunks, info, deleteVars, start, length, fetched, pos, skip, left, written>>

-----------------------------------------------------------------------------

StoreStep == Close \/ PutChunk \/ StoreFails \/ SaveInfo

DeleteStep(d) == DeleteBegin(d) \/ DeleteChunk(d) \/ DeleteInfo(d) \/ DeleteFails(d)

CopyStep(r) ==
  \/ FetchData(r) \/ Sent(r)
  \/ \E n \in 1..Fetch : Skip(r, n) \/ Copy(r, n)

ReadStep(r) ==
  \/ LoadInfo(r) \/ BlobGone(r) \/ WholeBlob(r) \/ Unsatisfiable(r)
  \/ \E first \in 0..MaxLong : OpenRange(r, first) \/ \E last \in first..MaxLong : Range(r, first, last)
  \/ Open(r) \/ CopyStep(r) \/ WriteFails(r)

Next ==
  \/ StoreStep
  \/ \E d \in Deleters : DeleteStep(d)
  \/ \E r \in Readers : ReadStep(r)

Spec == Init /\ [][Next]_vars

-----------------------------------------------------------------------------

Chunks == [number : Nat, from : 0..MaxInt, to : 0..MaxInt]

TypeOK ==
  /\ size \in 0..MaxInt
  /\ store \in {"open", "closing", "stored", "failed", "saved"}
  /\ blockCount \in Nat /\ startPos \in 0..size
  /\ chunks \subseteq Chunks
  /\ info \in BOOLEAN
  /\ deleter \in [Deleters -> {"idle", "deleting", "deleted", "failed"}]
  /\ count \in [Deleters -> Int]
  /\ reader \in [Readers -> {"idle", "found", "notFound", "refused", "open", "copy", "sent", "failed"}]
  /\ start \in [Readers -> 0..MaxLong] /\ length \in [Readers -> -(MaxLong + 1)..MaxLong]
  /\ fetched \in [Readers -> Nat] /\ pos \in [Readers -> 0..size]
  /\ skip \in [Readers -> Nat] /\ left \in [Readers -> Int] /\ written \in [Readers -> Nat]

\* Meta data are there only for a blob every byte of which is in its chunk,
\* unless a deletion has begun: also for sizes at the limit of an int, where
\* the end of a chunk overflows, and sizes that fill the last chunk (storeBlob).
StoredWhole ==
  info /\ (\A d \in Deleters : deleter[d] = "idle") =>
    \A b \in 0..(size - 1) :
      \E c \in chunks : c.number = b \div Fetch /\ b \in c.from..(c.to - 1)

\* Once the meta data are deleted there is no chunk left that nobody could
\* find, however many deletions run and fail at once (deleteBlob).
NothingOrphaned == store = "saved" /\ ~info => chunks = {}

\* A body is never longer than its Content-Length, and a response that was
\* sent without an error has the bytes of its range that the blob has: as many
\* as the header says if the range ends inside the blob (calculateContentRange,
\* serveBlob, copy), even if the blob is deleted meanwhile.  The one range whose
\* length overflows, from 0 to the largest long, has a negative Content-Length
\* and an empty body.
BodyFitsHeader ==
  \A r \in Readers :
    IF length[r] < 0 THEN start[r] = 0 /\ written[r] = 0
    ELSE /\ written[r] <= length[r]
         /\ reader[r] = "sent" =>
              IF start[r] + length[r] <= size
              THEN written[r] = length[r] /\ pos[r] >= start[r] + length[r]
              ELSE pos[r] = size /\ (start[r] <= size => written[r] = size - start[r])

-----------------------------------------------------------------------------
(* The filter's thread runs, and the datastore answers it.                 *)

Fairness == \A r \in Readers : WF_vars(Open(r)) /\ WF_vars(CopyStep(r))

FairSpec == Spec /\ Fairness

\* A response whose header is set ends, also if the range is longer than the
\* blob (copy).
ResponseEnds == \A r \in Readers : reader[r] = "open" ~> reader[r] \in {"sent", "failed"}

=============================================================================
