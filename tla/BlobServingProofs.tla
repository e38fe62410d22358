-------------------------- MODULE BlobServingProofs --------------------------
(* Theorems about BlobServing, for any size of blob, chunk and buffer, and *)
(* any number of deletions and responses.                                  *)
EXTENDS BlobServing, TLAPS

-----------------------------------------------------------------------------
(* Arithmetic of chunks.                                                   *)

\* Multiplication by the size of a chunk keeps the order.
LEMMA TimesMonotonic ==
  ASSUME NEW a \in Nat, NEW b \in Nat, NEW f \in Nat, a <= b
  PROVE  a * f <= b * f
<1>1. PICK n \in Nat : b = a + n
  <2>1. b - a \in Nat /\ b = a + (b - a)
    OBVIOUS
  <2> QED BY <2>1
<1>2. b * f = a * f + n * f
  BY <1>1
<1>3. n * f \in Nat /\ a * f \in Nat
  OBVIOUS
<1> QED BY <1>2, <1>3

\* The chunk that a byte is in.
LEMMA ChunkOf ==
  ASSUME NEW f \in Nat \ {0}, NEW b \in Nat, NEW k \in Nat, k * f <= b
  PROVE  k <= b \div f /\ (b < k * f + f => b \div f = k)
<1> DEFINE q == b \div f
<1>1. /\ q \in Nat /\ q * f <= b /\ b < q * f + f
      /\ k * f \in Nat /\ q * f \in Nat
  OBVIOUS
<1> HIDE DEF q
<1>2. k <= q
  <2> SUFFICES ASSUME q + 1 <= k PROVE FALSE
    BY <1>1
  <2>1. (q + 1) * f <= k * f
    BY <1>1, TimesMonotonic
  <2>2. (q + 1) * f = q * f + f
    BY <1>1
  <2> QED BY <1>1, <2>1, <2>2
<1>3. ASSUME b < k * f + f PROVE q = k
  <2> SUFFICES ASSUME k + 1 <= q PROVE FALSE
    BY <1>1, <1>2
  <2>1. (k + 1) * f <= q * f
    BY <1>1, TimesMonotonic
  <2>2. (k + 1) * f = k * f + f
    OBVIOUS
  <2> QED BY <1>1, <1>3, <2>1, <2>2
<1> QED BY <1>2, <1>3 DEF q

\* copyOfRange does not throw: the end has not overflowed.
LEMMA EndOfChunk ==
  ASSUME TypeOK, EndPos >= startPos
  PROVE  /\ EndPos \in 0..size /\ EndPos <= startPos + Fetch
         /\ EndPos = size \/ EndPos = startPos + Fetch
<1>1. size \in 0..MaxInt /\ startPos \in 0..size /\ MaxInt \in Nat /\ Fetch \in 1..MaxInt
  BY BlobAssumption DEF TypeOK
<1>2. CASE startPos + Fetch > MaxInt
  <2>1. Plus < 0
    BY <1>1, <1>2 DEF Plus
  <2> QED BY <1>1, <1>2, <2>1 DEF EndPos, Plus
<1>3. CASE startPos + Fetch <= MaxInt
  BY <1>1, <1>3 DEF EndPos, Plus
<1> QED BY <1>1, <1>2, <1>3

-----------------------------------------------------------------------------
(* The inductive invariant.                                                *)

\* The bytes before n are in their chunks.
Covered(n) ==
  \A b \in 0..(n - 1) :
    \E c \in chunks : c.number = b \div Fetch /\ b \in c.from..(c.to - 1)

\* The stream of storeBlob.
Storing ==
  /\ store \in {"open", "closing"} => startPos = blockCount * Fetch /\ Covered(startPos)
  /\ store = "stored" => Covered(size)
  /\ store = "saved" /\ (\A d \in Deleters : deleter[d] = "idle") => Covered(size)
  /\ \A c \in chunks : c.number * Fetch <= size
  /\ info => store = "saved"

\* Chunks are deleted from the last one down.
Deleting ==
  /\ \A d \in Deleters :
       deleter[d] = "deleting" =>
         store = "saved" /\ \A c \in chunks : c.number <= count[d]
  /\ store = "saved" /\ ~info => chunks = {}

\* What copy may write: nothing for a length that overflowed.
Wanted(r) == IF length[r] < 0 THEN 0 ELSE length[r]

\* What is written is what the stream has passed since the start of the range.
Serving(r) ==
  /\ written[r] <= Wanted(r)
  /\ length[r] < 0 => start[r] = 0
  /\ reader[r] \in {"idle", "found", "notFound", "refused", "open"} =>
       pos[r] = 0 /\ written[r] = 0
  /\ reader[r] \in {"copy", "sent"} /\ skip[r] > 0 =>
       pos[r] + skip[r] = start[r] /\ written[r] = 0 /\ left[r] = length[r]
  /\ reader[r] \in {"copy", "sent"} /\ skip[r] = 0 =>
       /\ pos[r] >= start[r] /\ left[r] = length[r] - (pos[r] - start[r])
       /\ written[r] = Least(Wanted(r), pos[r] - start[r])
  /\ reader[r] = "sent" => (skip[r] = 0 /\ left[r] <= 0) \/ pos[r] = size

Inv == TypeOK /\ Storing /\ Deleting /\ \A r \in Readers : Serving(r)

\* Initially.
LEMMA InitInv ==
  Init => Inv
<1> SUFFICES ASSUME Init PROVE Inv
  OBVIOUS
<1>1. size \in Nat /\ Fetch \in Nat
  BY BlobAssumption DEF Init
<1>2. TypeOK
  <2>1. 0 \in 0..size /\ size \in 0..MaxInt
    BY <1>1 DEF Init
  <2>2. pos \in [Readers -> 0..size]
    BY <2>1 DEF Init
  <2>3. /\ deleter \in [Deleters -> {"idle", "deleting", "deleted", "failed"}]
        /\ count \in [Deleters -> Int]
        /\ reader \in [Readers -> {"idle", "found", "notFound", "refused", "open", "copy", "sent", "failed"}]
        /\ start \in [Readers -> 0..MaxLong] /\ length \in [Readers -> -(MaxLong + 1)..MaxLong]
        /\ fetched \in [Readers -> Nat]
        /\ skip \in [Readers -> Nat] /\ left \in [Readers -> Int] /\ written \in [Readers -> Nat]
    BY BlobAssumption DEF Init
  <2>4. /\ store = "open" /\ blockCount \in Nat /\ startPos \in 0..size
        /\ chunks \subseteq Chunks /\ info \in BOOLEAN
    BY <2>1 DEF Init
  <2> QED BY <2>1, <2>2, <2>3, <2>4 DEF TypeOK
<1>3. Storing
  <2>1. 0 * Fetch = 0 /\ 0..(0 - 1) = {}
    BY <1>1
  <2> QED BY <2>1 DEF Init, Storing, Covered
<1>4. Deleting /\ \A r \in Readers : Serving(r)
  BY DEF Init, Deleting, Serving, Wanted
<1> QED BY <1>2, <1>3, <1>4 DEF Inv

\* A step that leaves the readers alone.
LEMMA ServingKept ==
  ASSUME Inv, UNCHANGED <<size, readVars>>
  PROVE  \A r \in Readers : Serving(r)'
  BY DEF Inv, Serving, Wanted, Least, readVars

\* The steps of storeBlob.
LEMMA StoreInv ==
  ASSUME Inv, StoreStep
  PROVE  Inv'
<1>1. \A r \in Readers : Serving(r)'
  BY ServingKept DEF StoreStep, Close, PutChunk, StoreFails, SaveInfo
<1>2. CASE Close
  <2>1. TypeOK'
    BY <1>2 DEF Close, Inv, TypeOK, deleteVars, readVars
  <2>2. Storing' /\ Deleting'
    BY <1>2 DEF Close, Inv, Storing, Covered, Deleting, deleteVars
  <2> QED BY <1>1, <2>1, <2>2 DEF Inv
<1>3. CASE PutChunk
  <2> DEFINE new == [number |-> blockCount, from |-> startPos, to |-> EndPos]
  <2>1. /\ store = "closing" /\ EndPos >= startPos /\ chunks' = chunks \cup {new}
        /\ blockCount' = blockCount + 1 /\ size' = size /\ info' = info
        /\ IF EndPos < size THEN startPos' = EndPos /\ store' = store
                            ELSE store' = "stored" /\ startPos' = startPos
        /\ deleter' = deleter /\ count' = count
    BY <1>3 DEF PutChunk, deleteVars
  <2>2. /\ EndPos \in 0..size /\ EndPos <= startPos + Fetch
        /\ EndPos = size \/ EndPos = startPos + Fetch
    BY <2>1, EndOfChunk DEF Inv
  <2>3. /\ size \in Nat /\ startPos \in 0..size /\ Fetch \in Nat \ {0} /\ blockCount \in Nat
        /\ size <= MaxInt /\ MaxInt \in Nat
    BY BlobAssumption DEF Inv, TypeOK
  <2>4. startPos = blockCount * Fetch /\ Covered(startPos) /\ ~info
    BY <2>1 DEF Inv, Storing
  <2>5. TypeOK'
    <3>1. new \in Chunks
      BY <2>2, <2>3 DEF Chunks
    <3>2. chunks' \subseteq Chunks /\ startPos' \in 0..size' /\ blockCount' \in Nat
      BY <2>1, <2>2, <2>3, <3>1 DEF Inv, TypeOK
    <3>3. store' \in {"open", "closing", "stored", "failed", "saved"}
      BY <2>1
    <3> QED BY <1>3, <2>1, <3>2, <3>3 DEF PutChunk, readVars, Inv, TypeOK
  <2>6. \A b \in 0..(EndPos - 1) :
          \E c \in chunks' : c.number = b \div Fetch /\ b \in c.from..(c.to - 1)
    <3> SUFFICES ASSUME NEW b \in 0..(EndPos - 1)
                 PROVE  \E c \in chunks' : c.number = b \div Fetch /\ b \in c.from..(c.to - 1)
      OBVIOUS
    <3>1. CASE b < startPos
      BY <2>1, <2>3, <2>4, <3>1 DEF Covered
    <3>2. CASE b >= startPos
      <4>1. b \in Nat /\ blockCount * Fetch <= b /\ b < blockCount * Fetch + Fetch
        BY <2>2, <2>3, <2>4, <3>2
      <4>2. b \div Fetch = blockCount
        BY <2>3, <4>1, ChunkOf
      <4>3. b \in new.from..(new.to - 1) /\ new.number = b \div Fetch /\ new \in chunks'
        BY <2>1, <2>2, <2>3, <3>2, <4>2
      <4> QED BY <4>3
    <3> QED BY <2>2, <2>3, <3>1, <3>2
  <2>7. Storing'
    <3>1. new.number * Fetch <= size
      BY <2>3, <2>4
    <3>2. \A c \in chunks' : c.number * Fetch <= size
      BY <2>1, <3>1 DEF Inv, Storing
    <3>3. CASE EndPos < size
      <4>1. startPos' = EndPos /\ store' = "closing"
        BY <2>1, <3>3
      <4>2. startPos' = blockCount' * Fetch
        BY <2>1, <2>2, <2>3, <2>4, <3>3, <4>1
      <4>3. Covered(startPos)'
        BY <2>6, <4>1 DEF Covered
      <4> QED BY <2>1, <2>4, <3>2, <4>1, <4>2, <4>3 DEF Storing
    <3>4. CASE ~(EndPos < size)
      <4>1. EndPos = size /\ store' = "stored"
        BY <2>1, <2>2, <2>3, <3>4
      <4>2. Covered(size)'
        BY <2>1, <2>6, <4>1 DEF Covered
      <4> QED BY <2>1, <2>4, <3>2, <4>1, <4>2 DEF Storing
    <3> QED BY <3>3, <3>4
  <2>8. Deleting'
    BY <2>1 DEF Inv, Deleting
  <2> QED BY <1>1, <2>5, <2>7, <2>8 DEF Inv
<1>4. CASE StoreFails
  <2>1. TypeOK'
    BY <1>4 DEF StoreFails, Inv, TypeOK, deleteVars, readVars
  <2>2. Storing' /\ Deleting'
    BY <1>4 DEF StoreFails, Inv, Storing, Covered, Deleting, deleteVars
  <2> QED BY <1>1, <2>1, <2>2 DEF Inv
<1>5. CASE SaveInfo
  <2>1. TypeOK'
    BY <1>5 DEF SaveInfo, Inv, TypeOK, deleteVars, readVars
  <2>2. Storing' /\ Deleting'
    BY <1>5 DEF SaveInfo, Inv, Storing, Covered, Deleting, deleteVars
  <2> QED BY <1>1, <2>1, <2>2 DEF Inv
<1> QED BY <1>2, <1>3, <1>4, <1>5 DEF StoreStep

\* The steps of deleteBlob.
LEMMA DeleteInv ==
  ASSUME Inv, NEW d \in Deleters, DeleteStep(d)
  PROVE  Inv'
<1>1. /\ UNCHANGED <<storeVars, readVars>>
      /\ \A r \in Readers : Serving(r)'
  BY ServingKept DEF DeleteStep, DeleteBegin, DeleteChunk, DeleteInfo, DeleteFails, storeVars
<1>2. Fetch \in Nat \ {0} /\ size \in Nat /\ \A c \in chunks : c.number \in Nat
  BY BlobAssumption DEF Inv, TypeOK, Chunks
<1>3. CASE DeleteBegin(d)
  <2>1. /\ deleter' = [deleter EXCEPT ![d] = "deleting"] /\ info /\ info' = info
        /\ count' = [count EXCEPT ![d] = size \div Fetch] /\ chunks' = chunks
    BY <1>3 DEF DeleteBegin
  <2>2. store = "saved" /\ \A c \in chunks : c.number <= size \div Fetch
    BY <1>2, <2>1, ChunkOf DEF Inv, Storing
  <2>3. /\ deleter'[d] = "deleting" /\ count'[d] = size \div Fetch
        /\ \A e \in Deleters \ {d} : deleter'[e] = deleter[e] /\ count'[e] = count[e]
    BY <2>1 DEF Inv, TypeOK
  <2>4. TypeOK'
    BY <1>1, <1>2, <2>1 DEF Inv, TypeOK, storeVars, readVars
  <2>5. Storing'
    BY <1>1, <2>1, <2>3 DEF Inv, Storing, Covered, storeVars
  <2>6. Deleting'
    BY <1>1, <2>1, <2>2, <2>3 DEF Inv, Deleting, storeVars
  <2> QED BY <1>1, <2>4, <2>5, <2>6 DEF Inv
<1>4. CASE DeleteChunk(d)
  <2>1. /\ deleter[d] = "deleting" /\ chunks' = {c \in chunks : c.number # count[d]}
        /\ count' = [count EXCEPT ![d] = @ - 1] /\ deleter' = deleter /\ info' = info
    BY <1>4 DEF DeleteChunk
  <2>2. /\ count'[d] = count[d] - 1 /\ count[d] \in Int /\ store = "saved"
        /\ \A e \in Deleters \ {d} : count'[e] = count[e]
    BY <2>1 DEF Inv, TypeOK, Deleting
  <2>3. TypeOK'
    BY <1>1, <2>1 DEF Inv, TypeOK, storeVars, readVars
  <2>4. Storing'
    BY <1>1, <2>1, <2>2 DEF Inv, Storing, storeVars
  <2>5. Deleting'
    <3>1. \A c \in chunks' : c.number <= count'[d]
      BY <1>2, <2>1, <2>2 DEF Inv, Deleting
    <3> QED BY <1>1, <2>1, <2>2, <3>1 DEF Inv, Deleting, storeVars
  <2> QED BY <1>1, <2>3, <2>4, <2>5 DEF Inv
<1>5. CASE DeleteInfo(d)
  <2>1. /\ deleter[d] = "deleting" /\ count[d] < 0 /\ info' = FALSE
        /\ deleter' = [deleter EXCEPT ![d] = "deleted"] /\ chunks' = chunks /\ count' = count
    BY <1>5 DEF DeleteInfo
  <2>2. chunks = {} /\ store = "saved"
    BY <1>2, <2>1 DEF Inv, Deleting, TypeOK
  <2>3. deleter'[d] = "deleted" /\ \A e \in Deleters \ {d} : deleter'[e] = deleter[e]
    BY <2>1 DEF Inv, TypeOK
  <2>4. TypeOK'
    BY <1>1, <2>1 DEF Inv, TypeOK, storeVars, readVars
  <2>5. Storing'
    BY <1>1, <2>1, <2>2, <2>3 DEF Inv, Storing, storeVars
  <2>6. Deleting'
    BY <1>1, <2>1, <2>2, <2>3 DEF Inv, Deleting, storeVars
  <2> QED BY <1>1, <2>4, <2>5, <2>6 DEF Inv
<1>6. CASE DeleteFails(d)
  <2>1. /\ deleter' = [deleter EXCEPT ![d] = "failed"]
        /\ chunks' = chunks /\ info' = info /\ count' = count
    BY <1>6 DEF DeleteFails
  <2>2. deleter'[d] = "failed" /\ \A e \in Deleters \ {d} : deleter'[e] = deleter[e]
    BY <2>1 DEF Inv, TypeOK
  <2>3. TypeOK'
    BY <1>1, <2>1 DEF Inv, TypeOK, storeVars, readVars
  <2>4. Storing'
    BY <1>1, <2>1, <2>2 DEF Inv, Storing, Covered, storeVars
  <2>5. Deleting'
    BY <1>1, <2>1, <2>2 DEF Inv, Deleting, storeVars
  <2> QED BY <1>1, <2>3, <2>4, <2>5 DEF Inv
<1> QED BY <1>3, <1>4, <1>5, <1>6 DEF DeleteStep

\* A step of a reader that keeps the types and what Serving says of it.
LEMMA ReaderInv ==
  ASSUME Inv, NEW r \in Readers, TypeOK', Serving(r)',
         UNCHANGED <<storeVars, chunks, info, deleteVars>>,
         \A q \in Readers \ {r} :
           /\ reader'[q] = reader[q] /\ start'[q] = start[q] /\ length'[q] = length[q]
           /\ pos'[q] = pos[q] /\ skip'[q] = skip[q] /\ left'[q] = left[q]
           /\ written'[q] = written[q]
  PROVE  Inv'
<1>1. Storing' /\ Deleting'
  BY DEF Inv, Storing, Covered, Deleting, storeVars, deleteVars
<1>2. \A q \in Readers \ {r} : Serving(q)'
  BY DEF Inv, Serving, Wanted, Least, storeVars
<1> QED BY <1>1, <1>2 DEF Inv

\* A reader that goes on to s before it copies.
LEMMA ReaderGoes ==
  ASSUME Inv, NEW r \in Readers,
         NEW s \in {"found", "notFound", "refused", "failed"}, Goes(r, s),
         s # "failed" => reader[r] \in {"idle", "found"},
         UNCHANGED <<storeVars, chunks, info, deleteVars,
                     start, length, fetched, pos, skip, left, written>>
  PROVE  Inv'
<1>1. reader'[r] = s /\ \A q \in Readers \ {r} : reader'[q] = reader[q]
  BY DEF Goes, Inv, TypeOK
<1>2. TypeOK'
  BY DEF Goes, Inv, TypeOK, storeVars, deleteVars
<1>3. Serving(r)'
  BY <1>1 DEF Inv, Serving, Wanted, Least
<1> QED BY <1>1, <1>2, <1>3, ReaderInv

\* A reader that sets the header.
LEMMA ReaderHeader ==
  ASSUME Inv, NEW r \in Readers, NEW first \in 0..MaxLong, NEW last \in -1..MaxLong, first <= last + 1,
         reader[r] = "found", Header(r, first, last)
  PROVE  Inv'
<1>1. /\ reader' = [reader EXCEPT ![r] = "open"]
      /\ start' = [start EXCEPT ![r] = first]
      /\ length' = [length EXCEPT ![r] = Long(last - first + 1)]
      /\ UNCHANGED <<storeVars, chunks, info, deleteVars, fetched, pos, skip, left, written>>
  BY DEF Header, Goes
<1>2. /\ Long(last - first + 1) \in -(MaxLong + 1)..MaxLong
      /\ Long(last - first + 1) < 0 => first = 0
  BY BlobAssumption DEF Long
<1>3. /\ reader'[r] = "open" /\ start'[r] = first /\ length'[r] = Long(last - first + 1)
      /\ \A q \in Readers \ {r} :
           reader'[q] = reader[q] /\ start'[q] = start[q] /\ length'[q] = length[q]
  BY <1>1, <1>2 DEF Inv, TypeOK
<1>4. TypeOK'
  BY <1>1, <1>2 DEF Inv, TypeOK, storeVars, deleteVars
<1>5. Serving(r)'
  BY <1>1, <1>2, <1>3 DEF Inv, Serving, Wanted, Least
<1> QED BY <1>1, <1>3, <1>4, <1>5, ReaderInv

\* The steps of serveBlob.
LEMMA ReadInv ==
  ASSUME Inv, NEW r \in Readers, ReadStep(r)
  PROVE  Inv'
<1>1. CASE LoadInfo(r)
  BY <1>1, ReaderGoes DEF LoadInfo
<1>2. CASE BlobGone(r)
  BY <1>2, ReaderGoes DEF BlobGone
<1>3. CASE Unsatisfiable(r)
  BY <1>3, ReaderGoes DEF Unsatisfiable
<1>4. CASE WriteFails(r)
  BY <1>4, ReaderGoes DEF WriteFails
<1>5. CASE WholeBlob(r)
  <2>1. 0 \in 0..MaxLong /\ size - 1 \in -1..MaxLong /\ 0 <= (size - 1) + 1
    BY BlobAssumption DEF Inv, TypeOK
  <2> QED BY <1>5, <2>1, ReaderHeader DEF WholeBlob
<1>6. ASSUME NEW first \in 0..MaxLong, OpenRange(r, first) PROVE Inv'
  <2>1. size - 1 \in -1..MaxLong /\ first <= (size - 1) + 1
    BY <1>6, BlobAssumption DEF OpenRange, Inv, TypeOK
  <2> QED BY <1>6, <2>1, ReaderHeader DEF OpenRange
<1>7. ASSUME NEW first \in 0..MaxLong, NEW last \in first..MaxLong, Range(r, first, last)
      PROVE  Inv'
  <2>1. last \in -1..MaxLong /\ first <= last + 1
    BY <1>7, BlobAssumption DEF Range
  <2> QED BY <1>7, <2>1, ReaderHeader DEF Range
<1>8. CASE Open(r)
  <2>1. /\ reader[r] = "open"
        /\ reader' = [reader EXCEPT ![r] = IF info THEN "copy" ELSE "failed"]
        /\ skip' = [skip EXCEPT ![r] = start[r]] /\ left' = [left EXCEPT ![r] = length[r]]
        /\ UNCHANGED <<storeVars, chunks, info, deleteVars, start, length, fetched, pos, written>>
    BY <1>8 DEF Open, Goes
  <2>2. /\ reader'[r] \in {"copy", "failed"} /\ skip'[r] = start[r] /\ left'[r] = length[r]
        /\ start[r] \in Nat /\ length[r] \in Int /\ pos[r] = 0 /\ written[r] = 0
        /\ length[r] < 0 => start[r] = 0
        /\ \A q \in Readers \ {r} :
             reader'[q] = reader[q] /\ skip'[q] = skip[q] /\ left'[q] = left[q]
    BY <2>1 DEF Inv, TypeOK, Serving
  <2>3. TypeOK'
    BY <2>1 DEF Inv, TypeOK, storeVars, deleteVars
  <2>4. Serving(r)'
    BY <2>1, <2>2 DEF Serving, Wanted, Least
  <2> QED BY <2>1, <2>2, <2>3, <2>4, ReaderInv
<1>9. CASE FetchData(r)
  <2>1. CASE Goes(r, "failed") /\ UNCHANGED fetched
    BY <1>9, <2>1, ReaderGoes DEF FetchData
  <2>2. CASE fetched' = [fetched EXCEPT ![r] = @ + 1] /\ UNCHANGED reader
    <3>1. UNCHANGED <<storeVars, chunks, info, deleteVars, reader, start, length,
                      pos, skip, left, written>>
      BY <1>9, <2>2 DEF FetchData
    <3>2. TypeOK'
      BY <2>2, <3>1 DEF Inv, TypeOK, storeVars, deleteVars
    <3>3. Serving(r)'
      BY <3>1 DEF Inv, Serving, Wanted, Least, storeVars
    <3> QED BY <3>1, <3>2, <3>3, ReaderInv
  <2> QED BY <1>9, <2>1, <2>2 DEF FetchData
<1>10. CASE Sent(r)
  <2>1. /\ reader[r] = "copy" /\ reader' = [reader EXCEPT ![r] = "sent"]
        /\ (skip[r] = 0 /\ left[r] <= 0) \/ pos[r] = size
        /\ UNCHANGED <<storeVars, chunks, info, deleteVars, start, length, fetched,
                       pos, skip, left, written>>
    BY <1>10 DEF Sent, Goes
  <2>2. reader'[r] = "sent" /\ \A q \in Readers \ {r} : reader'[q] = reader[q]
    BY <2>1 DEF Inv, TypeOK
  <2>3. TypeOK'
    BY <2>1 DEF Inv, TypeOK, storeVars, deleteVars
  <2>4. Serving(r)'
    BY <2>1, <2>2 DEF Inv, Serving, Wanted, Least, storeVars
  <2> QED BY <2>1, <2>2, <2>3, <2>4, ReaderInv
<1>11. ASSUME NEW n \in 1..Fetch, Skip(r, n) \/ Copy(r, n) PROVE Inv'
  <2>1. /\ n \in Nat \ {0} /\ size \in Nat /\ pos[r] \in 0..size /\ start[r] \in Nat
        /\ length[r] \in Int /\ skip[r] \in Nat /\ left[r] \in Int /\ written[r] \in Nat
    BY BlobAssumption DEF Inv, TypeOK
  <2>2. n <= Buffered(r) - pos[r] /\ reader[r] = "copy"
    BY <1>11 DEF Skip, Copy
  <2>3. pos[r] + n \in 0..size
    <3>1. fetched[r] * Fetch \in Nat
      BY BlobAssumption DEF Inv, TypeOK
    <3> QED BY <2>1, <2>2, <3>1 DEF Buffered, Least
  <2>4. CASE Skip(r, n)
    <3>1. /\ skip[r] > 0 /\ n <= skip[r]
          /\ pos' = [pos EXCEPT ![r] = @ + n] /\ skip' = [skip EXCEPT ![r] = @ - n]
          /\ UNCHANGED <<storeVars, chunks, info, deleteVars, reader, start, length, fetched,
                         left, written>>
      BY <2>4 DEF Skip
    <3>2. /\ pos'[r] = pos[r] + n /\ skip'[r] = skip[r] - n /\ skip[r] - n \in Nat
          /\ \A q \in Readers \ {r} : pos'[q] = pos[q] /\ skip'[q] = skip[q]
      BY <2>1, <3>1 DEF Inv, TypeOK
    <3>3. TypeOK'
      BY <2>3, <3>1, <3>2 DEF Inv, TypeOK, storeVars, deleteVars
    <3>4. Serving(r)'
      BY <2>1, <2>2, <3>1, <3>2 DEF Inv, Serving, Wanted, Least
    <3> QED BY <3>1, <3>2, <3>3, <3>4, ReaderInv
  <2>5. CASE Copy(r, n)
    <3>1. /\ skip[r] = 0 /\ left[r] > 0
          /\ pos' = [pos EXCEPT ![r] = @ + n] /\ left' = [left EXCEPT ![r] = @ - n]
          /\ written' = [written EXCEPT ![r] = @ + Least(n, left[r])]
          /\ UNCHANGED <<storeVars, chunks, info, deleteVars, reader, start, length, fetched, skip>>
      BY <2>5 DEF Copy
    <3>2. Least(n, left[r]) \in Nat
      BY <2>1, <3>1 DEF Least
    <3>3. /\ pos'[r] = pos[r] + n /\ left'[r] = left[r] - n
          /\ written'[r] = written[r] + Least(n, left[r])
          /\ \A q \in Readers \ {r} :
               pos'[q] = pos[q] /\ left'[q] = left[q] /\ written'[q] = written[q]
      BY <3>1 DEF Inv, TypeOK
    <3>4. TypeOK'
      <4>1. pos' \in [Readers -> 0..size] /\ left' \in [Readers -> Int]
        BY <2>1, <2>3, <3>1 DEF Inv, TypeOK
      <4>2. written' \in [Readers -> Nat]
        BY <2>1, <3>1, <3>2 DEF Inv, TypeOK
      <4> QED BY <3>1, <4>1, <4>2 DEF Inv, TypeOK, storeVars, deleteVars
    <3>5. /\ pos[r] >= start[r] /\ left[r] = length[r] - (pos[r] - start[r])
          /\ written[r] = pos[r] - start[r]
      BY <2>1, <2>2, <3>1 DEF Inv, Serving, Wanted, Least
    <3>6. /\ written'[r] = Least(Wanted(r), pos[r] + n - start[r])
          /\ written'[r] <= Wanted(r)
      BY <2>1, <3>1, <3>3, <3>5 DEF Least, Wanted
    <3>7. pos'[r] >= start[r] /\ left'[r] = length[r] - (pos'[r] - start[r])
      BY <2>1, <3>3, <3>5
    <3>8. Serving(r)'
      BY <2>1, <2>2, <3>1, <3>3, <3>6, <3>7 DEF Serving, Wanted, Least
    <3> QED BY <3>1, <3>3, <3>4, <3>8, ReaderInv
  <2> QED BY <1>11, <2>4, <2>5
<1> QED BY <1>1, <1>2, <1>3, <1>4, <1>5, <1>6, <1>7, <1>8, <1>9, <1>10, <1>11
        DEF ReadStep, CopyStep

\* The invariant holds of every state.
LEMMA Invariant ==
  Spec => []Inv
<1>1. Init => Inv
  BY InitInv
<1>2. Inv /\ [Next]_vars => Inv'
  <2> SUFFICES ASSUME Inv, [Next]_vars PROVE Inv'
    OBVIOUS
  <2>1. CASE UNCHANGED vars
    <3>1. TypeOK' /\ Storing' /\ Deleting'
      BY <2>1 DEF vars, storeVars, deleteVars, readVars, Inv, TypeOK, Storing, Covered, Deleting
    <3>2. \A r \in Readers : Serving(r)'
      BY <2>1, ServingKept DEF vars, storeVars
    <3> QED BY <3>1, <3>2 DEF Inv
  <2> QED BY <2>1, StoreInv, DeleteInv, ReadInv DEF Next
<1> QED BY <1>1, <1>2, PTL DEF Spec

-----------------------------------------------------------------------------

\* Every variable keeps its type: every length is a long, which may have
\* overflowed, and no chunk is written with an end that has.
THEOREM TypeCorrect ==
  Spec => []TypeOK
<1>1. Inv => TypeOK
  BY DEF Inv
<1> QED BY <1>1, Invariant, PTL

\* Meta data are saved only for a blob that is stored whole.
THEOREM WholeWhenSaved ==
  Spec => []StoredWhole
<1>1. Inv => StoredWhole
  BY DEF Inv, Storing, Covered, StoredWhole
<1> QED BY <1>1, Invariant, PTL

\* Deleted meta data leave no chunk behind.
THEOREM NoneOrphaned ==
  Spec => []NothingOrphaned
<1>1. Inv => NothingOrphaned
  BY DEF Inv, Deleting, NothingOrphaned
<1> QED BY <1>1, Invariant, PTL

\* A body never exceeds its header, and a response that was sent has the bytes
\* of its range; nothing is sent for the range whose length overflows a long.
THEOREM BodiesFit ==
  Spec => []BodyFitsHeader
<1>1. Inv => BodyFitsHeader
  <2> SUFFICES ASSUME Inv, NEW r \in Readers
               PROVE  IF length[r] < 0 THEN start[r] = 0 /\ written[r] = 0
                      ELSE /\ written[r] <= length[r]
                           /\ reader[r] = "sent" =>
                                IF start[r] + length[r] <= size
                                THEN written[r] = length[r] /\ pos[r] >= start[r] + length[r]
                                ELSE /\ pos[r] = size
                                     /\ start[r] <= size => written[r] = size - start[r]
    BY DEF BodyFitsHeader
  <2>1. /\ size \in Nat /\ pos[r] \in 0..size /\ start[r] \in Nat /\ written[r] \in Nat
        /\ length[r] \in Int /\ skip[r] \in Nat /\ left[r] \in Int
    BY BlobAssumption DEF Inv, TypeOK
  <2> QED BY <2>1 DEF Inv, Serving, Wanted, Least
<1> QED BY <1>1, Invariant, PTL

=============================================================================
