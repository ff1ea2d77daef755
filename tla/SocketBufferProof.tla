-------------------------- MODULE SocketBufferProof --------------------------
(***************************************************************************)
(* Proofs about SocketBuffer, for every pool, chunk size and payload.      *)
(*                                                                         *)
(* TypeInv is inductive on its own; Inv adds to it that the chunks are     *)
(* partitioned.  PutHasRoom follows from the partition by counting: a      *)
(* queue without repetitions that lacks the writer's chunk is shorter than *)
(* the pool.                                                               *)
(* The later sections build on Inv.  RefInv maps the chunks in use to the  *)
(* pieces of PieceFifo, and each step to a step of that channel; OrderInv  *)
(* is argued on the channel alone.  SourceInv and DatagramInv are about a  *)
(* slot that only UDP sockets use: the stored address is as new as any     *)
(* byte still to be read, and a datagram that fits has a chunk of its own. *)
(***************************************************************************)
EXTENDS SocketBufferRefinement, FiniteSetTheorems, SequenceTheorems, TLAPS

(* The writer holds a chunk exactly between get_chunk() and put_chunk(),   *)
(* and is in its loop only after a URC, with bytes left to queue.          *)
WriterInv ==
    /\ wpc = "put" <=> wchunk # NoChunk
    /\ wpc # "idle" => arrivals # <<>>
    /\ wpc = "put" => offset < Decoded

(* No chunk is read past its size. *)
PositionsInv == \A c \in Chunks : mem[c].position <= Len(mem[c].data)

TypeInv == TypeOK /\ WriterInv /\ PositionsInv /\ ResultFits

(* What receive_into_buffer() copies into a chunk is a sequence of bytes.  *)
LEMMA FillIsContent ==
    ASSUME TypeInv, wpc = "fill", offset < Decoded, NEW b \in BOOLEAN
    PROVE  /\ Len(arrivals) \in Nat /\ Decoded \in Nat /\ ChunkLen \in Nat
           /\ [data |-> [i \in 1..ChunkLen |-> [dg |-> Len(arrivals), idx |-> offset + i]],
               position |-> 0,
               boundary |-> b] \in Content
<1>1. /\ Len(arrivals) \in Nat \ {0} /\ Decoded \in Nat /\ offset \in Nat
  BY EmptySeq, LenProperties DEF TypeInv, TypeOK, WriterInv, Decoded
<1>2. ChunkLen \in Nat
  BY <1>1, SizesAssumption DEF ChunkLen, Least
<1>3. \A i \in 1..ChunkLen : [dg |-> Len(arrivals), idx |-> offset + i] \in Byte
  BY <1>1, <1>2 DEF Byte
<1>4. [i \in 1..ChunkLen |-> [dg |-> Len(arrivals), idx |-> offset + i]] \in Seq(Byte)
  BY <1>2, <1>3
<1> QED
  BY <1>1, <1>2, <1>4 DEF Content

(* A part of a sequence is a sequence of the same elements. *)
LEMMA PartOfSeq ==
    ASSUME NEW S, NEW s \in Seq(S), NEW m \in Nat \ {0}, NEW n \in Nat,
           m <= n + 1, n <= Len(s)
    PROVE  SubSeq(s, m, n) \in Seq(S) /\ Len(SubSeq(s, m, n)) = (n + 1) - m
<1>1. Len(s) \in Nat /\ m \in Int /\ n \in Int
  BY LenProperties
<1>2. \A i \in m..n : s[i] \in S
  BY <1>1, ElementOfSeq
<1>3. /\ SubSeq(s, m, n) \in Seq(S)
      /\ Len(SubSeq(s, m, n)) = IF m <= n THEN n - m + 1 ELSE 0
  BY <1>1, <1>2, SubSeqProperties
<1> QED
  BY <1>1, <1>3

(* The unread rest of a chunk, and any prefix of it, are bytes. *)
LEMMA UnreadIsBytes ==
    ASSUME TypeInv, NEW c \in Chunks
    PROVE  /\ Len(mem[c].data) \in Nat /\ mem[c].position \in Nat
           /\ Unread(c) \in Seq(Byte)
           /\ Len(Unread(c)) \in Nat
           /\ Len(Unread(c)) = Len(mem[c].data) - mem[c].position
           /\ \A n \in Nat : n <= Len(Unread(c)) =>
                 /\ SubSeq(Unread(c), 1, n) \in Seq(Byte)
                 /\ Len(SubSeq(Unread(c), 1, n)) = n
<1>1. /\ mem[c].data \in Seq(Byte) /\ mem[c].position \in Nat
      /\ mem[c].position <= Len(mem[c].data) /\ Len(mem[c].data) \in Nat
  BY LenProperties DEF TypeInv, TypeOK, PositionsInv, Content
<1>2. /\ mem[c].position + 1 \in Nat \ {0}
      /\ mem[c].position + 1 <= Len(mem[c].data) + 1
  BY <1>1
<1>3. /\ Unread(c) \in Seq(Byte)
      /\ Len(Unread(c)) = (Len(mem[c].data) + 1) - (mem[c].position + 1)
  BY <1>1, <1>2, PartOfSeq DEF Unread
<1>4. ASSUME NEW n \in Nat, n <= Len(Unread(c))
      PROVE  /\ SubSeq(Unread(c), 1, n) \in Seq(Byte)
             /\ Len(SubSeq(Unread(c), 1, n)) = n
  <2>1. /\ SubSeq(Unread(c), 1, n) \in Seq(Byte)
        /\ Len(SubSeq(Unread(c), 1, n)) = (n + 1) - 1
    BY <1>3, <1>4, PartOfSeq
  <2> QED
    BY <2>1
<1>5. /\ Len(Unread(c)) \in Nat
      /\ Len(Unread(c)) = Len(mem[c].data) - mem[c].position
  BY <1>1, <1>3
<1>6. \A n \in Nat : n <= Len(Unread(c)) =>
        /\ SubSeq(Unread(c), 1, n) \in Seq(Byte)
        /\ Len(SubSeq(Unread(c), 1, n)) = n
  BY <1>4
<1> QED
  BY <1>1, <1>3, <1>5, <1>6, Zenon

-----------------------------------------------------------------------------
(* Type correctness.                                                       *)

(* The initial state is typed and its writer and positions are consistent. *)
LEMMA TypeInit == Init => TypeInv
<1> SUFFICES ASSUME Init PROVE TypeInv
  OBVIOUS
<1>1. TypeOK
  BY EmptySeq, ChunksAssumption DEF Init, TypeOK, Content, NoAddress
<1>2. WriterInv /\ ResultFits
  BY DEF Init, WriterInv, ResultFits
<1>3. PositionsInv
  BY DEF Init, PositionsInv
<1> QED
  BY <1>1, <1>2, <1>3 DEF TypeInv

(* A step of the +QIURC "recv" handler keeps the types.                    *)
LEMMA TypeWriter ==
    ASSUME TypeInv, Writer
    PROVE  TypeInv'
<1> USE DEF TypeInv
<1>1. ASSUME NEW len \in UrcLens, UrcRecv(len)
      PROVE  TypeInv'
  <2>1. Least(len, RecvBufSize) \in Nat
    BY SizesAssumption DEF Least
  <2>2. arrivals' \in Seq(Nat) /\ arrivals' # <<>>
    <3>1. arrivals \in Seq(Nat) /\ arrivals' = Append(arrivals, Least(len, RecvBufSize))
      BY <1>1 DEF UrcRecv, TypeOK
    <3>2. \A n \in Nat : Append(arrivals, n) \in Seq(Nat) /\ Append(arrivals, n) # <<>>
      BY <3>1, AppendProperties
    <3> QED
      BY <2>1, <3>1, <3>2
  <2>3. TypeOK'
    BY <1>1, <2>2 DEF UrcRecv, TypeOK, readerVars
  <2>4. WriterInv' /\ PositionsInv' /\ ResultFits'
    BY <1>1, <2>2 DEF UrcRecv, TypeOK, WriterInv, PositionsInv, ResultFits, readerVars
  <2> QED
    BY <2>3, <2>4
<1>2. CASE SetSourceHost \/ SetSourcePort
  <2>1. Len(arrivals) \in Nat
    BY LenProperties DEF TypeOK
  <2>2. TypeOK'
    BY <1>2, <2>1 DEF SetSourceHost, SetSourcePort, TypeOK, readerVars
  <2>3. WriterInv' /\ PositionsInv' /\ ResultFits'
    BY <1>2 DEF SetSourceHost, SetSourcePort, WriterInv, PositionsInv, ResultFits, readerVars
  <2> QED
    BY <2>2, <2>3
<1>3. CASE GetChunk
  <2> DEFINE filled == [data |-> [i \in 1..ChunkLen |-> [dg |-> Len(arrivals), idx |-> offset + i]],
                        position |-> 0,
                        boundary |-> IsLastChunk]
  <2>1. PICK c \in mpool : wchunk' = c /\ mpool' = mpool \ {c} /\ mem' = [mem EXCEPT ![c] = filled]
    BY <1>3 DEF GetChunk
  <2>2. filled \in Content
    BY <1>3, FillIsContent DEF GetChunk, IsLastChunk
  <2>3. c \in Chunks /\ c # NoChunk
    BY <2>1, ChunksAssumption DEF TypeOK
  <2>4. mem' \in [Chunks -> Content]
    BY <2>1, <2>2 DEF TypeOK
  <2>5. TypeOK'
    BY <1>3, <2>1, <2>3, <2>4 DEF GetChunk, TypeOK, readerVars
  <2>6. WriterInv'
    BY <1>3, <2>1, <2>3 DEF GetChunk, WriterInv, Decoded
  <2>7. PositionsInv'
    <3>1. \A x \in Chunks : mem'[x] = IF x = c THEN filled ELSE mem[x]
      BY <2>1 DEF TypeOK
    <3>2. filled.position = 0
      OBVIOUS
    <3> HIDE DEF filled
    <3>3. Len(filled.data) \in Nat
      BY <2>2, LenProperties DEF Content
    <3>4. filled.position <= Len(filled.data)
      BY <3>2, <3>3
    <3> QED
      BY <3>1, <3>4 DEF PositionsInv
  <2>8. ResultFits'
    BY <1>3 DEF GetChunk, ResultFits, readerVars
  <2> QED
    BY <2>5, <2>6, <2>7, <2>8
<1>4. CASE PutChunk
  <2>1. wchunk \in Chunks /\ offset < Decoded /\ Decoded \in Nat
    BY <1>4, EmptySeq, LenProperties DEF PutChunk, WriterInv, TypeOK, Decoded
  <2>2. recvData' \in Seq(Chunks)
    BY <1>4, <2>1, AppendProperties DEF PutChunk, TypeOK
  <2>3. offset' \in Nat
    BY <1>4, <2>1, SizesAssumption DEF PutChunk, TypeOK, ChunkLen, Least
  <2>4. TypeOK'
    BY <1>4, <2>2, <2>3 DEF PutChunk, TypeOK, readerVars
  <2>5. WriterInv' /\ PositionsInv' /\ ResultFits'
    BY <1>4 DEF PutChunk, WriterInv, PositionsInv, ResultFits, readerVars
  <2> QED
    BY <2>4, <2>5
<1>5. CASE UrcDone
  BY <1>5 DEF UrcDone, TypeOK, WriterInv, PositionsInv, ResultFits, readerVars
<1> QED
  BY <1>1, <1>2, <1>3, <1>4, <1>5 DEF Writer

(* A step of get_data() or get_datagram() keeps the types.                 *)
LEMMA TypeReader ==
    ASSUME TypeInv, ReaderStep \/ \E size \in ReadSizes : Recv(size)
    PROVE  TypeInv'
<1> USE DEF TypeInv
<1>0. Len(result) \in Nat /\ rsize \in Nat /\ Remaining \in Nat
  BY LenProperties DEF TypeOK, ResultFits, Remaining
<1>1. ASSUME NEW size \in ReadSizes, Recv(size)
      PROVE  TypeInv'
  BY <1>1, EmptySeq, SizesAssumption
     DEF Recv, TypeOK, WriterInv, PositionsInv, ResultFits, writerVars, Decoded
<1>2. CASE LoadChunk
  <2>1. Head(recvData) \in Chunks /\ Tail(recvData) \in Seq(Chunks)
    BY <1>2, HeadTailProperties DEF LoadChunk, TypeOK
  <2>2. TypeOK'
    BY <1>2, <2>1 DEF LoadChunk, TypeOK, writerVars, readerVars
  <2>3. WriterInv' /\ PositionsInv' /\ ResultFits'
    BY <1>2 DEF LoadChunk, WriterInv, PositionsInv, ResultFits, writerVars, readerVars, Decoded
  <2> QED
    BY <2>2, <2>3
<1>3. ASSUME NEW c \in Chunks, NEW n \in Nat, NEW k \in Nat,
             n <= Len(Unread(c)), n <= Remaining, k <= Len(Unread(c)),
             result' = result \o SubSeq(Unread(c), 1, n),
             mem' = [mem EXCEPT ![c].position = mem[c].position + k],
             rsize' = rsize
      PROVE  /\ result' \in Seq(Byte) /\ ResultFits'
             /\ mem' \in [Chunks -> Content] /\ PositionsInv'
  <2>1. SubSeq(Unread(c), 1, n) \in Seq(Byte) /\ Len(SubSeq(Unread(c), 1, n)) = n
    BY <1>3, UnreadIsBytes
  <2>2. result' \in Seq(Byte) /\ Len(result') = Len(result) + n
    BY <1>3, <2>1, ConcatProperties DEF TypeOK
  <2>3. ResultFits'
    BY <1>0, <1>3, <2>2 DEF ResultFits, Remaining
  <2>4. /\ mem[c].position + k \in Nat
        /\ mem[c].position + k <= Len(mem[c].data)
    BY <1>3, UnreadIsBytes
  <2>5. mem' \in [Chunks -> Content]
    BY <1>3, <2>4 DEF TypeOK, Content
  <2>6. \A x \in Chunks : /\ mem'[x].data = mem[x].data
                          /\ mem'[x].position = IF x = c THEN mem[c].position + k ELSE mem[x].position
    BY <1>3 DEF TypeOK, Content
  <2>7. PositionsInv'
    BY <2>4, <2>6 DEF PositionsInv
  <2> QED
    BY <2>2, <2>3, <2>5, <2>7
<1>4. CASE ConsumeDatagramChunk
  <2> DEFINE n == Least(Remaining, Len(Unread(current)))
         k == Len(Unread(current))
  <2>1. current \in Chunks
    BY <1>4 DEF ConsumeDatagramChunk, TypeOK
  <2>2. /\ Len(Unread(current)) \in Nat
        /\ mem[current].position + Len(Unread(current)) = Len(mem[current].data)
    BY <2>1, UnreadIsBytes
  <2>3. n \in Nat /\ n <= Len(Unread(current)) /\ n <= Remaining
    BY <1>0, <2>2 DEF Least
  <2>4. /\ result' = result \o SubSeq(Unread(current), 1, n)
        /\ mem' = [mem EXCEPT ![current].position = mem[current].position + k]
        /\ rsize' = rsize
    BY <1>4, <2>2 DEF ConsumeDatagramChunk
  <2> HIDE DEF n
  <2>5. k \in Nat /\ k <= Len(Unread(current))
    BY <2>2
  <2> HIDE DEF k
  <2>8. /\ result' \in Seq(Byte) /\ ResultFits'
        /\ mem' \in [Chunks -> Content] /\ PositionsInv'
    BY <1>3, <2>1, <2>3, <2>4, <2>5
  <2>6. TypeOK'
    BY <1>4, <2>1, <2>8 DEF ConsumeDatagramChunk, FreeCurrent, TypeOK, writerVars
  <2>7. WriterInv'
    BY <1>4 DEF ConsumeDatagramChunk, WriterInv, writerVars, Decoded
  <2> QED
    BY <2>6, <2>7, <2>8
<1>5. CASE ConsumeData
  <2> DEFINE n == Least(Remaining, Len(Unread(current)))
  <2>1. current \in Chunks
    BY <1>5 DEF ConsumeData, TypeOK
  <2>2. Len(Unread(current)) \in Nat
    BY <2>1, UnreadIsBytes
  <2>3. n \in Nat /\ n <= Len(Unread(current)) /\ n <= Remaining
    BY <1>0, <2>2 DEF Least
  <2>4. /\ result' = result \o SubSeq(Unread(current), 1, n)
        /\ mem' = [mem EXCEPT ![current].position = mem[current].position + n]
        /\ rsize' = rsize
    BY <1>5 DEF ConsumeData
  <2>5. /\ result' \in Seq(Byte) /\ ResultFits'
        /\ mem' \in [Chunks -> Content] /\ PositionsInv'
    BY <1>3, <2>1, <2>2, <2>3, <2>4
  <2>6. TypeOK'
    BY <1>5, <2>1, <2>5 DEF ConsumeData, FreeCurrent, TypeOK, writerVars
  <2>7. WriterInv'
    BY <1>5 DEF ConsumeData, WriterInv, writerVars, Decoded
  <2> QED
    BY <2>5, <2>6, <2>7
<1>6. CASE ReadEnd
  BY <1>6 DEF ReadEnd, TypeOK, WriterInv, PositionsInv, ResultFits, writerVars, Decoded
<1>7. CASE CopySourceHost \/ CopySourcePort
  BY <1>7 DEF CopySourceHost, CopySourcePort, TypeOK, WriterInv, PositionsInv, ResultFits,
              writerVars, Decoded
<1> QED
  BY <1>1, <1>2, <1>4, <1>5, <1>6, <1>7 DEF ReaderStep

(* So does every step, flush and reuse of the slot included.               *)
LEMMA TypeStep == TypeInv /\ [Next]_vars => TypeInv'
<1> SUFFICES ASSUME TypeInv, [Next]_vars PROVE TypeInv'
  OBVIOUS
<1>1. CASE Flush
  <2>1. recvData' \in Seq(Chunks)
    BY <1>1, EmptySeq DEF Flush
  <2>2. QueuedChunks \subseteq Chunks
    BY LenProperties DEF TypeInv, TypeOK, QueuedChunks
  <2>3. TypeOK'
    BY <1>1, <2>1, <2>2 DEF Flush, TypeInv, TypeOK, writerVars, readerVars
  <2>4. WriterInv' /\ PositionsInv' /\ ResultFits'
    BY <1>1 DEF Flush, TypeInv, WriterInv, PositionsInv, ResultFits, writerVars, readerVars, Decoded
  <2> QED
    BY <2>3, <2>4 DEF TypeInv
<1>2. ASSUME NEW k \in Kinds, Reopen(k)
      PROVE  TypeInv'
  BY <1>2 DEF Reopen, TypeInv, TypeOK, WriterInv, PositionsInv, ResultFits, writerVars, readerVars, Decoded
<1>3. CASE UNCHANGED vars
  BY <1>3 DEF vars, TypeInv, TypeOK, WriterInv, PositionsInv, ResultFits, writerVars, readerVars, Decoded
<1> QED
  BY <1>1, <1>2, <1>3, TypeWriter, TypeReader DEF Next

(* The variables keep their types, the writer's chunk and offset stay      *)
(* consistent and no read runs past a chunk or past the caller's buffer.   *)
THEOREM TypeInvariant == Spec => []TypeInv
BY TypeInit, TypeStep, PTL DEF Spec

(* The variables keep their types in every instance.                       *)
THEOREM TypeCorrect == Spec => []TypeOK
BY TypeInvariant, PTL DEF TypeInv

(* get_data() and get_datagram() never write past the caller's buffer.     *)
THEOREM ReadsFit == Spec => []ResultFits
BY TypeInvariant, PTL DEF TypeInv

-----------------------------------------------------------------------------
(* Conservation of chunks.                                                 *)

Inv == TypeInv /\ ChunksPartitioned

(* By counting: the queue holds no chunk twice and not the writer's.       *)
LEMMA RoomForWriter == Inv => PutHasRoom
<1> SUFFICES ASSUME Inv, wchunk # NoChunk PROVE Len(recvData) < Cardinality(Chunks)
  BY DEF PutHasRoom, QueueDepth
<1> DEFINE n == Len(recvData)
           others == Chunks \ {wchunk}
<1>1. n \in Nat /\ recvData \in [1..n -> Chunks] /\ DOMAIN recvData = 1..n /\ wchunk \in Chunks
  BY LenProperties DEF Inv, TypeInv, TypeOK
<1>2. \A i \in 1..n : recvData[i] # wchunk
  BY <1>1 DEF Inv, ChunksPartitioned, QueuedChunks, Owned
<1>3. recvData \in [1..n -> others]
  BY <1>1, <1>2
<1>4. \A i, j \in 1..n : recvData[i] = recvData[j] => i = j
  BY <1>1 DEF Inv, ChunksPartitioned, QueueInjective
<1>5. recvData \in Injection(1..n, others)
  BY <1>3, <1>4 DEF Injection, IsInjective
<1>6. /\ IsFiniteSet(others) /\ Cardinality(others) = Cardinality(Chunks) - 1
      /\ Cardinality(Chunks) \in Nat
  BY <1>1, ChunksAssumption, FS_RemoveElement, FS_CardinalityType
<1>7. Cardinality(1..n) <= Cardinality(others)
  BY <1>5, <1>6, FS_Injection
<1>8. Cardinality(1..n) = n
  BY <1>1, FS_Interval
<1> QED
  BY <1>1, <1>6, <1>7, <1>8

(* Putting a chunk that is not queued adds just it to the queued ones.     *)
LEMMA QueueAppend ==
    ASSUME NEW q \in Seq(Chunks), NEW c \in Chunks
    PROVE  /\ DOMAIN Append(q, c) = DOMAIN q \cup {Len(q) + 1}
           /\ Len(q) + 1 \notin DOMAIN q
           /\ \A i \in DOMAIN q : Append(q, c)[i] = q[i]
           /\ Append(q, c)[Len(q) + 1] = c
<1>1. Len(q) \in Nat /\ DOMAIN q = 1..Len(q)
  BY LenProperties
<1>2. /\ Append(q, c) \in Seq(Chunks)
      /\ Len(Append(q, c)) = Len(q) + 1
      /\ \A i \in 1..Len(q) : Append(q, c)[i] = q[i]
      /\ Append(q, c)[Len(q) + 1] = c
  BY AppendProperties
<1>3. DOMAIN Append(q, c) = 1..(Len(q) + 1)
  BY <1>2, LenProperties
<1> QED
  BY <1>1, <1>2, <1>3

(* Getting the oldest chunk removes just it from the queued ones.          *)
LEMMA QueueTail ==
    ASSUME NEW q \in Seq(Chunks), q # <<>>
    PROVE  /\ 1 \in DOMAIN q /\ Head(q) = q[1]
           /\ \A i \in DOMAIN Tail(q) : i + 1 \in DOMAIN q /\ i + 1 # 1 /\ Tail(q)[i] = q[i + 1]
           /\ \A j \in DOMAIN q \ {1} : j - 1 \in DOMAIN Tail(q)
           /\ \A i, j \in DOMAIN Tail(q) : i + 1 = j + 1 => i = j
<1>1. Len(q) \in Nat \ {0} /\ DOMAIN q = 1..Len(q)
  BY EmptySeq, LenProperties
<1>2. /\ Tail(q) \in Seq(Chunks)
      /\ Len(Tail(q)) = Len(q) - 1
      /\ \A i \in 1..Len(Tail(q)) : Tail(q)[i] = q[i + 1]
  BY HeadTailProperties
<1>3. DOMAIN Tail(q) = 1..(Len(q) - 1)
  BY <1>2, LenProperties
<1>4. Head(q) = q[1]
  OBVIOUS
<1> QED
  BY <1>1, <1>2, <1>3, <1>4

(* Every step keeps every chunk in exactly one place.                      *)
LEMMA PartitionStep == Inv /\ [Next]_vars => ChunksPartitioned'
<1> SUFFICES ASSUME Inv, [Next]_vars PROVE ChunksPartitioned'
  OBVIOUS
<1> USE DEF Inv
<1>0. /\ recvData \in Seq(Chunks) /\ mpool \subseteq Chunks
      /\ current \in Chunks \cup {NoChunk} /\ wchunk \in Chunks \cup {NoChunk}
      /\ NoChunk \notin Chunks
      /\ wpc = "put" <=> wchunk # NoChunk
  BY ChunksAssumption DEF TypeInv, TypeOK, WriterInv
<1>1. ASSUME UNCHANGED <<mpool, recvData, current, wchunk>>
      PROVE  ChunksPartitioned'
  BY <1>1 DEF ChunksPartitioned, QueueInjective, QueuedChunks, Owned
<1>2. CASE GetChunk
  <2>1. PICK c \in mpool : wchunk' = c /\ mpool' = mpool \ {c}
    BY <1>2 DEF GetChunk
  <2>2. UNCHANGED <<recvData, current>> /\ wchunk = NoChunk
    BY <1>0, <1>2 DEF GetChunk
  <2>3. QueueInjective' /\ QueuedChunks' = QueuedChunks
    BY <2>2 DEF ChunksPartitioned, QueueInjective, QueuedChunks
  <2>4. Owned' = Owned \cup {c} /\ c \in Chunks /\ c \notin QueuedChunks /\ c # current
    BY <1>0, <2>1, <2>2 DEF ChunksPartitioned, Owned
  <2> QED
    BY <2>1, <2>2, <2>3, <2>4 DEF ChunksPartitioned
<1>3. CASE PutChunk
  <2>1. /\ wchunk \in Chunks /\ wchunk # NoChunk /\ wchunk' = NoChunk
        /\ UNCHANGED <<mpool, current>>
    BY <1>0, <1>3 DEF PutChunk
  <2>2. recvData' = Append(recvData, wchunk)
    BY <1>3, <2>1, RoomForWriter DEF PutChunk, PutHasRoom
  <2>3. /\ DOMAIN recvData' = DOMAIN recvData \cup {Len(recvData) + 1}
        /\ Len(recvData) + 1 \notin DOMAIN recvData
        /\ \A i \in DOMAIN recvData : recvData'[i] = recvData[i]
        /\ recvData'[Len(recvData) + 1] = wchunk
    BY <1>0, <2>1, <2>2, QueueAppend
  <2>4. wchunk \notin QueuedChunks /\ wchunk \notin mpool /\ wchunk # current
    BY <2>1 DEF ChunksPartitioned, Owned
  <2>5. QueuedChunks' = QueuedChunks \cup {wchunk}
    BY <2>3 DEF QueuedChunks
  <2>6. QueueInjective'
    BY <2>3, <2>4 DEF ChunksPartitioned, QueueInjective, QueuedChunks
  <2>7. Owned' = Owned \ {wchunk}
    BY <2>1, <2>4 DEF Owned
  <2> QED
    BY <2>1, <2>4, <2>5, <2>6, <2>7 DEF ChunksPartitioned, Owned
<1>4. CASE LoadChunk
  <2>1. /\ current = NoChunk /\ recvData # <<>>
        /\ current' = Head(recvData) /\ recvData' = Tail(recvData)
        /\ UNCHANGED <<mpool, wchunk>>
    BY <1>4 DEF LoadChunk, writerVars
  <2>2. /\ 1 \in DOMAIN recvData /\ current' = recvData[1]
        /\ \A i \in DOMAIN recvData' :
              i + 1 \in DOMAIN recvData /\ i + 1 # 1 /\ recvData'[i] = recvData[i + 1]
        /\ \A j \in DOMAIN recvData \ {1} : j - 1 \in DOMAIN recvData' /\ recvData'[j - 1] = recvData[j]
        /\ \A i, j \in DOMAIN recvData' : i + 1 = j + 1 => i = j
    BY <1>0, <2>1, QueueTail
  <2>3. QueueInjective'
    BY <2>2 DEF ChunksPartitioned, QueueInjective
  <2>4. QueuedChunks' = QueuedChunks \ {current'} /\ current' \in QueuedChunks
    BY <2>2 DEF ChunksPartitioned, QueueInjective, QueuedChunks
  <2>5. current' \in Chunks /\ current' # NoChunk /\ current' # wchunk /\ current' \notin mpool
    BY <1>0, <2>1, <2>4 DEF ChunksPartitioned, Owned
  <2>6. Owned' = Owned \cup {current'}
    BY <2>1, <2>5 DEF Owned
  <2> QED
    BY <2>1, <2>3, <2>4, <2>5, <2>6 DEF ChunksPartitioned
<1>5. ASSUME FreeCurrent, current # NoChunk, UNCHANGED <<recvData, wchunk>>
      PROVE  ChunksPartitioned'
  <2>1. QueueInjective' /\ QueuedChunks' = QueuedChunks
    BY <1>5 DEF ChunksPartitioned, QueueInjective, QueuedChunks
  <2>2. Owned' = Owned \ {current} /\ current \notin QueuedChunks /\ current # wchunk
    BY <1>5 DEF FreeCurrent, ChunksPartitioned, Owned
  <2> QED
    BY <1>0, <1>5, <2>1, <2>2 DEF FreeCurrent, ChunksPartitioned, Owned
<1>6. CASE ConsumeDatagramChunk
  BY <1>5, <1>6 DEF ConsumeDatagramChunk, writerVars
<1>7. CASE ConsumeData
  BY <1>1, <1>5, <1>7 DEF ConsumeData, writerVars
<1>8. CASE Flush
  <2>1. /\ recvData' = <<>> /\ current' = NoChunk /\ wchunk' = wchunk
        /\ mpool' = mpool \cup QueuedChunks \cup (IF current = NoChunk THEN {} ELSE {current})
    BY <1>8 DEF Flush, writerVars
  <2>2. QueuedChunks' = {} /\ QueueInjective'
    BY <2>1 DEF QueuedChunks, QueueInjective
  <2> QED
    BY <1>0, <2>1, <2>2 DEF ChunksPartitioned, Owned
<1> QED
  BY <1>1, <1>2, <1>3, <1>4, <1>6, <1>7, <1>8
     DEF Next, Writer, ReaderStep, vars, UrcRecv, SetSourceHost, SetSourcePort, UrcDone, Recv,
         ReadEnd, CopySourceHost, CopySourcePort, Reopen, writerVars, readerVars

(* At the start every chunk is free.                                       *)
LEMMA PartitionInit == Init => ChunksPartitioned
BY DEF Init, ChunksPartitioned, QueueInjective, QueuedChunks, Owned

(* Types and the partition of the chunks hold together: the inductive      *)
(* invariant behind the two theorems below.                                *)
THEOREM InvInvariant == Spec => []Inv
<1>1. Init => Inv
  BY TypeInit, PartitionInit DEF Inv
<1>2. Inv /\ [Next]_vars => Inv'
  BY TypeStep, PartitionStep DEF Inv
<1> QED
  BY <1>1, <1>2, PTL DEF Spec

(* No interleaving of the URC handler, recv() and flush() loses a chunk,   *)
(* queues one twice or lets the writer refill one that is still unread.    *)
THEOREM Conservation == Spec => []ChunksPartitioned
BY InvInvariant, PTL DEF Inv

(* put_chunk() may ignore try_put()'s result: it cannot fail.              *)
THEOREM QueueNeverFull == Spec => []PutHasRoom
BY InvInvariant, RoomForWriter, PTL

-----------------------------------------------------------------------------
(* get_data() ends.                                                        *)

(* A chunk that is not free has bytes to read, and only a UDP reader       *)
(* copies an address.                                                      *)
UnreadInv == \A c \in Chunks \ mpool : mem[c].position < Len(mem[c].data)

AddressOfUdp == rpc \in {"host", "port"} => kind = "UDP"

(* A chunk is filled with a byte at least, and leaves its place for the    *)
(* pool when its last byte is read.                                        *)
LEMMA UnreadStep == Inv /\ UnreadInv /\ [Next]_vars => UnreadInv'
<1> SUFFICES ASSUME Inv, UnreadInv, [Next]_vars PROVE UnreadInv'
  OBVIOUS
<1>0. /\ mem \in [Chunks -> Content] /\ mpool \subseteq Chunks
      /\ current \in Chunks \cup {NoChunk}
  BY DEF Inv, TypeInv, TypeOK
<1>1. ASSUME mem' = mem, mpool \subseteq mpool'
      PROVE  UnreadInv'
  BY <1>1 DEF UnreadInv
<1>2. CASE GetChunk
  <2>1. /\ Len(arrivals) \in Nat /\ Decoded \in Nat /\ ChunkLen \in Nat /\ offset \in Nat
        /\ offset < Decoded
    BY <1>2, FillIsContent DEF GetChunk, Inv, TypeInv, TypeOK
  <2>2. ChunkLen > 0
    BY <2>1, SizesAssumption DEF ChunkLen, Least
  <2> DEFINE filled == [data |-> [i \in 1..ChunkLen |-> [dg |-> Len(arrivals), idx |-> offset + i]],
                        position |-> 0,
                        boundary |-> IsLastChunk]
  <2>3. PICK c \in mpool : mpool' = mpool \ {c} /\ mem' = [mem EXCEPT ![c] = filled]
    BY <1>2 DEF GetChunk
  <2>4. Len(filled.data) = ChunkLen /\ filled.position = 0
    BY <2>1
  <2> HIDE DEF filled
  <2>5. c \in Chunks /\ mem'[c] = filled /\ \A x \in Chunks \ {c} : mem'[x] = mem[x]
    BY <1>0, <2>3
  <2>6. \A x \in Chunks \ mpool' : x = c \/ x \in Chunks \ mpool
    BY <2>3
  <2> QED
    BY <2>1, <2>2, <2>4, <2>5, <2>6 DEF UnreadInv
<1>3. CASE ConsumeDatagramChunk
  <2>1. mpool' = mpool \cup {current} /\ \A x \in Chunks \ {current} : mem'[x] = mem[x]
    BY <1>0, <1>3 DEF ConsumeDatagramChunk, FreeCurrent
  <2> QED
    BY <2>1 DEF UnreadInv
<1>4. CASE ConsumeData
  <2> DEFINE n == Least(Remaining, Len(Unread(current)))
  <2>1. current \in Chunks
    BY <1>0, <1>4 DEF ConsumeData
  <2>2. /\ Len(Unread(current)) \in Nat /\ mem[current].position \in Nat
        /\ Len(Unread(current)) = Len(mem[current].data) - mem[current].position
    BY <2>1, UnreadIsBytes DEF Inv
  <2>3. Remaining \in Nat
    BY LenProperties DEF Inv, TypeInv, TypeOK, ResultFits, Remaining
  <2>4. n \in Nat /\ n <= Len(Unread(current))
    BY <2>2, <2>3 DEF Least
  <2>5. /\ mem' = [mem EXCEPT ![current].position = @ + n]
        /\ IF n = Len(Unread(current)) THEN FreeCurrent ELSE mpool' = mpool
    BY <1>4 DEF ConsumeData
  <2> HIDE DEF n
  <2>6. /\ \A x \in Chunks \ {current} : mem'[x] = mem[x]
        /\ mem'[current].position = mem[current].position + n
        /\ mem'[current].data = mem[current].data
    BY <1>0, <2>1, <2>5 DEF Content
  <2>7. CASE n = Len(Unread(current))
    <3>1. mpool' = mpool \cup {current}
      BY <2>5, <2>7 DEF FreeCurrent
    <3> QED
      BY <2>6, <3>1 DEF UnreadInv
  <2>8. CASE n # Len(Unread(current))
    <3>1. mem'[current].position < Len(mem'[current].data)
      BY <2>2, <2>4, <2>6, <2>8, UnreadIsBytes
    <3>2. mpool' = mpool
      BY <2>5, <2>8
    <3> QED
      BY <2>6, <3>1, <3>2 DEF UnreadInv
  <2> QED
    BY <2>7, <2>8
<1> QED
  BY <1>1, <1>2, <1>3, <1>4
     DEF Next, Writer, ReaderStep, vars, UrcRecv, SetSourceHost, SetSourcePort, UrcDone, PutChunk,
         LoadChunk, Recv, ReadEnd, CopySourceHost, CopySourcePort, Flush, Reopen, writerVars,
         readerVars

(* The kind of socket does not change during a call.                       *)
LEMMA AddressStep == AddressOfUdp /\ [Next]_vars => AddressOfUdp'
BY DEF AddressOfUdp, Next, Writer, ReaderStep, vars, UrcRecv, SetSourceHost, SetSourcePort, GetChunk,
       UrcDone, PutChunk, LoadChunk, Recv, ReadEnd, ConsumeData, ConsumeDatagramChunk,
       CopySourceHost, CopySourcePort, Flush, Reopen, writerVars, readerVars

(* Each step of get_data() lowers the measure.                             *)
LEMMA ReaderDescends ==
    ASSUME Inv, UnreadInv, AddressOfUdp, kind # "UDP", rpc # "idle", ReaderStep
    PROVE  StepsLeft' \in 0..(StepsLeft - 1)
<1>0. /\ rsize \in Nat /\ Len(result) \in Nat /\ Remaining \in Nat
      /\ Remaining = rsize - Len(result)
      /\ current \in Chunks \cup {NoChunk} /\ NoChunk \notin Chunks
  BY LenProperties, ChunksAssumption DEF Inv, TypeInv, TypeOK, ResultFits, Remaining
<1>1. CASE LoadChunk
  <2>1. /\ current = NoChunk /\ current' # NoChunk
        /\ UNCHANGED <<rpc, rsize, result>>
    <3>1. current = NoChunk /\ current' = Head(recvData) /\ recvData # <<>>
          /\ recvData \in Seq(Chunks)
      BY <1>1 DEF LoadChunk, Inv, TypeInv, TypeOK
    <3>2. Head(recvData) \in Chunks
      BY <3>1, HeadTailProperties
    <3> QED
      BY <1>0, <1>1, <3>1, <3>2 DEF LoadChunk, readerVars
  <2> QED
    BY <1>0, <2>1 DEF StepsLeft, Remaining
<1>2. CASE ConsumeData
  <2> DEFINE n == Least(Remaining, Len(Unread(current)))
  <2>1. /\ current \in Chunks /\ current # NoChunk
        /\ Remaining # 0
    BY <1>0, <1>2 DEF ConsumeData, Satisfied
  <2>2. Len(Unread(current)) \in Nat \ {0}
    <3>1. current \notin mpool
      BY <2>1 DEF Inv, ChunksPartitioned, Owned
    <3> QED
      BY <2>1, <3>1, UnreadIsBytes DEF Inv, UnreadInv
  <2>3. n \in Nat \ {0} /\ n <= Remaining /\ n <= Len(Unread(current))
    BY <1>0, <2>1, <2>2 DEF Least
  <2>4. result' = result \o SubSeq(Unread(current), 1, n) /\ UNCHANGED <<rpc, rsize>>
    BY <1>2 DEF ConsumeData
  <2> HIDE DEF n
  <2>5. SubSeq(Unread(current), 1, n) \in Seq(Byte) /\ Len(SubSeq(Unread(current), 1, n)) = n
    BY <2>1, <2>3, UnreadIsBytes DEF Inv
  <2>6. Len(result') = Len(result) + n
    BY <2>4, <2>5, ConcatProperties DEF Inv, TypeInv, TypeOK
  <2>7. StepsLeft = 1 + 2 * Remaining
    BY <1>0, <2>1 DEF StepsLeft
  <2>8. StepsLeft' = 1 + 2 * (Remaining - n) + (IF current' = NoChunk THEN 1 ELSE 0)
    <3>1. Remaining' = Remaining - n /\ rpc' # "idle"
      BY <1>0, <2>3, <2>4, <2>6 DEF Remaining
    <3> QED
      BY <3>1 DEF StepsLeft
  <2> QED
    BY <1>0, <2>3, <2>7, <2>8
<1>3. CASE ReadEnd
  BY <1>0, <1>3 DEF ReadEnd, StepsLeft
<1> QED
  BY <1>1, <1>2, <1>3
     DEF ReaderStep, ConsumeDatagramChunk, CopySourceHost, CopySourcePort, AddressOfUdp

(* Nobody else changes it.                                                 *)
LEMMA OthersKeepSteps ==
    ASSUME kind # "UDP", rpc # "idle", [Next]_vars, ~ReaderStep
    PROVE  StepsLeft' = StepsLeft
<1>1. UNCHANGED <<rpc, rsize, result, current>>
  BY DEF Next, Writer, vars, UrcRecv, SetSourceHost, SetSourcePort, GetChunk, UrcDone, PutChunk,
         Recv, Flush, Reopen, readerVars
<1> QED
  BY <1>1 DEF StepsLeft, Remaining

(* A get_data() takes at most 2 * size + 2 steps, whatever is queued       *)
(* meanwhile.                                                              *)
THEOREM ReadsEnd == Spec => ReadDescends
<1>1. Init => UnreadInv /\ AddressOfUdp
  BY DEF Init, UnreadInv, AddressOfUdp
<1>2. Inv /\ UnreadInv /\ AddressOfUdp /\ [Next]_vars
      => [(kind # "UDP" /\ rpc # "idle")
            => IF ReaderStep THEN StepsLeft' \in 0..(StepsLeft - 1) ELSE StepsLeft' = StepsLeft]_vars
  BY ReaderDescends, OthersKeepSteps
<1> QED
  BY <1>1, <1>2, UnreadStep, AddressStep, InvInvariant, PTL DEF Spec, ReadDescends

-----------------------------------------------------------------------------
(* SocketBuffer implements PieceFifo.                                      *)

(* What the writer is about to queue is what it has just copied.           *)
FilledInv ==
    wpc = "put" =>
        /\ mem[wchunk].position = 0
        /\ mem[wchunk].data = [i \in 1..ChunkLen |-> [dg |-> Len(arrivals), idx |-> offset + i]]

(* A chunk in use, other than the writer's own, is not touched by it.      *)
InUse == (QueuedChunks \cup {current, wchunk}) \ {NoChunk}

(* The writer fills only a chunk that nobody uses.                         *)
LEMMA FillsUnused ==
    ASSUME Inv, GetChunk
    PROVE  \A c \in InUse : c \in Chunks /\ mem'[c] = mem[c]
<1>1. /\ mem \in [Chunks -> Content] /\ wpc # "put" /\ QueuedChunks \subseteq Chunks
      /\ current \in Chunks \cup {NoChunk} /\ wchunk \in Chunks \cup {NoChunk}
  BY LenProperties DEF Inv, TypeInv, TypeOK, GetChunk, QueuedChunks
<1>2. PICK c \in mpool : \A x \in Chunks : x # c => mem'[x] = mem[x]
  BY <1>1 DEF GetChunk
<1>3. c \notin InUse
  BY <1>2 DEF InUse, Inv, ChunksPartitioned, Owned
<1> QED
  BY <1>1, <1>2, <1>3 DEF InUse

(* So FilledInv is kept: only GetChunk leads to put_chunk().               *)
LEMMA FilledStep == Inv /\ FilledInv /\ [Next]_vars => FilledInv'
<1> SUFFICES ASSUME Inv, FilledInv, [Next]_vars PROVE FilledInv'
  OBVIOUS
<1>0. /\ mem \in [Chunks -> Content] /\ mpool \subseteq Chunks
      /\ wpc = "put" => wchunk \in Chunks /\ wchunk # current
  BY ChunksAssumption DEF Inv, TypeInv, TypeOK, WriterInv, ChunksPartitioned
<1>1. CASE GetChunk
  BY <1>0, <1>1 DEF GetChunk, FilledInv, ChunkLen, Decoded
<1>2. CASE wpc' # "put"
  BY <1>2 DEF FilledInv
<1>3. ASSUME wpc = "put", UNCHANGED <<wpc, wchunk, offset, arrivals>>, mem'[wchunk] = mem[wchunk]
      PROVE  FilledInv'
  BY <1>3 DEF FilledInv, ChunkLen, Decoded
<1>4. CASE ConsumeDatagramChunk \/ ConsumeData
  <2>1. wpc = "put" => mem'[wchunk] = mem[wchunk]
    BY <1>0, <1>4 DEF ConsumeDatagramChunk, ConsumeData
  <2>2. UNCHANGED <<wpc, wchunk, offset, arrivals>>
    BY <1>4 DEF ConsumeDatagramChunk, ConsumeData, writerVars
  <2> QED
    BY <1>2, <1>3, <2>1, <2>2
<1>5. CASE UNCHANGED <<wpc, wchunk, offset, arrivals, mem>>
  BY <1>2, <1>3, <1>5
<1> QED
  BY <1>1, <1>2, <1>4, <1>5
     DEF Next, Writer, ReaderStep, vars, UrcRecv, SetSourceHost, SetSourcePort, UrcDone, PutChunk,
         LoadChunk, Recv, ReadEnd, CopySourceHost, CopySourcePort, Flush, Reopen, writerVars, readerVars

Queued == [i \in DOMAIN recvData |-> Unread(recvData[i])]

(* The pieces: the unread rest of the current chunk, then the queued ones. *)
PiecesParts ==
    /\ Queued \in Seq(Seq(Byte)) /\ Len(Queued) = Len(recvData)
    /\ \A i \in 1..Len(recvData) : Queued[i] = Unread(recvData[i])
    /\ Pieces \in Seq(Seq(Byte))
    /\ current = NoChunk => Pieces = Queued
    /\ current # NoChunk =>
         /\ Unread(current) \in Seq(Byte)
         /\ Pieces = <<Unread(current)>> \o Queued
         /\ Pieces # <<>> /\ Head(Pieces) = Unread(current) /\ Tail(Pieces) = Queued

(* The type invariant makes Pieces what it should be.                      *)
LEMMA PiecesAre == TypeInv => PiecesParts
<1> SUFFICES ASSUME TypeInv PROVE PiecesParts
  OBVIOUS
<1>1. /\ recvData \in Seq(Chunks) /\ Len(recvData) \in Nat /\ DOMAIN recvData = 1..Len(recvData)
      /\ \A i \in 1..Len(recvData) : recvData[i] \in Chunks
      /\ current \in Chunks \cup {NoChunk}
  BY LenProperties DEF TypeInv, TypeOK
<1>2. \A c \in Chunks : Unread(c) \in Seq(Byte)
  BY UnreadIsBytes
<1>3. Queued \in [1..Len(recvData) -> Seq(Byte)]
  BY <1>1, <1>2 DEF Queued
<1>4. Queued \in Seq(Seq(Byte)) /\ Len(Queued) = Len(recvData)
  BY <1>1, <1>3, LenProperties
<1>5. \A i \in 1..Len(recvData) : Queued[i] = Unread(recvData[i])
  BY <1>1 DEF Queued
<1>6. Pieces = (IF current = NoChunk THEN <<>> ELSE <<Unread(current)>>) \o Queued
  BY DEF Pieces, Queued
<1>7. CASE current = NoChunk
  BY <1>4, <1>5, <1>6, <1>7, ConcatEmptySeq DEF PiecesParts
<1>8. CASE current # NoChunk
  <2> DEFINE u == Unread(current)
             p == <<u>> \o Queued
  <2>1. u \in Seq(Byte)
    BY <1>1, <1>2, <1>8
  <2> HIDE DEF u
  <2>2. <<u>> \in Seq(Seq(Byte)) /\ Len(<<u>>) = 1 /\ <<u>>[1] = u
    BY <2>1
  <2>3. /\ p \in Seq(Seq(Byte)) /\ Len(p) = Len(Queued) + 1
        /\ \A i \in 1..(Len(Queued) + 1) : p[i] = IF i <= 1 THEN u ELSE Queued[i - 1]
    BY <1>4, <2>2, ConcatProperties
  <2> HIDE DEF p
  <2>4. Len(Queued) \in Nat
    BY <1>1, <1>4
  <2>5. p # <<>> /\ p[1] = u
    BY <2>3, <2>4, EmptySeq
  <2>6. Head(p) = u
    BY <2>5
  <2>7. Tail(p) = Queued
    <3>1. /\ Tail(p) \in Seq(Seq(Byte)) /\ Len(Tail(p)) = Len(Queued)
          /\ \A i \in 1..Len(Tail(p)) : Tail(p)[i] = p[i + 1]
      BY <2>3, <2>4, <2>5, HeadTailProperties
    <3>2. \A i \in 1..Len(Tail(p)) : Tail(p)[i] = Queued[i]
      BY <2>3, <2>4, <3>1
    <3> QED
      BY <1>4, <3>1, <3>2, SeqEqual
  <2>8. Pieces = p
    BY <1>6, <1>8 DEF u, p
  <2> QED
    BY <1>4, <1>5, <1>8, <2>1, <2>3, <2>5, <2>6, <2>7, <2>8 DEF PiecesParts, u, p
<1> QED
  BY <1>7, <1>8

(* What holds of every state, before and after a step.                     *)
RefInv == Inv /\ FilledInv /\ PiecesParts

(* Who touches neither the queue nor a chunk in it leaves the queued       *)
(* pieces alone.                                                           *)
LEMMA QueuedKept ==
    ASSUME TypeInv, TypeInv', UNCHANGED recvData,
           \A c \in QueuedChunks : Unread(c)' = Unread(c)
    PROVE  Queued' = Queued
<1>1. \A i \in DOMAIN recvData : recvData[i] \in QueuedChunks
  BY DEF QueuedChunks
<1>2. \A i \in DOMAIN recvData : Unread(recvData[i])' = Unread(recvData[i])
  <2> SUFFICES ASSUME NEW i \in DOMAIN recvData PROVE Unread(recvData[i])' = Unread(recvData[i])
    OBVIOUS
  <2> QED
    BY <1>1 DEF Unread
<1> QED
  BY <1>2 DEF Queued

(* Who touches no readable chunk leaves all the pieces alone.              *)
LEMMA PiecesKept ==
    ASSUME TypeInv, TypeInv', UNCHANGED <<recvData, current>>,
           \A c \in QueuedChunks \cup ({current} \ {NoChunk}) : mem'[c] = mem[c]
    PROVE  Pieces' = Pieces
<1>1. Queued' = Queued
  BY QueuedKept DEF Unread
<1>2. current # NoChunk => Unread(current)' = Unread(current)
  BY DEF Unread
<1> QED
  BY <1>1, <1>2 DEF Pieces, Queued

(* Handling a URC delivers the next datagram, its chunks are the pieces.   *)
LEMMA WriterImplements ==
    ASSUME RefInv, RefInv', Writer
    PROVE  [Fifo!Next]_Fifo!vars
<1>0. /\ Inv /\ FilledInv /\ PiecesParts /\ TypeInv
      /\ Inv' /\ PiecesParts' /\ TypeInv' /\ Len(arrivals) \in Nat
  BY LenProperties DEF RefInv, Inv, TypeInv, TypeOK
<1>1. ASSUME NEW len \in UrcLens, UrcRecv(len)
      PROVE  Fifo!Deliver
  <2>1. Pieces' = Pieces
    BY <1>0, <1>1, PiecesKept DEF UrcRecv
  <2>2. Len(arrivals') = Len(arrivals) + 1
    <3>1. arrivals \in Seq(Nat) /\ Least(len, RecvBufSize) \in Nat
      BY <1>0, SizesAssumption DEF TypeInv, TypeOK, Least
    <3> QED
      BY <1>1, <3>1, AppendProperties DEF UrcRecv
  <2> QED
    BY <1>1, <2>1, <2>2 DEF UrcRecv, Fifo!Deliver, readerVars, Remaining
<1>2. CASE SetSourceHost \/ SetSourcePort \/ UrcDone
  <2>1. Pieces' = Pieces
    BY <1>0, <1>2, PiecesKept DEF SetSourceHost, SetSourcePort, UrcDone
  <2> QED
    BY <1>2, <2>1 DEF SetSourceHost, SetSourcePort, UrcDone, readerVars, Remaining, Fifo!vars
<1>3. CASE GetChunk
  <2>1. UNCHANGED <<recvData, current, offset, arrivals, rsize, result>>
    BY <1>3 DEF GetChunk, readerVars
  <2>2. \A c \in QueuedChunks \cup ({current} \ {NoChunk}) : mem'[c] = mem[c]
    BY <1>3, <1>0, FillsUnused, ChunksAssumption DEF InUse, QueuedChunks, TypeInv, TypeOK
  <2>3. Pieces' = Pieces
    BY <1>0, <2>1, <2>2, PiecesKept
  <2> QED
    BY <2>1, <2>3 DEF Remaining, Fifo!vars
<1>4. CASE PutChunk
  <2> DEFINE piece == [i \in 1..ChunkLen |-> [dg |-> Len(arrivals), idx |-> offset + i]]
  <2>1. /\ wchunk \in Chunks /\ wchunk # NoChunk /\ mem' = mem /\ current' = current
        /\ offset < Decoded /\ Decoded \in Nat /\ offset \in Nat /\ recvData \in Seq(Chunks)
    <3>1. wpc = "put" /\ arrivals \in Seq(Nat) /\ arrivals # <<>>
      BY <1>0, <1>4 DEF PutChunk, TypeInv, WriterInv, TypeOK
    <3>2. Len(arrivals) \in 1..Len(arrivals)
      BY <3>1, EmptySeq, LenProperties
    <3>3. Decoded \in Nat
      BY <3>1, <3>2, ElementOfSeq DEF Decoded
    <3> QED
      BY <1>0, <1>4, <3>1, <3>3 DEF PutChunk, TypeInv, WriterInv, TypeOK
  <2>2. ChunkLen \in 1..ChunkSize
    BY <2>1, SizesAssumption DEF ChunkLen, Least
  <2>3. recvData' = Append(recvData, wchunk)
    BY <1>0, <1>4, <2>1, RoomForWriter DEF PutChunk, PutHasRoom
  <2>4. Unread(wchunk) = piece
    <3>1. mem[wchunk].position = 0 /\ mem[wchunk].data = piece
      BY <1>0, <1>4 DEF PutChunk, FilledInv
    <3>2. mem[wchunk].data \in Seq(Byte)
      BY <1>0, <2>1 DEF TypeInv, TypeOK, Content
    <3>3. SubSeq(mem[wchunk].data, 1, Len(mem[wchunk].data)) = mem[wchunk].data
      BY <3>2, SubSeqFull
    <3>4. mem[wchunk].position + 1 = 1
      BY <3>1
    <3> HIDE DEF piece
    <3> QED
      BY <3>1, <3>3, <3>4 DEF Unread
  <2>5. Unread(wchunk) \in Seq(Byte)
    BY <1>0, <2>1, UnreadIsBytes
  <2>6. Queued' = Append(Queued, Unread(wchunk))
    <3>1. /\ Append(Queued, Unread(wchunk)) \in Seq(Seq(Byte))
          /\ Len(Append(Queued, Unread(wchunk))) = Len(recvData) + 1
          /\ \A i \in 1..Len(recvData) : Append(Queued, Unread(wchunk))[i] = Queued[i]
          /\ Append(Queued, Unread(wchunk))[Len(recvData) + 1] = Unread(wchunk)
      BY <1>0, <2>5, AppendProperties DEF PiecesParts
    <3>2. /\ Len(recvData') = Len(recvData) + 1 /\ Len(recvData) \in Nat
          /\ \A i \in 1..Len(recvData) : recvData'[i] = recvData[i]
          /\ recvData'[Len(recvData) + 1] = wchunk
      BY <2>1, <2>3, AppendProperties, LenProperties
    <3>3. /\ Queued' \in Seq(Seq(Byte)) /\ Len(Queued') = Len(recvData) + 1
          /\ \A i \in 1..Len(recvData') : Queued'[i] = Unread(recvData[i])'
      BY <1>0, <3>2 DEF PiecesParts
    <3>4. /\ \A i \in 1..Len(recvData) : Queued'[i] = Unread(recvData[i])
          /\ Queued'[Len(recvData) + 1] = Unread(wchunk)
      <4>1. \A i \in 1..(Len(recvData) + 1) :
               Queued'[i] = SubSeq(mem[recvData'[i]].data, mem[recvData'[i]].position + 1,
                                   Len(mem[recvData'[i]].data))
        BY <2>1, <3>2, <3>3 DEF Unread
      <4>2. ASSUME NEW i \in 1..Len(recvData) PROVE Queued'[i] = Unread(recvData[i])
        <5>1. i \in 1..(Len(recvData) + 1) /\ recvData'[i] = recvData[i]
          BY <3>2
        <5> QED
          BY <4>1, <5>1 DEF Unread
      <4>3. Queued'[Len(recvData) + 1] = Unread(wchunk)
        <5>1. Len(recvData) + 1 \in 1..(Len(recvData) + 1)
          BY <3>2
        <5> QED
          BY <3>2, <4>1, <5>1 DEF Unread
      <4> QED
        BY <4>2, <4>3
    <3>5. \A i \in 1..Len(Queued') : Queued'[i] = Append(Queued, Unread(wchunk))[i]
      BY <1>0, <3>1, <3>2, <3>3, <3>4 DEF PiecesParts
    <3> QED
      BY <3>1, <3>3, <3>5, SeqEqual
  <2>7. Pieces' = Append(Pieces, Unread(wchunk))
    <3>1. CASE current = NoChunk
      BY <1>0, <2>1, <2>6, <3>1 DEF PiecesParts
    <3>2. CASE current # NoChunk
      <4>1. /\ <<Unread(current)>> \in Seq(Seq(Byte)) /\ Queued \in Seq(Seq(Byte))
            /\ <<Unread(wchunk)>> \in Seq(Seq(Byte)) /\ Pieces \in Seq(Seq(Byte))
            /\ Pieces = <<Unread(current)>> \o Queued
        BY <1>0, <2>5, <3>2 DEF PiecesParts
      <4>2. Pieces' = <<Unread(current)>> \o Queued'
        BY <1>0, <2>1, <3>2 DEF PiecesParts, Unread
      <4>3. Queued' = Queued \o <<Unread(wchunk)>>
        BY <2>5, <2>6, <4>1, AppendIsConcat
      <4>4. Append(Pieces, Unread(wchunk)) = Pieces \o <<Unread(wchunk)>>
        BY <2>5, <4>1, AppendIsConcat
      <4> QED
        BY <4>1, <4>2, <4>3, <4>4, ConcatAssociative
    <3> QED
      BY <3>1, <3>2
  <2>8. offset' = offset + ChunkLen /\ UNCHANGED <<arrivals, rsize, result>>
    BY <1>4 DEF PutChunk, readerVars
  <2>9. Fifo!Put(ChunkLen)
    BY <2>4, <2>7, <2>8 DEF Fifo!Put, Remaining
  <2> QED
    BY <2>2, <2>9 DEF Fifo!Next
<1> QED
  BY <1>1, <1>2, <1>3, <1>4 DEF Writer, Fifo!Next

(* Least is what PieceFifo calls Fit.                                      *)
LEMMA FitIsLeast == ASSUME NEW n PROVE Fifo!Fit(n) = Least(Remaining, n)
BY DEF Fifo!Fit, Least

(* A reader that is done with the oldest piece takes it off.               *)
LEMMA TakeWhole ==
    ASSUME RefInv, RefInv', current # NoChunk, FreeCurrent,
           UNCHANGED <<recvData, arrivals, offset, rsize>>,
           \A c \in Chunks \ {current} : mem'[c] = mem[c],
           LET n == Least(Remaining, Len(Unread(current)))
           IN  result' = result \o SubSeq(Unread(current), 1, n)
    PROVE  Fifo!Take
<1> DEFINE u == Unread(current)
           n == Least(Remaining, Len(u))
<1>1. /\ TypeInv /\ TypeInv' /\ PiecesParts /\ PiecesParts'
      /\ current \notin QueuedChunks
  BY DEF RefInv, Inv, ChunksPartitioned, Owned
<1>2. Queued' = Queued
  <2>1. QueuedChunks \subseteq Chunks \ {current}
    BY <1>1, LenProperties DEF TypeInv, TypeOK, QueuedChunks
  <2>2. \A c \in QueuedChunks : Unread(c)' = Unread(c)
    BY <2>1 DEF Unread
  <2> QED
    BY <1>1, <2>2, QueuedKept
<1>3. Pieces # <<>> /\ Head(Pieces) = u /\ Pieces' = Tail(Pieces)
  BY <1>1, <1>2 DEF PiecesParts, FreeCurrent
<1>4. Remaining' = Remaining - n
  <2>1. current \in Chunks /\ result \in Seq(Byte) /\ Remaining \in Nat /\ rsize \in Nat
        /\ Len(result) \in Nat
    BY <1>1, LenProperties DEF TypeInv, TypeOK, Remaining, ResultFits
  <2>2. Len(u) \in Nat
    BY <1>1, <2>1, UnreadIsBytes
  <2>3. n \in Nat /\ n <= Len(u)
    BY <2>1, <2>2 DEF Least
  <2>4. SubSeq(u, 1, n) \in Seq(Byte) /\ Len(SubSeq(u, 1, n)) = n
    BY <1>1, <2>1, <2>3, UnreadIsBytes
  <2>5. result' = result \o SubSeq(u, 1, n) /\ rsize' = rsize
    OBVIOUS
  <2> HIDE DEF n, u
  <2>6. Len(result') = Len(result) + n
    BY <2>1, <2>4, <2>5, ConcatProperties
  <2>7. Remaining' = rsize - (Len(result) + n)
    BY <2>5, <2>6 DEF Remaining
  <2>8. Remaining = rsize - Len(result)
    BY DEF Remaining
  <2> QED
    BY <2>1, <2>3, <2>7, <2>8
<1>5. Fifo!Fit(Len(u)) = n
  BY FitIsLeast
<1> QED
  BY <1>3, <1>4, <1>5 DEF Fifo!Take

(* Making the oldest queued chunk the current one changes no piece.        *)
LEMMA LoadKeepsPieces ==
    ASSUME RefInv, RefInv', LoadChunk
    PROVE  Pieces' = Pieces
<1>1. /\ PiecesParts /\ PiecesParts' /\ recvData \in Seq(Chunks) /\ recvData # <<>>
      /\ Head(recvData) \in Chunks /\ NoChunk \notin Chunks
      /\ current = NoChunk /\ current' = Head(recvData) /\ recvData' = Tail(recvData) /\ mem' = mem
  BY ChunksAssumption, HeadTailProperties DEF RefInv, Inv, TypeInv, TypeOK, LoadChunk
<1>2. /\ Len(recvData) \in Nat \ {0} /\ Len(recvData') = Len(recvData) - 1
      /\ current' = recvData[1]
      /\ \A i \in 1..Len(recvData') : recvData'[i] = recvData[i + 1]
  BY <1>1, EmptySeq, LenProperties, HeadTailProperties
<1> DEFINE u == Unread(recvData[1])
<1>3. Unread(current)' = u
  BY <1>1, <1>2 DEF Unread
<1>4. /\ Pieces = Queued /\ Queued \in Seq(Seq(Byte)) /\ Len(Queued) = Len(recvData)
      /\ \A i \in 1..Len(recvData) : Queued[i] = Unread(recvData[i])
  BY <1>1 DEF PiecesParts
<1>5. /\ u \in Seq(Byte) /\ Pieces' = <<u>> \o Queued' /\ Pieces' \in Seq(Seq(Byte))
      /\ Queued' \in Seq(Seq(Byte)) /\ Len(Queued') = Len(recvData) - 1
  BY <1>1, <1>2, <1>3 DEF PiecesParts
<1>6. \A i \in 1..(Len(recvData) - 1) : Queued'[i] = Queued[i + 1]
  <2> SUFFICES ASSUME NEW i \in 1..(Len(recvData) - 1) PROVE Queued'[i] = Queued[i + 1]
    OBVIOUS
  <2>1. /\ i \in 1..Len(recvData') /\ i + 1 \in 1..Len(recvData)
        /\ recvData'[i] = recvData[i + 1]
    BY <1>2
  <2>2. Queued'[i] = Unread(recvData[i])'
    BY <1>1, <2>1 DEF PiecesParts
  <2>3. Unread(recvData[i])' = Unread(recvData[i + 1])
    BY <1>1, <2>1 DEF Unread
  <2> QED
    BY <1>4, <2>1, <2>2, <2>3
<1>7. Queued[1] = u
  BY <1>2, <1>4
<1> HIDE DEF u
<1>8. /\ Len(<<u>> \o Queued') = Len(recvData)
      /\ \A i \in 1..Len(recvData) : (<<u>> \o Queued')[i] = IF i <= 1 THEN u ELSE Queued'[i - 1]
  <2>1. <<u>> \in Seq(Seq(Byte)) /\ Len(<<u>>) = 1 /\ <<u>>[1] = u
    BY <1>5
  <2>2. /\ Len(<<u>> \o Queued') = 1 + (Len(recvData) - 1)
        /\ \A i \in 1..(1 + (Len(recvData) - 1)) :
              (<<u>> \o Queued')[i] = IF i <= 1 THEN <<u>>[i] ELSE Queued'[i - 1]
    BY <1>5, <2>1, ConcatProperties
  <2> QED
    BY <1>2, <2>1, <2>2
<1>9. \A i \in 1..Len(recvData) : (<<u>> \o Queued')[i] = Queued[i]
  <2> SUFFICES ASSUME NEW i \in 1..Len(recvData) PROVE (<<u>> \o Queued')[i] = Queued[i]
    OBVIOUS
  <2>1. CASE i = 1
    BY <1>7, <1>8, <2>1
  <2>2. CASE i # 1
    <3>1. i - 1 \in 1..(Len(recvData) - 1) /\ (i - 1) + 1 = i /\ ~(i <= 1)
      BY <1>2, <2>2
    <3>2. Queued'[i - 1] = Queued[i]
      BY <1>6, <3>1
    <3> QED
      BY <1>8, <3>1, <3>2
  <2> QED
    BY <2>1, <2>2
<1> QED
  BY <1>4, <1>5, <1>8, <1>9, SeqEqual

(* The rest of a rest is a rest.                                           *)
LEMMA RestOfRest ==
    ASSUME NEW d \in Seq(Byte), NEW p \in Nat, NEW k \in Nat, k < Len(d) - p
    PROVE  SubSeq(SubSeq(d, p + 1, Len(d)), k + 1, Len(d) - p) = SubSeq(d, (p + k) + 1, Len(d))
<1>1. Len(d) \in Nat /\ \A i \in 1..Len(d) : d[i] \in Byte
  BY LenProperties, ElementOfSeq
<1> DEFINE n == Len(d) - p
           s == SubSeq(d, p + 1, Len(d))
           t == SubSeq(s, k + 1, n)
           r == SubSeq(d, (p + k) + 1, Len(d))
<1>2. n \in Nat /\ k < n /\ p + n = Len(d)
  BY <1>1
<1>3. s \in Seq(Byte) /\ Len(s) = n /\ \A i \in 1..n : s[i] = d[p + i]
  <2>1. \A i \in (p + 1)..Len(d) : d[i] \in Byte
    BY <1>1
  <2>2. /\ s \in Seq(Byte) /\ Len(s) = IF p + 1 <= Len(d) THEN (Len(d) - (p + 1)) + 1 ELSE 0
        /\ \A i \in 1..((Len(d) - (p + 1)) + 1) : s[i] = d[((p + 1) + i) - 1]
    BY <1>1, <2>1, SubSeqProperties
  <2> HIDE DEF s
  <2>3. (Len(d) - (p + 1)) + 1 = n /\ p + 1 <= Len(d)
    BY <1>1, <1>2
  <2>4. \A i \in 1..n : ((p + 1) + i) - 1 = p + i
    BY <1>2
  <2> QED
    BY <2>2, <2>3, <2>4
<1> HIDE DEF s
<1>4. t \in Seq(Byte) /\ Len(t) = n - k /\ \A i \in 1..(n - k) : t[i] = s[k + i]
  <2>1. \A i \in (k + 1)..n : s[i] \in Byte
    BY <1>2, <1>3, ElementOfSeq
  <2>2. /\ t \in Seq(Byte) /\ Len(t) = IF k + 1 <= n THEN (n - (k + 1)) + 1 ELSE 0
        /\ \A i \in 1..((n - (k + 1)) + 1) : t[i] = s[((k + 1) + i) - 1]
    BY <1>2, <2>1, SubSeqProperties
  <2> HIDE DEF t
  <2>3. (n - (k + 1)) + 1 = n - k /\ k + 1 <= n
    BY <1>2
  <2>4. \A i \in 1..(n - k) : ((k + 1) + i) - 1 = k + i
    BY <1>2
  <2> QED
    BY <2>2, <2>3, <2>4
<1>5. r \in Seq(Byte) /\ Len(r) = n - k /\ \A i \in 1..(n - k) : r[i] = d[(p + k) + i]
  <2>1. \A i \in ((p + k) + 1)..Len(d) : d[i] \in Byte
    BY <1>1
  <2>2. /\ r \in Seq(Byte) /\ Len(r) = IF (p + k) + 1 <= Len(d) THEN (Len(d) - ((p + k) + 1)) + 1 ELSE 0
        /\ \A i \in 1..((Len(d) - ((p + k) + 1)) + 1) : r[i] = d[(((p + k) + 1) + i) - 1]
    BY <1>1, <2>1, SubSeqProperties
  <2> HIDE DEF r
  <2>3. (Len(d) - ((p + k) + 1)) + 1 = n - k /\ (p + k) + 1 <= Len(d)
    BY <1>1, <1>2
  <2>4. \A i \in 1..(n - k) : (((p + k) + 1) + i) - 1 = (p + k) + i
    BY <1>2
  <2> QED
    BY <2>2, <2>3, <2>4
<1>6. \A i \in 1..(n - k) : t[i] = r[i]
  <2> SUFFICES ASSUME NEW i \in 1..(n - k) PROVE t[i] = r[i]
    OBVIOUS
  <2>1. k + i \in 1..n /\ p + (k + i) = (p + k) + i
    BY <1>2
  <2> QED
    BY <1>3, <1>4, <1>5, <2>1
<1>7. s = SubSeq(d, p + 1, Len(d))
  BY DEF s
<1> HIDE DEF t, r
<1>8. t = r
  BY <1>4, <1>5, <1>6, SeqEqual
<1> QED
  BY <1>7, <1>8 DEF t, r

(* A reader that stops within the oldest piece leaves the rest of it.      *)
LEMMA TakePart ==
    ASSUME RefInv, RefInv', ConsumeData, Remaining < Len(Unread(current))
    PROVE  Fifo!Take
<1> DEFINE u == Unread(current)
           rest == SubSeq(u, Remaining + 1, Len(u))
<1>0. /\ TypeInv /\ TypeInv' /\ PiecesParts /\ PiecesParts' /\ current \notin QueuedChunks
      /\ current \in Chunks /\ current # NoChunk
      /\ result \in Seq(Byte) /\ rsize \in Nat /\ Len(result) \in Nat /\ Remaining \in Nat
      /\ mem \in [Chunks -> Content]
  <2>1. TypeInv /\ TypeInv' /\ PiecesParts /\ PiecesParts' /\ ChunksPartitioned /\ current # NoChunk
    BY DEF RefInv, Inv, ConsumeData
  <2>2. /\ current \in Chunks /\ result \in Seq(Byte) /\ rsize \in Nat /\ mem \in [Chunks -> Content]
        /\ Len(result) <= rsize
    BY <2>1 DEF TypeInv, TypeOK, ResultFits
  <2>3. Len(result) \in Nat /\ Remaining \in Nat
    BY <2>2, LenProperties DEF Remaining
  <2>4. current \notin QueuedChunks
    BY <2>1 DEF ChunksPartitioned, Owned
  <2> QED
    BY <2>1, <2>2, <2>3, <2>4
<1>1. /\ Len(u) \in Nat /\ Remaining <= Len(u) /\ Remaining # Len(u)
      /\ Len(u) = Len(mem[current].data) - mem[current].position
      /\ mem[current].position \in Nat /\ Len(mem[current].data) \in Nat
      /\ Len(SubSeq(u, 1, Remaining)) = Remaining /\ SubSeq(u, 1, Remaining) \in Seq(Byte)
      /\ mem[current].data \in Seq(Byte)
  BY <1>0, UnreadIsBytes DEF Content
<1>2. Least(Remaining, Len(u)) = Remaining
  BY <1>1 DEF Least
<1>3. /\ result' = result \o SubSeq(u, 1, Remaining)
      /\ mem' = [mem EXCEPT ![current].position = @ + Remaining]
      /\ UNCHANGED <<current, recvData, offset, arrivals, rsize>>
  BY <1>1, <1>2 DEF ConsumeData, writerVars
<1>4. mem'[current].position = mem[current].position + Remaining
      /\ mem'[current].data = mem[current].data
  BY <1>0, <1>3 DEF Content
<1>5. Unread(current)' = rest
  <2> DEFINE d == mem[current].data
             p == mem[current].position
  <2>1. Unread(current)' = SubSeq(d, (p + Remaining) + 1, Len(d))
    BY <1>3, <1>4 DEF Unread
  <2>2. u = SubSeq(d, p + 1, Len(d))
    BY DEF Unread
  <2>3. d \in Seq(Byte) /\ p \in Nat /\ Len(u) = Len(d) - p /\ Remaining < Len(u)
    BY <1>1
  <2> HIDE DEF d, p, u
  <2>4. SubSeq(SubSeq(d, p + 1, Len(d)), Remaining + 1, Len(d) - p) = SubSeq(d, (p + Remaining) + 1, Len(d))
    BY <1>0, <2>3, RestOfRest
  <2> QED
    BY <2>1, <2>2, <2>3, <2>4
<1>6. Queued' = Queued
  <2>1. QueuedChunks \subseteq Chunks \ {current}
    BY <1>0, LenProperties DEF TypeInv, TypeOK, QueuedChunks
  <2>2. \A c \in QueuedChunks : Unread(c)' = Unread(c)
    BY <1>0, <1>3, <2>1 DEF Unread
  <2> QED
    BY <1>0, <1>3, <2>2, QueuedKept
<1>7. /\ Pieces # <<>> /\ Head(Pieces) = u /\ Tail(Pieces) = Queued
      /\ Pieces' = <<Unread(current)'>> \o Queued'
  BY <1>0, <1>3 DEF PiecesParts
<1>8. Remaining' = Remaining - Remaining
  <2>1. Len(result') = Len(result) + Remaining
    BY <1>0, <1>1, <1>3, ConcatProperties
  <2>2. Remaining' = rsize - (Len(result) + Remaining)
    BY <1>3, <2>1 DEF Remaining
  <2>3. Remaining = rsize - Len(result)
    BY DEF Remaining
  <2> QED
    BY <1>0, <2>2, <2>3
<1>9. Fifo!Fit(Len(u)) = Remaining
  BY <1>2, FitIsLeast
<1> QED
  BY <1>1, <1>3, <1>5, <1>6, <1>7, <1>8, <1>9 DEF Fifo!Take

(* A read begins, takes pieces and ends.                                   *)
LEMMA ReaderImplements ==
    ASSUME RefInv, RefInv', ReaderStep \/ \E size \in ReadSizes : Recv(size)
    PROVE  [Fifo!Next]_Fifo!vars
<1>0. TypeInv /\ TypeInv' /\ mem \in [Chunks -> Content]
  BY DEF RefInv, Inv, TypeInv, TypeOK
<1>1. ASSUME NEW size \in ReadSizes, Recv(size)
      PROVE  Fifo!Begin
  <2>1. Pieces' = Pieces
    BY <1>0, <1>1, PiecesKept DEF Recv
  <2>2. result' = <<>> /\ rsize' \in Nat /\ UNCHANGED <<offset, arrivals>>
    BY <1>1, SizesAssumption DEF Recv, writerVars
  <2>3. Remaining' \in Nat
    <3>1. Len(result') = 0
      BY <2>2, EmptySeq
    <3>2. Remaining' = rsize' - Len(result')
      BY DEF Remaining
    <3>3. rsize' \in Nat
      BY <2>2
    <3>4. \A n \in Nat : n - 0 = n
      OBVIOUS
    <3>5. Remaining' = rsize'
      BY <3>1, <3>2, <3>3, <3>4, Zenon
    <3> QED
      BY <3>3, <3>5, Zenon
  <2> QED
    BY <2>1, <2>2, <2>3 DEF Fifo!Begin
<1>2. CASE LoadChunk
  <2>1. Pieces' = Pieces
    BY <1>2, LoadKeepsPieces
  <2> QED
    BY <1>2, <2>1 DEF LoadChunk, Fifo!vars, Remaining, writerVars, readerVars
<1>3. CASE ConsumeDatagramChunk
  BY <1>0, <1>3, TakeWhole DEF ConsumeDatagramChunk, writerVars, Fifo!Next
<1>4. CASE ConsumeData
  <2>1. CASE Remaining < Len(Unread(current))
    BY <1>4, <2>1, TakePart DEF Fifo!Next
  <2>2. CASE ~(Remaining < Len(Unread(current)))
    <3>1. Least(Remaining, Len(Unread(current))) = Len(Unread(current))
      BY <2>2 DEF Least
    <3>2. current # NoChunk /\ FreeCurrent /\ UNCHANGED <<recvData, arrivals, offset, rsize>>
      BY <1>4, <3>1 DEF ConsumeData, writerVars
    <3>3. result' = result \o SubSeq(Unread(current), 1, Least(Remaining, Len(Unread(current))))
      BY <1>4 DEF ConsumeData
    <3>4. \A c \in Chunks \ {current} : mem'[c] = mem[c]
      BY <1>0, <1>4 DEF ConsumeData
    <3> QED
      BY <3>2, <3>3, <3>4, TakeWhole DEF Fifo!Next
  <2> QED
    BY <2>1, <2>2
<1>5. CASE ReadEnd \/ CopySourceHost \/ CopySourcePort
  <2>1. UNCHANGED <<recvData, current, mem, offset, arrivals, rsize, result>>
    BY <1>5 DEF ReadEnd, CopySourceHost, CopySourcePort, writerVars
  <2>2. Pieces' = Pieces
    BY <1>0, <2>1, PiecesKept
  <2> QED
    BY <2>1, <2>2 DEF Fifo!vars, Remaining
<1> QED
  BY <1>1, <1>2, <1>3, <1>4, <1>5 DEF ReaderStep, Fifo!Next

(* Every step of the buffer is one of the channel, or none.                *)
LEMMA StepImplements == RefInv /\ RefInv' /\ [Next]_vars => [Fifo!Next]_Fifo!vars
<1> SUFFICES ASSUME RefInv, RefInv', [Next]_vars PROVE [Fifo!Next]_Fifo!vars
  OBVIOUS
<1>0. TypeInv /\ TypeInv' /\ PiecesParts'
  BY DEF RefInv, Inv
<1>1. CASE Flush
  <2>1. /\ recvData' = <<>> /\ current' = NoChunk
        /\ UNCHANGED <<offset, arrivals, rsize, result>>
    BY <1>1 DEF Flush, writerVars, readerVars
  <2>2. Pieces' = Queued' /\ Queued' \in Seq(Seq(Byte)) /\ Len(Queued') = 0
    BY <1>0, <2>1, EmptySeq DEF PiecesParts
  <2>3. Pieces' = <<>>
    BY <2>2, EmptySeq
  <2> QED
    BY <2>1, <2>3 DEF Fifo!Next, Fifo!Clear, Remaining
<1>2. ASSUME UNCHANGED <<recvData, current, mem, offset, arrivals, rsize, result>>
      PROVE  UNCHANGED Fifo!vars
  <2>1. Pieces' = Pieces
    BY <1>0, <1>2, PiecesKept
  <2> QED
    BY <1>2, <2>1 DEF Fifo!vars, Remaining
<1>3. CASE (\E k \in Kinds \ {kind} : Reopen(k)) \/ UNCHANGED vars
  BY <1>2, <1>3 DEF Reopen, vars, writerVars, readerVars
<1> QED
  BY <1>1, <1>3, WriterImplements, ReaderImplements DEF Next

(* The buffer starts as an empty channel.                                  *)
LEMMA InitImplements == Init => Fifo!Init
<1> SUFFICES ASSUME Init PROVE Fifo!Init
  OBVIOUS
<1>1. PiecesParts /\ recvData = <<>> /\ current = NoChunk
  BY TypeInit, PiecesAre DEF Init
<1>2. Pieces = Queued /\ Queued \in Seq(Seq(Byte)) /\ Len(Queued) = 0
  BY <1>1, EmptySeq DEF PiecesParts
<1>3. Pieces = <<>>
  BY <1>2, EmptySeq
<1>4. Remaining = 0
  <2>1. rsize = 0 /\ Len(result) = 0
    BY EmptySeq DEF Init
  <2> QED
    BY <2>1 DEF Remaining
<1> QED
  BY <1>3, <1>4 DEF Init, Fifo!Init

(* RefInv holds throughout.                                                *)
LEMMA RefInvariance == Spec => []RefInv
<1>1. Init => FilledInv
  BY DEF Init, FilledInv
<1>2. Inv => PiecesParts
  BY PiecesAre DEF Inv
<1> QED
  BY <1>1, <1>2, FilledStep, InvInvariant, PTL DEF Spec, RefInv

(* The buffer with its pool, its chunks and its two concurrent parties     *)
(* does nothing that a lossy first-in first-out channel would not do.      *)
THEOREM BufferIsFifo == Spec => ImplementsFifo
BY InitImplements, StepImplements, RefInvariance, PTL DEF Spec, ImplementsFifo, Fifo!Spec

-----------------------------------------------------------------------------
(* The order of the bytes, argued about the channel: what has been read    *)
(* comes before what can be read, and that before what is still to come.   *)

NotAfter(b) == b.dg < Len(arrivals) \/ (b.dg = Len(arrivals) /\ b.idx <= offset)

(* Byte k of piece i is read before byte l of piece j. *)
Ahead(i, k, j, l) == i < j \/ (i = j /\ k < l)

PiecesInOrder ==
    \A i, j \in 1..Len(Pieces) : \A k \in 1..Len(Pieces[i]), l \in 1..Len(Pieces[j]) :
        Ahead(i, k, j, l) => Before(Pieces[i][k], Pieces[j][l])

PiecesNotAfter ==
    \A i \in 1..Len(Pieces) : \A k \in 1..Len(Pieces[i]) : NotAfter(Pieces[i][k])

ResultFirst ==
    \A r \in 1..Len(result) :
        /\ \A i \in 1..Len(Pieces) : \A k \in 1..Len(Pieces[i]) : Before(result[r], Pieces[i][k])
        /\ \A q \in 1..Len(result) : r < q => Before(result[r], result[q])

ResultNotAfter == \A r \in 1..Len(result) : NotAfter(result[r])

OrderInv == PiecesInOrder /\ PiecesNotAfter /\ ResultFirst /\ ResultNotAfter

StreamType ==
    /\ Pieces \in Seq(Seq(Byte)) /\ result \in Seq(Byte)
    /\ Len(arrivals) \in Nat /\ offset \in Nat /\ Remaining \in Nat

(* The channel is typed.                                                   *)
LEMMA StreamTyped == RefInv => StreamType
BY LenProperties DEF RefInv, Inv, TypeInv, TypeOK, PiecesParts, StreamType, Remaining, ResultFits

(* A new piece comes after everything before it.                           *)
LEMMA OrderPut ==
    ASSUME StreamType, StreamType', OrderInv, NEW n \in Nat, Fifo!Put(n)
    PROVE  OrderInv'
<1> DEFINE piece == [i \in 1..n |-> [dg |-> Len(arrivals), idx |-> offset + i]]
           m == Len(Pieces)
<1>1. /\ Pieces' = Append(Pieces, piece) /\ result' = result
      /\ Len(arrivals') = Len(arrivals) /\ offset' = offset + n
  BY DEF Fifo!Put
<1>2. piece \in Seq(Byte) /\ Len(piece) = n
  <2>1. piece \in [1..n -> Byte]
    BY DEF StreamType, Byte
  <2> QED
    BY <2>1, LenProperties
<1>3. \A k \in 1..n : piece[k].dg = Len(arrivals) /\ piece[k].idx = offset + k
  OBVIOUS
<1> HIDE DEF piece
<1>4. /\ m \in Nat /\ Len(Pieces') = m + 1
      /\ \A i \in 1..m : Pieces'[i] = Pieces[i]
      /\ Pieces'[m + 1] = piece
  BY <1>1, <1>2, AppendProperties, LenProperties DEF StreamType
<1>5. \A b \in Byte, k \in 1..n : NotAfter(b) => Before(b, piece[k])
  <2> SUFFICES ASSUME NEW b \in Byte, NEW k \in 1..n, NotAfter(b) PROVE Before(b, piece[k])
    OBVIOUS
  <2>1. b.dg \in Nat /\ b.idx \in Nat /\ offset \in Nat /\ Len(arrivals) \in Nat
    BY DEF Byte, StreamType
  <2>2. b.dg < Len(arrivals) \/ (b.dg = Len(arrivals) /\ b.idx < offset + k)
    BY <2>1 DEF NotAfter
  <2> QED
    BY <1>3, <2>2 DEF Before
<1>6. \A b \in Byte : NotAfter(b) => NotAfter(b)'
  <2> SUFFICES ASSUME NEW b \in Byte, NotAfter(b) PROVE NotAfter(b)'
    OBVIOUS
  <2>1. b.dg \in Nat /\ b.idx \in Nat /\ offset \in Nat /\ Len(arrivals) \in Nat
    BY DEF Byte, StreamType
  <2> QED
    BY <1>1, <2>1 DEF NotAfter
<1>7. /\ \A i \in 1..m : Len(Pieces[i]) \in Nat /\ \A k \in 1..Len(Pieces[i]) : Pieces[i][k] \in Byte
      /\ \A r \in 1..Len(result) : result[r] \in Byte
  <2>1. \A i \in 1..m : Pieces[i] \in Seq(Byte)
    BY ElementOfSeq DEF StreamType
  <2> QED
    BY <2>1, ElementOfSeq, LenProperties DEF StreamType
<1>8. PiecesInOrder'
  <2> SUFFICES ASSUME NEW i \in 1..(m + 1), NEW j \in 1..(m + 1),
                      NEW k \in 1..Len(Pieces'[i]), NEW l \in 1..Len(Pieces'[j]),
                      Ahead(i, k, j, l)
               PROVE  Before(Pieces'[i][k], Pieces'[j][l])
    BY <1>4 DEF PiecesInOrder, Ahead
  <2>1. CASE i \in 1..m /\ j \in 1..m
    BY <1>4, <2>1 DEF OrderInv, PiecesInOrder
  <2>2. CASE i \in 1..m /\ j = m + 1
    BY <1>2, <1>4, <1>5, <1>7, <2>2 DEF OrderInv, PiecesNotAfter
  <2>3. CASE i = m + 1
    <3>1. j = m + 1 /\ k < l
      BY <1>4, <2>3 DEF Ahead
    <3>2. k \in 1..n /\ l \in 1..n /\ Pieces'[i] = piece /\ Pieces'[j] = piece
      BY <1>2, <1>4, <2>3, <3>1
    <3>3. /\ piece[k].dg = piece[l].dg /\ piece[k].idx = offset + k /\ piece[l].idx = offset + l
          /\ offset \in Nat
      BY <1>3, <3>2 DEF StreamType
    <3> QED
      BY <3>1, <3>2, <3>3 DEF Before
  <2> QED
    BY <1>4, <2>1, <2>2, <2>3
<1>9. PiecesNotAfter'
  <2> SUFFICES ASSUME NEW i \in 1..(m + 1), NEW k \in 1..Len(Pieces'[i])
               PROVE  NotAfter(Pieces[i][k])'
    BY <1>4 DEF PiecesNotAfter
  <2>1. CASE i \in 1..m
    <3>1. Pieces'[i][k] = Pieces[i][k] /\ NotAfter(Pieces[i][k]) /\ Pieces[i][k] \in Byte
      BY <1>4, <1>7, <2>1 DEF OrderInv, PiecesNotAfter
    <3>2. Pieces[i][k]' = Pieces[i][k] /\ NotAfter(Pieces[i][k])
      BY <3>1
    <3>3. Pieces[i][k].dg \in Nat /\ Pieces[i][k].idx \in Nat /\ offset \in Nat /\ Len(arrivals) \in Nat
      BY <3>1 DEF Byte, StreamType
    <3> QED
      BY <1>1, <3>2, <3>3 DEF NotAfter
  <2>2. CASE i = m + 1
    BY <1>1, <1>2, <1>3, <1>4, <2>2 DEF NotAfter, StreamType
  <2> QED
    BY <1>4, <2>1, <2>2
<1>10. ResultFirst'
  <2> SUFFICES ASSUME NEW r \in 1..Len(result)
               PROVE  /\ \A i \in 1..(m + 1) : \A k \in 1..Len(Pieces'[i]) : Before(result[r], Pieces'[i][k])
                      /\ \A q \in 1..Len(result) : r < q => Before(result[r], result[q])
    BY <1>1, <1>4 DEF ResultFirst
  <2>1. ASSUME NEW i \in 1..m, NEW k \in 1..Len(Pieces'[i]) PROVE Before(result[r], Pieces'[i][k])
    BY <1>4 DEF OrderInv, ResultFirst
  <2>2. ASSUME NEW k \in 1..Len(Pieces'[m + 1]) PROVE Before(result[r], Pieces'[m + 1][k])
    BY <1>2, <1>4, <1>5, <1>7 DEF OrderInv, ResultNotAfter
  <2>3. \A q \in 1..Len(result) : r < q => Before(result[r], result[q])
    BY DEF OrderInv, ResultFirst
  <2>4. \A i \in 1..(m + 1) : i \in 1..m \/ i = m + 1
    BY <1>4
  <2> QED
    BY <2>1, <2>2, <2>3, <2>4
<1>11. ResultNotAfter'
  BY <1>1, <1>7 DEF OrderInv, ResultNotAfter, NotAfter, StreamType, Byte
<1> QED
  BY <1>8, <1>9, <1>10, <1>11 DEF OrderInv

(* What is left after n bytes of the oldest piece have been taken: byte k  *)
(* of piece i is byte from[i] + k of what was piece old[i].                *)
Leaves(n, old, from) ==
    /\ old \in [1..Len(Pieces') -> 1..Len(Pieces)] /\ from \in [1..Len(Pieces') -> Nat]
    /\ \A i, j \in 1..Len(Pieces') : i < j => old[i] < old[j]
    /\ \A i \in 1..Len(Pieces') :
        /\ old[i] = 1 => from[i] >= n
        /\ \A k \in 1..Len(Pieces'[i]) : /\ from[i] + k \in 1..Len(Pieces[old[i]])
                                        /\ Pieces'[i][k] = Pieces[old[i]][from[i] + k]

(* Taking bytes from the front keeps the order.                            *)
LEMMA OrderTaken ==
    ASSUME StreamType, StreamType', OrderInv, Pieces # <<>>,
           NEW n \in Nat, n <= Len(Pieces[1]), result' = result \o SubSeq(Pieces[1], 1, n),
           Len(arrivals') = Len(arrivals), offset' = offset,
           NEW old, NEW from, Leaves(n, old, from)
    PROVE  OrderInv'
<1> DEFINE m == Len(result)
           u == Pieces[1]
<1>1. /\ Len(Pieces) \in Nat \ {0} /\ Len(Pieces') \in Nat /\ m \in Nat /\ u \in Seq(Byte)
      /\ 1 \in 1..Len(Pieces) /\ Len(u) \in Nat
  BY EmptySeq, LenProperties, ElementOfSeq DEF StreamType
<1>2. /\ Len(result') = m + n
      /\ \A r \in 1..m : result'[r] = result[r]
      /\ \A r \in 1..(m + n) : r \notin 1..m => r - m \in 1..n /\ result'[r] = u[r - m]
  <2>1. SubSeq(u, 1, n) \in Seq(Byte) /\ Len(SubSeq(u, 1, n)) = (n + 1) - 1
    BY <1>1, PartOfSeq
  <2>2. \A i \in 1..n : SubSeq(u, 1, n)[i] = u[i]
    <3>1. \A i \in 1..n : u[i] \in Byte
      BY <1>1, ElementOfSeq
    <3>2. \A i \in 1..((n - 1) + 1) : SubSeq(u, 1, n)[i] = u[(1 + i) - 1]
      BY <3>1, SubSeqProperties
    <3> QED
      BY <3>2
  <2>3. result' = result \o SubSeq(u, 1, n)
    OBVIOUS
  <2> HIDE DEF u
  <2>4. /\ Len(result') = m + n
        /\ \A r \in 1..(m + n) : result'[r] = IF r <= m THEN result[r] ELSE SubSeq(u, 1, n)[r - m]
    BY <1>1, <2>1, <2>3, ConcatProperties DEF StreamType
  <2>5. ASSUME NEW r \in 1..(m + n), r \notin 1..m PROVE r - m \in 1..n /\ result'[r] = u[r - m]
    <3>1. ~(r <= m) /\ r - m \in 1..n
      BY <1>1, <2>5
    <3>2. result'[r] = SubSeq(u, 1, n)[r - m]
      BY <2>4, <3>1
    <3> QED
      BY <2>2, <3>1, <3>2
  <2>6. ASSUME NEW r \in 1..m PROVE result'[r] = result[r]
    BY <1>1, <2>4
  <2> QED
    BY <2>4, <2>5, <2>6
<1> HIDE DEF m
<1>3. \A i \in 1..Len(Pieces') : /\ old[i] \in 1..Len(Pieces) /\ from[i] \in Nat
                                 /\ Len(Pieces'[i]) \in Nat
                                 /\ Pieces'[i] \in Seq(Byte)
  BY LenProperties, ElementOfSeq DEF Leaves, StreamType
<1>4. \A b : NotAfter(b)' <=> NotAfter(b)
  BY DEF NotAfter
<1>5. PiecesInOrder'
  <2> SUFFICES ASSUME NEW i \in 1..Len(Pieces'), NEW j \in 1..Len(Pieces'),
                      NEW k \in 1..Len(Pieces'[i]), NEW l \in 1..Len(Pieces'[j]),
                      Ahead(i, k, j, l)
               PROVE  Before(Pieces'[i][k], Pieces'[j][l])
    BY DEF PiecesInOrder, Ahead
  <2>1. Ahead(old[i], from[i] + k, old[j], from[j] + l)
    BY <1>1, <1>3 DEF Ahead, Leaves
  <2> QED
    BY <1>3, <2>1 DEF Leaves, OrderInv, PiecesInOrder
<1>6. PiecesNotAfter'
  <2> SUFFICES ASSUME NEW i \in 1..Len(Pieces'), NEW k \in 1..Len(Pieces'[i])
               PROVE  NotAfter(Pieces'[i][k])
    BY <1>4 DEF PiecesNotAfter
  <2> QED
    BY <1>3 DEF Leaves, OrderInv, PiecesNotAfter
<1>7. \A k \in 1..n : k \in 1..Len(u)
  BY <1>1
<1>8. ResultNotAfter'
  <2> SUFFICES ASSUME NEW r \in 1..(m + n) PROVE NotAfter(result'[r])
    BY <1>2, <1>4 DEF ResultNotAfter
  <2>1. CASE r \in 1..m
    BY <1>2, <2>1 DEF OrderInv, ResultNotAfter, m
  <2>2. CASE r \notin 1..m
    BY <1>1, <1>2, <1>7, <2>2 DEF OrderInv, PiecesNotAfter
  <2> QED
    BY <2>1, <2>2
<1>9. ResultFirst'
  <2> SUFFICES ASSUME NEW r \in 1..(m + n)
               PROVE  /\ \A i \in 1..Len(Pieces') : \A k \in 1..Len(Pieces'[i]) :
                            Before(result'[r], Pieces'[i][k])
                      /\ \A q \in 1..(m + n) : r < q => Before(result'[r], result'[q])
    BY <1>2 DEF ResultFirst
  <2>1. ASSUME NEW i \in 1..Len(Pieces'), NEW k \in 1..Len(Pieces'[i])
        PROVE  Before(result'[r], Pieces'[i][k])
    <3>1. CASE r \in 1..m
      BY <1>2, <1>3, <3>1 DEF Leaves, OrderInv, ResultFirst, m
    <3>2. CASE r \notin 1..m
      <4>1. r - m \in 1..n /\ r - m \in 1..Len(u) /\ result'[r] = Pieces[1][r - m]
        BY <1>2, <1>7, <3>2
      <4>2. Ahead(1, r - m, old[i], from[i] + k)
        BY <1>3, <4>1 DEF Ahead, Leaves
      <4> QED
        BY <1>1, <1>3, <4>1, <4>2 DEF Leaves, OrderInv, PiecesInOrder
    <3> QED
      BY <3>1, <3>2
  <2>2. ASSUME NEW q \in 1..(m + n), r < q
        PROVE  Before(result'[r], result'[q])
    <3>1. CASE r \in 1..m /\ q \in 1..m
      BY <1>2, <2>2, <3>1 DEF OrderInv, ResultFirst, m
    <3>2. CASE r \in 1..m /\ q \notin 1..m
      BY <1>1, <1>2, <1>7, <3>2 DEF OrderInv, ResultFirst, m
    <3>3. CASE r \notin 1..m
      <4>1. q \notin 1..m
        BY <1>1, <2>2, <3>3 DEF m
      <4>2. /\ r - m \in 1..Len(u) /\ q - m \in 1..Len(u)
            /\ result'[r] = Pieces[1][r - m] /\ result'[q] = Pieces[1][q - m]
        BY <1>2, <1>7, <3>3, <4>1
      <4>3. Ahead(1, r - m, 1, q - m)
        BY <1>1, <2>2 DEF Ahead, m
      <4> QED
        BY <1>1, <4>2, <4>3 DEF OrderInv, PiecesInOrder
    <3> QED
      BY <3>1, <3>2, <3>3
  <2> QED
    BY <2>1, <2>2
<1> QED
  BY <1>5, <1>6, <1>8, <1>9 DEF OrderInv

(* The reader takes from the front.                                        *)
LEMMA OrderTake ==
    ASSUME StreamType, StreamType', OrderInv, Fifo!Take
    PROVE  OrderInv'
<1> DEFINE u == Pieces[1]
           n == Fifo!Fit(Len(u))
           m == Len(Pieces)
<1>1. /\ Pieces # <<>> /\ Pieces \in Seq(Seq(Byte)) /\ m \in Nat \ {0} /\ Head(Pieces) = u
      /\ u \in Seq(Byte) /\ Len(u) \in Nat
      /\ Tail(Pieces) \in Seq(Seq(Byte)) /\ Len(Tail(Pieces)) = m - 1
      /\ \A i \in 1..(m - 1) : Tail(Pieces)[i] = Pieces[i + 1]
  BY EmptySeq, LenProperties, ElementOfSeq, HeadTailProperties DEF StreamType, Fifo!Take
<1>2. /\ result' = result \o SubSeq(u, 1, n)
      /\ Len(arrivals') = Len(arrivals) /\ offset' = offset
  BY <1>1 DEF Fifo!Take
<1>3. n \in Nat /\ n <= Len(u)
  <2>1. n = Least(Remaining, Len(u))
    BY FitIsLeast
  <2> HIDE DEF n
  <2> QED
    BY <1>1, <2>1 DEF Least, StreamType
<1>4. CASE Pieces' = Tail(Pieces)
  <2> DEFINE old == [i \in 1..(m - 1) |-> i + 1]
             from == [i \in 1..(m - 1) |-> 0]
  <2>1. Len(Pieces') = m - 1 /\ \A i \in 1..(m - 1) : Pieces'[i] = Pieces[i + 1]
    BY <1>1, <1>4
  <2>2. \A i \in 1..(m - 1) : i + 1 \in 1..m /\ Len(Pieces[i + 1]) \in Nat
    BY <1>1, ElementOfSeq, LenProperties
  <2>3. Leaves(n, old, from)
    <3>1. old \in [1..(m - 1) -> 1..m] /\ from \in [1..(m - 1) -> Nat]
      BY <2>2
    <3>2. \A i, j \in 1..(m - 1) : i < j => old[i] < old[j]
      OBVIOUS
    <3>3. ASSUME NEW i \in 1..(m - 1)
          PROVE  /\ old[i] # 1
                 /\ \A k \in 1..Len(Pieces'[i]) : /\ from[i] + k \in 1..Len(Pieces[old[i]])
                                                 /\ Pieces'[i][k] = Pieces[old[i]][from[i] + k]
      BY <2>1, <2>2
    <3> HIDE DEF old, from, n
    <3> QED
      BY <2>1, <3>1, <3>2, <3>3 DEF Leaves
  <2> HIDE DEF old, from, n
  <2> QED
    BY <1>1, <1>2, <1>3, <2>3, OrderTaken
<1>5. CASE n < Len(u) /\ Pieces' = <<SubSeq(u, n + 1, Len(u))>> \o Tail(Pieces)
  <2> DEFINE rest == SubSeq(u, n + 1, Len(u))
             old == [i \in 1..m |-> i]
             from == [i \in 1..m |-> IF i = 1 THEN n ELSE 0]
  <2> HIDE DEF n
  <2>1. /\ rest \in Seq(Byte) /\ Len(rest) = Len(u) - n
        /\ \A k \in 1..(Len(u) - n) : rest[k] = u[n + k]
    <3>1. \A k \in (n + 1)..Len(u) : u[k] \in Byte
      BY <1>1, <1>3, ElementOfSeq
    <3>2. /\ rest \in Seq(Byte)
          /\ Len(rest) = IF n + 1 <= Len(u) THEN (Len(u) - (n + 1)) + 1 ELSE 0
          /\ \A k \in 1..((Len(u) - (n + 1)) + 1) : rest[k] = u[((n + 1) + k) - 1]
      BY <1>1, <1>3, <3>1, SubSeqProperties
    <3> HIDE DEF rest
    <3>3. (Len(u) - (n + 1)) + 1 = Len(u) - n /\ n + 1 <= Len(u)
      BY <1>1, <1>3, <1>5
    <3>4. \A k \in 1..(Len(u) - n) : ((n + 1) + k) - 1 = n + k
      BY <1>3
    <3> QED
      BY <3>2, <3>3, <3>4
  <2>2. Pieces' = <<rest>> \o Tail(Pieces)
    BY <1>5
  <2> HIDE DEF rest
  <2>3. /\ Len(Pieces') = m /\ Pieces'[1] = rest
        /\ \A i \in 1..m : i # 1 => Pieces'[i] = Pieces[i]
    <3>1. <<rest>> \in Seq(Seq(Byte)) /\ Len(<<rest>>) = 1 /\ <<rest>>[1] = rest
      BY <2>1
    <3>2. /\ Len(Pieces') = 1 + (m - 1)
          /\ \A i \in 1..(1 + (m - 1)) : Pieces'[i] = IF i <= 1 THEN <<rest>>[i] ELSE Tail(Pieces)[i - 1]
      BY <1>1, <2>2, <3>1, ConcatProperties
    <3>3. ASSUME NEW i \in 1..m, i # 1 PROVE Pieces'[i] = Pieces[i]
      <4>1. ~(i <= 1) /\ i - 1 \in 1..(m - 1) /\ (i - 1) + 1 = i /\ i \in 1..(1 + (m - 1))
        BY <1>1, <3>3
      <4> QED
        BY <1>1, <3>2, <4>1
    <3>4. 1 \in 1..(1 + (m - 1)) /\ 1 + (m - 1) = m
      BY <1>1
    <3> QED
      BY <3>1, <3>2, <3>3, <3>4
  <2>4. Leaves(n, old, from)
    <3>1. old \in [1..m -> 1..m] /\ from \in [1..m -> Nat] /\ \A i, j \in 1..m : i < j => old[i] < old[j]
      BY <1>3
    <3>2. old[1] = 1 /\ from[1] = n /\ \A i \in 1..m : i # 1 => old[i] = i /\ from[i] = 0
      BY <1>1
    <3> HIDE DEF old, from
    <3>3. \A k \in 1..Len(Pieces'[1]) : n + k \in 1..Len(u) /\ Pieces'[1][k] = u[n + k]
      <4> HIDE DEF u
      <4>1. Len(Pieces'[1]) = Len(u) - n /\ \A k \in 1..(Len(u) - n) : Pieces'[1][k] = u[n + k]
        BY <2>1, <2>3
      <4>2. \A k \in 1..(Len(u) - n) : n + k \in 1..Len(u)
        BY <1>1, <1>3
      <4> QED
        BY <4>1, <4>2
    <3>4. ASSUME NEW i \in 1..m, i # 1, NEW k \in 1..Len(Pieces'[i])
          PROVE  0 + k = k /\ k \in 1..Len(Pieces[i]) /\ Pieces'[i][k] = Pieces[i][k]
      <4>1. Pieces'[i] = Pieces[i]
        BY <2>3, <3>4
      <4>2. Pieces[i] \in Seq(Byte)
        BY <1>1, <3>4, ElementOfSeq
      <4>3. Len(Pieces[i]) \in Nat
        BY <4>2, LenProperties
      <4>4. k \in 1..Len(Pieces[i])
        BY <3>4, <4>1
      <4>5. 0 + k = k
        BY <4>3, <4>4
      <4> QED
        BY <4>1, <4>4, <4>5
    <3>5. ASSUME NEW i \in 1..m
          PROVE  /\ old[i] = 1 => from[i] >= n
                 /\ \A k \in 1..Len(Pieces'[i]) : /\ from[i] + k \in 1..Len(Pieces[old[i]])
                                                 /\ Pieces'[i][k] = Pieces[old[i]][from[i] + k]
      <4>1. CASE i = 1
        BY <1>3, <3>2, <3>3, <4>1
      <4>2. CASE i # 1
        BY <3>2, <3>4, <4>2
      <4> QED
        BY <4>1, <4>2
    <3> QED
      BY <2>3, <3>1, <3>5 DEF Leaves
  <2> HIDE DEF old, from
  <2> QED
    BY <1>1, <1>2, <1>3, <2>4, OrderTaken
<1> QED
  BY <1>1, <1>4, <1>5 DEF Fifo!Take

(* No step of the channel changes the order.                               *)
LEMMA OrderStep ==
    StreamType /\ StreamType' /\ OrderInv /\ [Fifo!Next]_Fifo!vars => OrderInv'
<1> SUFFICES ASSUME StreamType, StreamType', OrderInv, [Fifo!Next]_Fifo!vars PROVE OrderInv'
  OBVIOUS
<1>1. CASE UNCHANGED Fifo!vars
  <2>1. Pieces' = Pieces /\ result' = result /\ Len(arrivals') = Len(arrivals) /\ offset' = offset
    BY <1>1 DEF Fifo!vars
  <2> QED
    BY <2>1 DEF OrderInv, PiecesInOrder, PiecesNotAfter, ResultFirst, ResultNotAfter, NotAfter
<1>2. CASE Fifo!Deliver
  <2>1. /\ Pieces' = Pieces /\ result' = result /\ Len(arrivals') = Len(arrivals) + 1
    BY <1>2 DEF Fifo!Deliver
  <2>2. ASSUME NEW b \in Byte, NotAfter(b) PROVE NotAfter(b)'
    <3>1. b.dg \in Nat /\ Len(arrivals) \in Nat
      BY DEF Byte, StreamType
    <3> QED
      BY <2>1, <2>2, <3>1 DEF NotAfter
  <2>3. /\ \A i \in 1..Len(Pieces) : \A k \in 1..Len(Pieces[i]) : Pieces[i][k] \in Byte
        /\ \A r \in 1..Len(result) : result[r] \in Byte
    BY ElementOfSeq DEF StreamType
  <2>4. PiecesNotAfter' /\ ResultNotAfter'
    <3>1. \A i \in 1..Len(Pieces) : \A k \in 1..Len(Pieces[i]) : NotAfter(Pieces[i][k])'
      BY <2>1, <2>2, <2>3 DEF OrderInv, PiecesNotAfter, NotAfter
    <3>2. \A r \in 1..Len(result) : NotAfter(result[r])'
      BY <2>1, <2>2, <2>3 DEF OrderInv, ResultNotAfter, NotAfter
    <3> QED
      BY <2>1, <3>1, <3>2 DEF PiecesNotAfter, ResultNotAfter
  <2> QED
    BY <2>1, <2>4 DEF OrderInv, PiecesInOrder, ResultFirst
<1>3. ASSUME NEW n \in 1..ChunkSize, Fifo!Put(n) PROVE OrderInv'
  BY <1>3, OrderPut, SizesAssumption
<1>4. CASE Fifo!Begin
  <2>1. Pieces' = Pieces /\ result' = <<>> /\ Len(arrivals') = Len(arrivals) /\ offset' = offset
    BY <1>4 DEF Fifo!Begin
  <2>2. Len(result') = 0
    BY <2>1, EmptySeq
  <2>3. 1..Len(result') = {}
    BY <2>2
  <2> QED
    BY <2>1, <2>3 DEF OrderInv, PiecesInOrder, PiecesNotAfter, ResultFirst, ResultNotAfter, NotAfter
<1>5. CASE Fifo!Clear
  <2>1. Pieces' = <<>> /\ result' = result /\ Len(arrivals') = Len(arrivals) /\ offset' = offset
    BY <1>5 DEF Fifo!Clear
  <2>2. Len(Pieces') = 0
    BY <2>1, EmptySeq
  <2>3. 1..Len(Pieces') = {}
    BY <2>2
  <2> QED
    BY <2>1, <2>3 DEF OrderInv, PiecesInOrder, PiecesNotAfter, ResultFirst, ResultNotAfter, NotAfter
<1> QED
  BY <1>1, <1>2, <1>3, <1>4, <1>5, OrderTake DEF Fifo!Next

(* Nothing has been read or queued at the start.                           *)
LEMMA OrderInit == StreamType /\ Fifo!Init => OrderInv
<1> SUFFICES ASSUME Pieces = <<>>, result = <<>> PROVE OrderInv
  BY DEF Fifo!Init
<1>1. Len(Pieces) = 0 /\ Len(result) = 0
  BY EmptySeq
<1>2. 1..Len(Pieces) = {} /\ 1..Len(result) = {}
  BY <1>1
<1> QED
  BY <1>2 DEF OrderInv, PiecesInOrder, PiecesNotAfter, ResultFirst, ResultNotAfter

(* Whatever the interleaving of handler and reader, recv() returns bytes   *)
(* in the order of their arrival, none of them twice.                      *)
THEOREM ReadsInOrder == Spec => []ResultInOrder
<1>1. StreamType /\ OrderInv => ResultInOrder
  <2> SUFFICES ASSUME StreamType, OrderInv, NEW i \in 1..(Len(result) - 1)
               PROVE  Before(result[i], result[i + 1])
    BY DEF ResultInOrder
  <2>1. i \in 1..Len(result) /\ i + 1 \in 1..Len(result) /\ i < i + 1
    BY LenProperties DEF StreamType
  <2> QED
    BY <2>1 DEF OrderInv, ResultFirst
<1> QED
  BY <1>1, InitImplements, StepImplements, RefInvariance, StreamTyped, OrderInit, OrderStep, PTL DEF Spec

-----------------------------------------------------------------------------
(* The source address, for a slot that only UDP sockets use.               *)

(* The address stored last is as new as any byte in a chunk in use and any *)
(* byte of the result.                                                     *)
Covers(address, b) == b.dg <= address.host /\ b.dg <= address.port

ChunksCovered == \A c \in InUse : \A i \in 1..Len(mem[c].data) : Covers(sourceAddr, mem[c].data[i])

ResultCovered == \A r \in 1..Len(result) : Covers(sourceAddr, result[r])

AddressInv ==
    /\ sourceAddr.host <= Len(arrivals) /\ sourceAddr.port <= Len(arrivals)
    /\ wpc \in {"port", "fill", "put", "idle"} => sourceAddr.host = Len(arrivals)
    /\ wpc \in {"fill", "put", "idle"} => sourceAddr.port = Len(arrivals)

CopyInv ==
    /\ rpc \in {"port", "idle"} => \A r \in 1..Len(result) : result[r].dg <= rsource.host
    /\ rpc = "idle" => \A r \in 1..Len(result) : result[r].dg <= rsource.port

SourceInv == kind = "UDP" /\ AddressInv /\ ChunksCovered /\ ResultCovered /\ CopyInv

(* Bytes of a chunk that is read come from that chunk.                     *)
LEMMA TakenFromChunk ==
    ASSUME TypeInv, NEW c \in Chunks, NEW n \in Nat, n <= Len(Unread(c)),
           result' = result \o SubSeq(Unread(c), 1, n), NEW r \in 1..Len(result')
    PROVE  \/ r \in 1..Len(result) /\ result'[r] = result[r]
           \/ \E i \in 1..Len(mem[c].data) : result'[r] = mem[c].data[i]
<1> DEFINE d == mem[c].data
           p == mem[c].position
           u == Unread(c)
<1>1. /\ Len(d) \in Nat /\ p \in Nat /\ u \in Seq(Byte) /\ Len(u) = Len(d) - p /\ Len(u) \in Nat
      /\ SubSeq(u, 1, n) \in Seq(Byte) /\ Len(SubSeq(u, 1, n)) = n
      /\ result \in Seq(Byte) /\ Len(result) \in Nat /\ d \in Seq(Byte)
  BY UnreadIsBytes, LenProperties DEF TypeInv, TypeOK, Content
<1>2. \A k \in 1..Len(u) : p + k \in 1..Len(d) /\ u[k] = d[p + k]
  <2>1. \A i \in (p + 1)..Len(d) : d[i] \in Byte
    BY <1>1, ElementOfSeq
  <2>2. u = SubSeq(d, p + 1, Len(d))
    BY DEF Unread
  <2> HIDE DEF u, d, p
  <2>3. \A k \in 1..((Len(d) - (p + 1)) + 1) : u[k] = d[((p + 1) + k) - 1]
    BY <1>1, <2>1, <2>2, SubSeqProperties
  <2>4. (Len(d) - (p + 1)) + 1 = Len(u)
    BY <1>1
  <2>5. \A k \in 1..Len(u) : ((p + 1) + k) - 1 = p + k /\ p + k \in 1..Len(d)
    BY <1>1
  <2> QED
    BY <2>3, <2>4, <2>5
<1>3. n <= Len(u)
  OBVIOUS
<1>4. result' = result \o SubSeq(u, 1, n)
  OBVIOUS
<1> HIDE DEF u, d, p
<1>5. \A k \in 1..n : SubSeq(u, 1, n)[k] = u[k] /\ k \in 1..Len(u)
  <2>1. \A i \in 1..n : u[i] \in Byte
    BY <1>1, <1>3, ElementOfSeq
  <2>2. \A k \in 1..((n - 1) + 1) : SubSeq(u, 1, n)[k] = u[(1 + k) - 1]
    BY <2>1, SubSeqProperties
  <2>3. (n - 1) + 1 = n
    OBVIOUS
  <2>4. \A k \in 1..n : (1 + k) - 1 = k /\ k \in 1..Len(u)
    BY <1>1, <1>3
  <2> QED
    BY <2>2, <2>3, <2>4
<1> DEFINE s == SubSeq(u, 1, n)
<1>6. s \in Seq(Byte) /\ Len(s) = n /\ result' = result \o s /\ \A k \in 1..n : s[k] = u[k]
  BY <1>1, <1>4, <1>5
<1> HIDE DEF s
<1>7. /\ Len(result') = Len(result) + n
      /\ \A q \in 1..(Len(result) + n) :
            result'[q] = IF q <= Len(result) THEN result[q] ELSE s[q - Len(result)]
  BY <1>1, <1>6, ConcatProperties
<1>8. CASE r <= Len(result)
  BY <1>1, <1>7, <1>8
<1>9. CASE ~(r <= Len(result))
  <2>1. r - Len(result) \in 1..n
    BY <1>1, <1>7, <1>9
  <2>2. result'[r] = u[r - Len(result)] /\ r - Len(result) \in 1..Len(u)
    BY <1>5, <1>6, <1>7, <1>9, <2>1
  <2> QED
    BY <1>2, <2>2 DEF d
<1> QED
  BY <1>8, <1>9

(* The writer stores the address before it queues a byte.                  *)
LEMMA SourceWriter ==
    ASSUME RefInv, SourceInv, Writer
    PROVE  SourceInv'
<1>0. /\ TypeInv /\ Len(arrivals) \in Nat
      /\ sourceAddr \in [host : Nat, port : Nat] /\ wpc \in {"idle", "host", "port", "fill", "put"}
      /\ wchunk \in Chunks \cup {NoChunk} /\ arrivals \in Seq(Nat)
      /\ mem \in [Chunks -> Content] /\ result \in Seq(Byte)
      /\ InUse \subseteq Chunks
  BY LenProperties DEF RefInv, Inv, TypeInv, TypeOK, InUse, QueuedChunks
<1>1. ASSUME NEW len \in UrcLens, UrcRecv(len) PROVE SourceInv'
  <2>1. Len(arrivals') = Len(arrivals) + 1
    <3>1. Least(len, RecvBufSize) \in Nat
      BY SizesAssumption DEF Least
    <3> QED
      BY <1>0, <1>1, <3>1, AppendProperties DEF UrcRecv
  <2>2. wpc' = "host"
    BY <1>1 DEF UrcRecv, SourceInv
  <2>3. AddressInv'
    BY <1>0, <1>1, <2>1, <2>2 DEF SourceInv, AddressInv, UrcRecv
  <2> QED
    BY <1>1, <2>3 DEF UrcRecv, SourceInv, ChunksCovered, ResultCovered, CopyInv, InUse, QueuedChunks,
       Covers, readerVars
<1>2. CASE SetSourceHost \/ SetSourcePort
  <2>1. /\ sourceAddr.host <= sourceAddr'.host /\ sourceAddr.port <= sourceAddr'.port
        /\ sourceAddr' \in [host : Nat, port : Nat] /\ AddressInv'
    BY <1>0, <1>2 DEF SetSourceHost, SetSourcePort, SourceInv, AddressInv
  <2>2. ASSUME NEW b \in Byte, Covers(sourceAddr, b) PROVE Covers(sourceAddr, b)'
    BY <1>0, <2>1, <2>2 DEF Covers, Byte
  <2>3. /\ \A c \in InUse : \A i \in 1..Len(mem[c].data) : mem[c].data[i] \in Byte
        /\ \A r \in 1..Len(result) : result[r] \in Byte
    <3>1. \A c \in InUse : mem[c].data \in Seq(Byte)
      BY <1>0 DEF Content
    <3> QED
      BY <1>0, <3>1, ElementOfSeq
  <2>4. UNCHANGED <<kind, recvData, current, wchunk, mem, result, rsource, rpc>>
    BY <1>2 DEF SetSourceHost, SetSourcePort, readerVars
  <2>5. ChunksCovered' /\ ResultCovered'
    <3>1. \A c \in InUse : \A i \in 1..Len(mem[c].data) : Covers(sourceAddr, mem[c].data[i])'
      BY <2>2, <2>3, <2>4 DEF SourceInv, ChunksCovered, Covers
    <3>2. \A r \in 1..Len(result) : Covers(sourceAddr, result[r])'
      BY <2>2, <2>3, <2>4 DEF SourceInv, ResultCovered, Covers
    <3> QED
      BY <2>4, <3>1, <3>2 DEF ChunksCovered, ResultCovered, InUse, QueuedChunks, Covers
  <2> QED
    BY <2>1, <2>4, <2>5 DEF SourceInv, CopyInv
<1>3. CASE GetChunk
  <2>1. PICK c \in mpool : /\ wchunk' = c
                          /\ mem' = [mem EXCEPT ![c] =
                               [data |-> [i \in 1..ChunkLen |-> [dg |-> Len(arrivals), idx |-> offset + i]],
                                position |-> 0,
                                boundary |-> IsLastChunk]]
    BY <1>3 DEF GetChunk
  <2>2. UNCHANGED <<kind, recvData, current, sourceAddr, arrivals, result, rsource, rpc>> /\ wpc' = "put"
    BY <1>3 DEF GetChunk, readerVars
  <2>3. c \in Chunks /\ ChunkLen \in Nat
    BY <1>0, <1>3, <2>1, FillIsContent DEF GetChunk, TypeInv, TypeOK
  <2>4. mem'[c].data = [i \in 1..ChunkLen |-> [dg |-> Len(arrivals), idx |-> offset + i]]
    BY <1>0, <2>1, <2>3
  <2>5. Len(mem'[c].data) = ChunkLen /\ \A i \in 1..ChunkLen : mem'[c].data[i].dg = Len(arrivals)
    BY <2>3, <2>4
  <2>6. sourceAddr.host = Len(arrivals) /\ sourceAddr.port = Len(arrivals)
    BY <1>3 DEF GetChunk, SourceInv, AddressInv
  <2>7. \A i \in 1..Len(mem'[c].data) : Covers(sourceAddr, mem'[c].data[i])
    BY <1>0, <2>5, <2>6 DEF Covers
  <2>8. InUse' \subseteq InUse \cup {c}
    BY <2>1, <2>2 DEF InUse, QueuedChunks
  <2>9. \A x \in InUse : mem'[x] = mem[x]
    BY <1>3, FillsUnused DEF RefInv
  <2>10. ChunksCovered'
    <3> SUFFICES ASSUME NEW x \in InUse', NEW i \in 1..Len(mem'[x].data)
                 PROVE  Covers(sourceAddr, mem'[x].data[i])
      BY <2>2 DEF ChunksCovered, Covers
    <3> QED
      BY <2>7, <2>8, <2>9 DEF SourceInv, ChunksCovered
  <2> QED
    BY <2>2, <2>6, <2>10 DEF SourceInv, AddressInv, ResultCovered, CopyInv, Covers
<1>4. CASE PutChunk \/ UrcDone
  <2>1. /\ UNCHANGED <<kind, mem, current, sourceAddr, arrivals, result, rsource, rpc>>
        /\ wpc \in {"fill", "put"} /\ wpc' \in {"fill", "idle"}
    BY <1>4 DEF PutChunk, UrcDone, readerVars
  <2>2. InUse' \subseteq InUse
    <3>1. CASE UrcDone
      BY <3>1 DEF UrcDone, InUse, QueuedChunks
    <3>2. CASE PutChunk
      <4>1. recvData \in Seq(Chunks) /\ wchunk \in Chunks /\ NoChunk \notin Chunks
        BY <1>0, <3>2, ChunksAssumption DEF PutChunk, TypeInv, WriterInv, TypeOK
      <4>2. QueuedChunks' \subseteq QueuedChunks \cup {wchunk}
        BY <3>2, <4>1, QueueAppend DEF PutChunk, QueuedChunks
      <4> QED
        BY <3>2, <4>1, <4>2 DEF PutChunk, InUse
    <3> QED
      BY <1>4, <3>1, <3>2
  <2> QED
    BY <2>1, <2>2 DEF SourceInv, AddressInv, ChunksCovered, ResultCovered, CopyInv, Covers
<1> QED
  BY <1>1, <1>2, <1>3, <1>4 DEF Writer

(* The reader moves covered bytes into the result and takes the address    *)
(* after them.                                                             *)
LEMMA SourceReader ==
    ASSUME RefInv, SourceInv, ReaderStep
    PROVE  SourceInv'
<1>0. /\ TypeInv /\ mem \in [Chunks -> Content] /\ result \in Seq(Byte) /\ Len(result) \in Nat
      /\ sourceAddr \in [host : Nat, port : Nat] /\ rsource \in [host : Nat, port : Nat]
      /\ InUse \subseteq Chunks /\ kind = "UDP"
      /\ \A r \in 1..Len(result) : result[r] \in Byte
  BY LenProperties, ElementOfSeq DEF RefInv, Inv, TypeInv, TypeOK, InUse, QueuedChunks, SourceInv
<1>1. CASE LoadChunk
  <2>1. UNCHANGED <<kind, mem, sourceAddr, wchunk, arrivals, wpc, result, rsource, rpc>>
    BY <1>1 DEF LoadChunk, writerVars, readerVars
  <2>2. InUse' \subseteq InUse
    <3>1. recvData \in Seq(Chunks) /\ recvData # <<>>
      BY <1>0, <1>1 DEF LoadChunk, TypeInv, TypeOK
    <3>2. \A j \in DOMAIN Tail(recvData) : j + 1 \in DOMAIN recvData /\ Tail(recvData)[j] = recvData[j + 1]
      BY <3>1
    <3>3. Head(recvData) = recvData[1] /\ 1 \in DOMAIN recvData
      BY <3>1, EmptySeq
    <3> QED
      BY <1>1, <3>2, <3>3 DEF LoadChunk, InUse, QueuedChunks, writerVars
  <2> QED
    BY <2>1, <2>2 DEF SourceInv, AddressInv, ChunksCovered, ResultCovered, CopyInv, Covers
<1>2. CASE ConsumeDatagramChunk
  <2>1. /\ UNCHANGED <<kind, recvData, sourceAddr, wchunk, arrivals, wpc, rsource>>
        /\ current \in InUse /\ current \in Chunks /\ rpc' \in {"host", "read"}
        /\ mem' = [mem EXCEPT ![current].position = Len(mem[current].data)]
        /\ current' = NoChunk
    BY <1>0, <1>2 DEF ConsumeDatagramChunk, FreeCurrent, writerVars, InUse, TypeInv, TypeOK
  <2>2. \A x \in Chunks : mem'[x].data = mem[x].data
    BY <1>0, <2>1 DEF Content
  <2>3. InUse' \subseteq InUse
    BY <2>1 DEF InUse, QueuedChunks
  <2>4. ChunksCovered'
    BY <1>0, <2>1, <2>2, <2>3 DEF SourceInv, ChunksCovered, Covers
  <2>5. Least(Remaining, Len(Unread(current))) \in Nat
        /\ Least(Remaining, Len(Unread(current))) <= Len(Unread(current))
    <3>1. Remaining \in Nat /\ Len(Unread(current)) \in Nat
      BY <1>0, <2>1, UnreadIsBytes, LenProperties DEF Remaining, RefInv, Inv, ResultFits, TypeInv, TypeOK
    <3> QED
      BY <3>1 DEF Least
  <2>6. result' = result \o SubSeq(Unread(current), 1, Least(Remaining, Len(Unread(current))))
    BY <1>2 DEF ConsumeDatagramChunk
  <2>7. ResultCovered'
    <3> SUFFICES ASSUME NEW r \in 1..Len(result') PROVE Covers(sourceAddr, result'[r])
      BY <2>1 DEF ResultCovered, Covers
    <3>1. \/ r \in 1..Len(result) /\ result'[r] = result[r]
          \/ \E i \in 1..Len(mem[current].data) : result'[r] = mem[current].data[i]
      BY <1>0, <2>1, <2>5, <2>6, TakenFromChunk
    <3> QED
      BY <2>1, <3>1 DEF SourceInv, ChunksCovered, ResultCovered
  <2> QED
    BY <2>1, <2>4, <2>7 DEF SourceInv, AddressInv, CopyInv
<1>3. CASE ReadEnd
  <2>1. /\ UNCHANGED <<kind, recvData, current, mem, sourceAddr, wchunk, arrivals, wpc, result, rsource>>
        /\ rpc' = "host"
    BY <1>0, <1>3 DEF ReadEnd, writerVars
  <2> QED
    BY <2>1 DEF SourceInv, AddressInv, ChunksCovered, ResultCovered, CopyInv, Covers,
       InUse, QueuedChunks
<1>4. CASE CopySourceHost
  <2>1. /\ UNCHANGED <<kind, recvData, current, mem, sourceAddr, wchunk, arrivals, wpc, result>>
        /\ rpc' = "port" /\ rsource'.host = sourceAddr.host
    BY <1>0, <1>4 DEF CopySourceHost, writerVars
  <2> QED
    BY <2>1 DEF SourceInv, AddressInv, ChunksCovered, ResultCovered, CopyInv, Covers,
       InUse, QueuedChunks
<1>5. CASE CopySourcePort
  <2>1. /\ UNCHANGED <<kind, recvData, current, mem, sourceAddr, wchunk, arrivals, wpc, result>>
        /\ rpc = "port" /\ rpc' = "idle" /\ rsource'.port = sourceAddr.port /\ rsource'.host = rsource.host
    BY <1>0, <1>5 DEF CopySourcePort, writerVars
  <2> QED
    BY <2>1 DEF SourceInv, AddressInv, ChunksCovered, ResultCovered, CopyInv, Covers,
       InUse, QueuedChunks
<1>6. CASE ConsumeData
  BY <1>0, <1>6 DEF ConsumeData
<1> QED
  BY <1>1, <1>2, <1>3, <1>4, <1>5, <1>6 DEF ReaderStep

(* Every step of a UDP slot keeps the address newer than the data.         *)
LEMMA SourceStep ==
    ASSUME Kinds = {"UDP"}, RefInv, SourceInv, [Next]_vars
    PROVE  SourceInv'
<1>1. CASE UNCHANGED vars
  BY <1>1 DEF vars, writerVars, readerVars, SourceInv, AddressInv, ChunksCovered, ResultCovered, CopyInv,
     Covers, InUse, QueuedChunks
<1>2. ASSUME NEW size \in ReadSizes, Recv(size) PROVE SourceInv'
  <2>1. /\ UNCHANGED <<kind, recvData, current, mem, sourceAddr, wchunk, arrivals, wpc, rsource>>
        /\ result' = <<>>
    BY <1>2 DEF Recv, writerVars
  <2>2. 1..Len(result') = {}
    BY <2>1, EmptySeq
  <2> QED
    BY <2>1, <2>2 DEF SourceInv, AddressInv, ChunksCovered, ResultCovered, CopyInv, Covers,
       InUse, QueuedChunks
<1>3. CASE Flush
  <2>1. /\ UNCHANGED <<kind, mem, sourceAddr, wchunk, arrivals, wpc, result, rsource, rpc>>
        /\ recvData' = <<>> /\ current' = NoChunk
    BY <1>3 DEF Flush, writerVars, readerVars
  <2>2. DOMAIN recvData' = {}
    BY <2>1
  <2>3. InUse' \subseteq InUse
    BY <2>1, <2>2 DEF InUse, QueuedChunks
  <2> QED
    BY <2>1, <2>3 DEF SourceInv, AddressInv, ChunksCovered, ResultCovered, CopyInv, Covers
<1>4. ASSUME NEW k \in Kinds \ {kind}, Reopen(k) PROVE SourceInv'
  BY <1>4 DEF SourceInv
<1> QED
  BY <1>1, <1>2, <1>3, <1>4, SourceWriter, SourceReader DEF Next

(* No address and no byte at the start.                                    *)
LEMMA SourceInit == Kinds = {"UDP"} /\ Init => SourceInv
<1> SUFFICES ASSUME Kinds = {"UDP"}, Init PROVE SourceInv
  OBVIOUS
<1>1. DOMAIN recvData = {} /\ 1..Len(result) = {} /\ Len(arrivals) = 0 /\ InUse = {}
  BY EmptySeq DEF Init, InUse, QueuedChunks
<1> QED
  BY <1>1 DEF Init, NoAddress, SourceInv, AddressInv, ChunksCovered, ResultCovered, CopyInv

(* On a slot only UDP sockets use, recvfrom() never reports an address     *)
(* older than the data it returns: set_source_address() comes before the   *)
(* first put_chunk(), and the reader copies the address after the data.    *)
THEOREM SourcesAreFresh ==
    ASSUME Kinds = {"UDP"}
    PROVE  Spec => []SourceNotStale
<1>1. RefInv /\ SourceInv => SourceNotStale
  <2> SUFFICES ASSUME RefInv, SourceInv, rpc = "idle", result # <<>>
               PROVE  rsource.host >= result[Len(result)].dg /\ rsource.port >= result[Len(result)].dg
    BY DEF SourceNotStale
  <2>1. result \in Seq(Byte) /\ rsource \in [host : Nat, port : Nat]
    BY DEF RefInv, Inv, TypeInv, TypeOK
  <2>2. Len(result) \in 1..Len(result)
    BY <2>1, EmptySeq, LenProperties
  <2>3. result[Len(result)] \in Byte
    BY <2>1, <2>2, ElementOfSeq
  <2>4. result[Len(result)].dg \in Nat
    BY <2>3 DEF Byte
  <2> QED
    BY <2>1, <2>2, <2>4 DEF SourceInv, CopyInv
<1>2. Init => SourceInv
  BY SourceInit
<1>3. RefInv /\ SourceInv /\ [Next]_vars => SourceInv'
  BY SourceStep
<1> QED
  BY <1>1, <1>2, <1>3, RefInvariance, PTL DEF Spec

-----------------------------------------------------------------------------
(* One datagram per call, when every datagram fits a chunk.                *)

(* A UDP slot whose datagrams fit a chunk holds each of them in a chunk of *)
(* its own, marked as the last, which a call takes at once.                *)
Fitting ==
    /\ Kinds = {"UDP"}
    /\ \A len \in UrcLens : len <= ChunkSize

IsWhole(c) ==
    /\ mem[c].position = 0 /\ mem[c].boundary
    /\ \E d \in 1..Len(arrivals) : mem[c].data = Datagram(d)

WholeChunks == \A c \in InUse : IsWhole(c)

FillInv ==
    /\ \A d \in 1..Len(arrivals) : arrivals[d] <= ChunkSize
    /\ wpc \in {"host", "port", "put"} => offset = 0
    /\ wpc = "fill" => offset = 0 \/ offset >= Decoded

CallInv ==
    /\ rpc = "read" => result = <<>>
    /\ rpc \in {"host", "port"} /\ result # <<>> =>
          \E d \in 1..Len(arrivals) :
             result[1].dg = d /\ result = SubSeq(Datagram(d), 1, Least(rsize, arrivals[d]))

DatagramInv == kind = "UDP" /\ FillInv /\ WholeChunks /\ CallInv

(* While nothing arrives the datagrams stay what they are.                 *)
LEMMA DatagramsKept ==
    ASSUME UNCHANGED arrivals
    PROVE  \A d \in 1..Len(arrivals) : Datagram(d)' = Datagram(d)
BY DEF Datagram

(* Who leaves the caller's buffer alone leaves the call as it is.          *)
LEMMA CallKept ==
    ASSUME CallInv, UNCHANGED <<arrivals, result, rsize>>,
           rpc' = rpc \/ (rpc' # "read" /\ (rpc = "read" => result = <<>>)
                          /\ (rpc' \in {"host", "port"} => rpc \in {"read", "host", "port"}))
    PROVE  CallInv'
BY DatagramsKept DEF CallInv

(* Who leaves the chunks alone, but for freeing some, leaves them whole.   *)
LEMMA ChunksKept ==
    ASSUME WholeChunks, UNCHANGED <<arrivals, mem>>, InUse' \subseteq InUse
    PROVE  WholeChunks'
BY DatagramsKept DEF WholeChunks, IsWhole

(* A datagram that fits fills one chunk.                                   *)
LEMMA WholeWriter ==
    ASSUME Fitting, RefInv, DatagramInv, Writer
    PROVE  DatagramInv'
<1>0. /\ TypeInv /\ Len(arrivals) \in Nat /\ arrivals \in Seq(Nat) /\ kind = "UDP"
      /\ mem \in [Chunks -> Content] /\ InUse \subseteq Chunks /\ ChunkSize \in Nat
      /\ offset \in Nat
      /\ wpc # "idle" => Len(arrivals) \in 1..Len(arrivals) /\ Decoded \in Nat
  <2>1. TypeInv /\ arrivals \in Seq(Nat) /\ Len(arrivals) \in Nat
    BY LenProperties DEF RefInv, Inv, TypeInv, TypeOK
  <2>2. wpc # "idle" => Len(arrivals) \in 1..Len(arrivals)
    BY <2>1, EmptySeq DEF TypeInv, WriterInv
  <2> QED
    BY <2>1, <2>2, ElementOfSeq, SizesAssumption
    DEF TypeInv, TypeOK, InUse, QueuedChunks, DatagramInv, Decoded
<1>1. ASSUME NEW len \in UrcLens, UrcRecv(len) PROVE DatagramInv'
  <2>1. Least(len, RecvBufSize) \in Nat /\ Least(len, RecvBufSize) <= ChunkSize
    BY <1>0, SizesAssumption DEF Least, Fitting
  <2>2. /\ Len(arrivals') = Len(arrivals) + 1
        /\ \A d \in 1..Len(arrivals) : arrivals'[d] = arrivals[d]
        /\ arrivals'[Len(arrivals) + 1] = Least(len, RecvBufSize)
    BY <1>0, <1>1, <2>1, AppendProperties DEF UrcRecv
  <2>3. /\ UNCHANGED <<kind, recvData, current, wchunk, mem, rpc, rsize, result>>
        /\ offset' = 0 /\ wpc' = "host"
    BY <1>0, <1>1 DEF UrcRecv, readerVars
  <2>4. FillInv'
    <3>1. ASSUME NEW d \in 1..(Len(arrivals) + 1) PROVE arrivals'[d] <= ChunkSize
      <4>1. CASE d = Len(arrivals) + 1
        BY <2>1, <2>2, <4>1
      <4>2. CASE d # Len(arrivals) + 1
        <5>1. d \in 1..Len(arrivals)
          BY <1>0, <4>2
        <5> QED
          BY <2>2, <5>1 DEF DatagramInv, FillInv
      <4> QED
        BY <4>1, <4>2
    <3> QED
      BY <2>2, <2>3, <3>1 DEF FillInv
  <2>5. \A d \in 1..Len(arrivals) : Datagram(d)' = Datagram(d) /\ d \in 1..Len(arrivals')
    BY <1>0, <2>2 DEF Datagram
  <2>6. WholeChunks'
    BY <2>3, <2>5 DEF DatagramInv, WholeChunks, IsWhole, InUse, QueuedChunks
  <2>7. CallInv'
    BY <2>3, <2>2, <2>5 DEF DatagramInv, CallInv
  <2> QED
    BY <2>3, <2>4, <2>6, <2>7 DEF DatagramInv
<1>2. CASE SetSourceHost \/ SetSourcePort
  <2>1. /\ UNCHANGED <<kind, recvData, current, wchunk, mem, rpc, rsize, result, arrivals, offset>>
        /\ wpc \in {"host", "port"} /\ wpc' \in {"port", "fill"}
    BY <1>2 DEF SetSourceHost, SetSourcePort, readerVars
  <2>2. FillInv'
    BY <2>1 DEF DatagramInv, FillInv
  <2>3. InUse' = InUse
    BY <2>1 DEF InUse, QueuedChunks
  <2> QED
    BY <2>1, <2>2, <2>3, ChunksKept, CallKept DEF DatagramInv
<1>3. CASE GetChunk
  <2>1. PICK c \in mpool : /\ wchunk' = c
                          /\ mem' = [mem EXCEPT ![c] =
                               [data |-> [i \in 1..ChunkLen |-> [dg |-> Len(arrivals), idx |-> offset + i]],
                                position |-> 0,
                                boundary |-> IsLastChunk]]
    BY <1>3 DEF GetChunk
  <2>2. /\ UNCHANGED <<kind, recvData, current, rpc, rsize, result, arrivals, offset>>
        /\ wpc = "fill" /\ wpc' = "put" /\ offset < Decoded
    BY <1>3 DEF GetChunk, readerVars
  <2>3. c \in Chunks
    BY <1>0, <2>1 DEF TypeInv, TypeOK
  <2>4. offset = 0 /\ Decoded <= ChunkSize /\ Decoded = arrivals[Len(arrivals)]
    <3>1. Decoded = arrivals[Len(arrivals)]
      BY DEF Decoded
    <3>2. Decoded \in Nat /\ Len(arrivals) \in 1..Len(arrivals)
      BY <1>0, <2>2
    <3>3. offset = 0 \/ offset >= Decoded
      BY <2>2 DEF DatagramInv, FillInv
    <3> QED
      BY <1>0, <2>2, <3>1, <3>2, <3>3 DEF DatagramInv, FillInv
  <2>5. ChunkLen = Decoded /\ IsLastChunk
    <3>1. Decoded \in Nat /\ Decoded - offset = Decoded
      BY <1>0, <2>2, <2>4
    <3>2. ChunkLen = Decoded
      BY <1>0, <2>4, <3>1 DEF ChunkLen, Least
    <3> QED
      BY <1>0, <2>4, <3>1, <3>2 DEF IsLastChunk
  <2>6. [i \in 1..ChunkLen |-> [dg |-> Len(arrivals), idx |-> offset + i]] = Datagram(Len(arrivals))
    <3>1. \A i \in 1..ChunkLen : offset + i = i
      BY <2>4
    <3> QED
      BY <2>4, <2>5, <3>1 DEF Datagram
  <2>7. IsWhole(c)'
    <3>1. /\ mem'[c].position = 0 /\ mem'[c].boundary
          /\ mem'[c].data = Datagram(Len(arrivals))
      BY <1>0, <2>1, <2>3, <2>5, <2>6
    <3>2. Len(arrivals) \in 1..Len(arrivals)
      BY <1>0, <2>2
    <3> QED
      BY <2>2, <3>1, <3>2, DatagramsKept DEF IsWhole
  <2>8. InUse' \subseteq InUse \cup {c}
    BY <2>1, <2>2 DEF InUse, QueuedChunks
  <2>9. \A x \in InUse : mem'[x] = mem[x]
    BY <1>3, FillsUnused DEF RefInv
  <2>10. \A x \in InUse : IsWhole(x)'
    BY <2>2, <2>9, DatagramsKept DEF DatagramInv, WholeChunks, IsWhole
  <2>11. WholeChunks'
    BY <2>7, <2>8, <2>10 DEF WholeChunks
  <2> QED
    BY <2>2, <2>4, <2>11, CallKept DEF DatagramInv, FillInv
<1>4. CASE PutChunk
  <2>1. /\ UNCHANGED <<kind, mem, current, arrivals, rpc, rsize, result>>
        /\ wpc = "put" /\ wpc' = "fill" /\ offset' = offset + ChunkLen
    BY <1>4 DEF PutChunk, readerVars
  <2>2. offset = 0 /\ Decoded <= ChunkSize
    BY <1>0, <2>1 DEF DatagramInv, FillInv, Decoded
  <2>3. offset' = Decoded /\ Decoded' = Decoded
    BY <1>0, <2>1, <2>2 DEF ChunkLen, Least, Decoded
  <2>4. FillInv'
    BY <1>0, <2>1, <2>3 DEF DatagramInv, FillInv
  <2>5. InUse' \subseteq InUse
    <3>1. recvData \in Seq(Chunks) /\ wchunk \in Chunks /\ NoChunk \notin Chunks
      BY <1>0, <2>1, ChunksAssumption DEF TypeInv, WriterInv, TypeOK
    <3>2. QueuedChunks' \subseteq QueuedChunks \cup {wchunk}
      BY <1>4, <3>1, QueueAppend DEF PutChunk, QueuedChunks
    <3> QED
      BY <1>4, <3>1, <3>2 DEF PutChunk, InUse
  <2> QED
    BY <2>1, <2>4, <2>5, ChunksKept, CallKept DEF DatagramInv
<1>5. CASE UrcDone
  <2>1. /\ UNCHANGED <<kind, recvData, mem, current, wchunk, arrivals, rpc, rsize, result, offset>>
        /\ wpc' = "idle"
    BY <1>5 DEF UrcDone, readerVars
  <2>2. InUse' = InUse
    BY <2>1 DEF InUse, QueuedChunks
  <2> QED
    BY <2>1, <2>2, ChunksKept, CallKept DEF DatagramInv, FillInv
<1> QED
  BY <1>1, <1>2, <1>3, <1>4, <1>5 DEF Writer

(* A call takes one chunk, and with it one datagram.                       *)
LEMMA WholeReader ==
    ASSUME RefInv, DatagramInv, ReaderStep
    PROVE  DatagramInv'
<1>0. /\ TypeInv /\ ChunksPartitioned /\ mem \in [Chunks -> Content] /\ kind = "UDP"
      /\ InUse \subseteq Chunks /\ rsize \in Nat /\ arrivals \in Seq(Nat)
  BY DEF RefInv, Inv, TypeInv, TypeOK, InUse, QueuedChunks, DatagramInv
<1>1. CASE LoadChunk
  <2>1. /\ UNCHANGED <<kind, mem, wchunk, arrivals, offset, wpc, result, rsize, rpc>>
        /\ current' = Head(recvData) /\ recvData' = Tail(recvData)
        /\ recvData \in Seq(Chunks) /\ recvData # <<>>
    BY <1>0, <1>1 DEF LoadChunk, writerVars, readerVars, TypeInv, TypeOK
  <2>2. InUse' \subseteq InUse
    BY <2>1, QueueTail DEF InUse, QueuedChunks
  <2> QED
    BY <2>1, <2>2, ChunksKept, CallKept DEF DatagramInv, FillInv, Decoded
<1>2. CASE ConsumeDatagramChunk
  <2>1. /\ UNCHANGED <<kind, recvData, wchunk, arrivals, offset, wpc, rsize>>
        /\ rpc = "read" /\ current \in Chunks /\ current # NoChunk
        /\ mem' = [mem EXCEPT ![current].position = Len(mem[current].data)]
        /\ current' = NoChunk
        /\ rpc' = IF mem[current].boundary THEN "host" ELSE "read"
        /\ result' = result \o SubSeq(Unread(current), 1, Least(Remaining, Len(Unread(current))))
    BY <1>0, <1>2 DEF ConsumeDatagramChunk, FreeCurrent, writerVars, TypeInv, TypeOK
  <2>2. \A x \in Chunks : x # current => mem'[x] = mem[x]
    BY <1>0, <2>1
  <2>3. InUse' \subseteq InUse \ {current}
    <3>1. current # wchunk /\ current \notin QueuedChunks
      BY <1>0, <2>1 DEF ChunksPartitioned, Owned
    <3> QED
      BY <2>1, <3>1 DEF InUse, QueuedChunks
  <2>4. WholeChunks'
    <3>1. ASSUME NEW x \in InUse' PROVE IsWhole(x)'
      <4>1. x \in InUse /\ mem'[x] = mem[x]
        BY <1>0, <2>2, <2>3
      <4>2. PICK d \in 1..Len(arrivals) : mem[x].data = Datagram(d)
        BY <4>1 DEF DatagramInv, WholeChunks, IsWhole
      <4>3. Datagram(d)' = Datagram(d) /\ d \in 1..Len(arrivals')
        BY <2>1, DatagramsKept
      <4>4. mem[x].position = 0 /\ mem[x].boundary
        BY <4>1 DEF DatagramInv, WholeChunks, IsWhole
      <4> QED
        BY <4>1, <4>2, <4>3, <4>4 DEF IsWhole
    <3> QED
      BY <3>1 DEF WholeChunks
  <2>5. current \in InUse /\ IsWhole(current) /\ result = <<>>
    BY <2>1 DEF InUse, DatagramInv, WholeChunks, CallInv
  <2>6. PICK d \in 1..Len(arrivals) : mem[current].data = Datagram(d)
    BY <2>5 DEF IsWhole
  <2>7. arrivals[d] \in Nat /\ Datagram(d) \in Seq(Byte) /\ Len(Datagram(d)) = arrivals[d]
    <3>1. arrivals[d] \in Nat
      BY <1>0, <2>6, ElementOfSeq
    <3>2. mem[current].data \in Seq(Byte)
      BY <1>0, <2>1 DEF Content
    <3>3. Len(Datagram(d)) = arrivals[d]
      BY <3>1 DEF Datagram
    <3> QED
      BY <2>6, <3>1, <3>2, <3>3
  <2>8. Unread(current) = Datagram(d)
    <3>1. Unread(current) = SubSeq(Datagram(d), 1, Len(Datagram(d)))
      BY <2>5, <2>6 DEF Unread, IsWhole
    <3> QED
      BY <2>7, <3>1, SubSeqFull
  <2>9. Least(Remaining, Len(Unread(current))) = Least(rsize, arrivals[d])
    <3>1. Remaining = rsize
      BY <1>0, <2>5, EmptySeq DEF Remaining
    <3> QED
      BY <2>7, <2>8, <3>1
  <2> DEFINE n == Least(rsize, arrivals[d])
             s == SubSeq(Datagram(d), 1, n)
  <2>10. n \in Nat /\ n <= Len(Datagram(d))
    BY <1>0, <2>7 DEF Least
  <2> HIDE DEF n
  <2>11. s \in Seq(Byte) /\ Len(s) = n
    BY <2>7, <2>10, PartOfSeq
  <2>12. result' = s
    <3>1. result' = <<>> \o s
      BY <2>1, <2>5, <2>8, <2>9 DEF n
    <3> HIDE DEF s
    <3> QED
      BY <2>11, <3>1, ConcatEmptySeq
  <2>13. s # <<>> => s[1].dg = d
    <3> SUFFICES ASSUME s # <<>> PROVE s[1].dg = d
      OBVIOUS
    <3>1. 1 \in 1..n
      <4> HIDE DEF s
      <4>1. n # 0
        BY <2>11, EmptySeq
      <4> QED
        BY <2>10, <4>1
    <3>2. \A i \in 1..n : Datagram(d)[i] \in Byte
      BY <2>7, <2>10, ElementOfSeq
    <3>3. s[1] = Datagram(d)[1]
      <4> DEFINE t == Datagram(d)
      <4>0. \A i \in 1..n : t[i] \in Byte
        BY <3>2
      <4> HIDE DEF t
      <4>1. \A k \in 1..((n - 1) + 1) : SubSeq(t, 1, n)[k] = t[(1 + k) - 1]
        BY <2>10, <4>0, SubSeqProperties
      <4>2. 1 \in 1..((n - 1) + 1) /\ (1 + 1) - 1 = 1
        BY <2>10, <3>1
      <4>3. SubSeq(t, 1, n)[1] = t[(1 + 1) - 1]
        BY <4>1, <4>2
      <4>4. SubSeq(t, 1, n)[1] = t[1]
        BY <4>2, <4>3
      <4> QED
        BY <4>4 DEF t
    <3>4. 1 \in 1..arrivals[d]
      BY <2>7, <2>10, <3>1
    <3>5. Datagram(d)[1] = [dg |-> d, idx |-> 1]
      BY <3>4 DEF Datagram
    <3>6. [dg |-> d, idx |-> 1].dg = d
      OBVIOUS
    <3> QED
      BY <3>3, <3>5, <3>6
  <2>14. rpc' = "host"
    BY <2>1, <2>5 DEF IsWhole
  <2>15. CallInv'
    <3>1. result' # <<>> => result'[1].dg = d
      <4> HIDE DEF s
      <4> QED
        BY <2>12, <2>13
    <3>2. Datagram(d)' = Datagram(d) /\ d \in 1..Len(arrivals')
      BY <2>1, <2>6, DatagramsKept
    <3>3. result' = SubSeq(Datagram(d)', 1, Least(rsize', arrivals'[d]))
      BY <2>1, <2>12, <3>2 DEF n
    <3> QED
      BY <2>14, <3>1, <3>2, <3>3 DEF CallInv
  <2> QED
    BY <2>1, <2>4, <2>15 DEF DatagramInv, FillInv, Decoded
<1>3. CASE ReadEnd \/ CopySourceHost \/ CopySourcePort
  <2>1. UNCHANGED <<kind, recvData, current, mem, wchunk, arrivals, offset, wpc, rsize, result>>
    BY <1>3 DEF ReadEnd, CopySourceHost, CopySourcePort, writerVars
  <2>2. rpc' # "read" /\ (rpc = "read" => result = <<>>)
        /\ (rpc' \in {"host", "port"} => rpc \in {"read", "host", "port"})
    BY <1>0, <1>3 DEF ReadEnd, CopySourceHost, CopySourcePort, DatagramInv, CallInv
  <2>3. InUse' = InUse
    BY <2>1 DEF InUse, QueuedChunks
  <2> QED
    BY <2>1, <2>2, <2>3, ChunksKept, CallKept DEF DatagramInv, FillInv, Decoded
<1>4. CASE ConsumeData
  BY <1>0, <1>4 DEF ConsumeData
<1> QED
  BY <1>1, <1>2, <1>3, <1>4 DEF ReaderStep

(* Every step keeps one datagram to a chunk.                               *)
LEMMA WholeStep ==
    ASSUME Fitting, RefInv, DatagramInv, [Next]_vars
    PROVE  DatagramInv'
<1>1. CASE UNCHANGED vars
  <2>1. UNCHANGED <<kind, recvData, mem, current, wpc, wchunk, arrivals, rpc, rsize, result, offset>>
    BY <1>1 DEF vars, writerVars, readerVars
  <2>2. InUse' = InUse
    BY <2>1 DEF InUse, QueuedChunks
  <2> QED
    BY <2>1, <2>2, ChunksKept, CallKept DEF DatagramInv, FillInv, Decoded
<1>2. ASSUME NEW size \in ReadSizes, Recv(size) PROVE DatagramInv'
  <2>1. /\ UNCHANGED <<kind, recvData, current, mem, wchunk, arrivals, offset, wpc>>
        /\ result' = <<>> /\ rpc' = "read"
    BY <1>2 DEF Recv, writerVars
  <2>2. InUse' = InUse
    BY <2>1 DEF InUse, QueuedChunks
  <2>3. CallInv'
    BY <2>1 DEF CallInv
  <2> QED
    BY <2>1, <2>2, <2>3, ChunksKept DEF DatagramInv, FillInv, Decoded
<1>3. CASE Flush
  <2>1. /\ UNCHANGED <<kind, mem, wchunk, arrivals, offset, wpc, rsize, result, rpc>>
        /\ recvData' = <<>> /\ current' = NoChunk
    BY <1>3 DEF Flush, writerVars, readerVars
  <2>2. InUse' \subseteq InUse
    BY <2>1, EmptySeq DEF InUse, QueuedChunks
  <2> QED
    BY <2>1, <2>2, ChunksKept, CallKept DEF DatagramInv, FillInv, Decoded
<1>4. ASSUME NEW k \in Kinds \ {kind}, Reopen(k) PROVE DatagramInv'
  BY <1>4 DEF DatagramInv, Fitting
<1> QED
  BY <1>1, <1>2, <1>3, <1>4, WholeWriter, WholeReader DEF Next

(* Nothing has arrived at the start.                                       *)
LEMMA WholeInit == Fitting /\ Init => DatagramInv
<1> SUFFICES ASSUME Fitting, Init PROVE DatagramInv
  OBVIOUS
<1>1. DOMAIN recvData = {} /\ 1..Len(arrivals) = {} /\ InUse = {}
  BY EmptySeq DEF Init, InUse, QueuedChunks
<1> QED
  BY <1>1 DEF Init, Fitting, DatagramInv, FillInv, WholeChunks, CallInv

(* When every datagram fits a chunk, recvfrom() returns exactly one per    *)
(* call, cut to the caller's size: get_datagram() stops at the boundary    *)
(* that receive_into_buffer() sets on its only chunk.  (A longer one may   *)
(* be split and lose its end on overflow.)                                 *)
THEOREM OneDatagram ==
    ASSUME Fitting
    PROVE  Spec => []OneDatagramPerCall
<1>1. DatagramInv => OneDatagramPerCall
  <2> SUFFICES ASSUME DatagramInv, rpc \in {"host", "port"}, result # <<>>
               PROVE  result = SubSeq(Datagram(result[1].dg), 1, Least(rsize, arrivals[result[1].dg]))
    BY DEF OneDatagramPerCall
  <2> QED
    BY DEF DatagramInv, CallInv
<1>2. Init => DatagramInv
  BY WholeInit
<1>3. RefInv /\ DatagramInv /\ [Next]_vars => DatagramInv'
  BY WholeStep
<1> QED
  BY <1>1, <1>2, <1>3, RefInvariance, PTL DEF Spec
=============================================================================
