---------------------------- MODULE SocketBuffer ----------------------------
(***************************************************************************)
(* The receive buffer of one socket slot (QUECTEL_BC660KGL_SocketBuffer)   *)
(* with the two parties that use it:                                       *)
(*                                                                         *)
(*  - the writer, a +QIURC "recv" (or +QSSLURC "recv") handler.  It holds  *)
(*    the AT lock from its first to its last step, so there is never more  *)
(*    than one writer;                                                     *)
(*  - the reader, an application thread inside socket_recvfrom_impl(),     *)
(*    which holds no AT lock ("no at.lock() is needed"); the per-socket    *)
(*    lock of Mbed's InternetSocket keeps it apart from a sender's flush.  *)
(*                                                                         *)
(* The pool and the queue are RTOS objects, so each call on them is one    *)
(* step; everything between two such calls interleaves with the other      *)
(* party.  A payload byte is the datagram it came in and its index there.  *)
(***************************************************************************)
EXTENDS Naturals, Sequences, FiniteSets

CONSTANTS
    Chunks,         \* the sb_chunk slots of _mpool
    NoChunk,        \* nullptr
    ChunkSize,      \* SOCKET_BUFFER_CHUNK_SIZE
    RecvBufSize,    \* BC660KGL_RECV_BUF_SIZE
    Kinds,          \* kinds of socket that may use this slot
    UrcLens,        \* payload lengths a "recv" URC may announce
    ReadSizes,      \* sizes an application passes to recv()
    MaxArrivals     \* bound on the number of "recv" URCs explored

ASSUME ChunksAssumption ==
    IsFiniteSet(Chunks) /\ Chunks # {} /\ NoChunk \notin Chunks

ASSUME SizesAssumption ==
    /\ ChunkSize \in 1..255      \* sb_chunk.size is a uint8_t
    /\ RecvBufSize \in Nat \ {0}
    /\ UrcLens \subseteq Nat
    /\ ReadSizes \subseteq Nat
    /\ MaxArrivals \in Nat

ASSUME KindsAssumption == Kinds \subseteq {"UDP", "TCP", "TLS"}

VARIABLES
    kind,       \* the kind of the socket that uses the slot now
    mpool,      \* chunks free in _mpool
    recvData,   \* _recv_data: chunks queued for the reader
    current,    \* _current: the chunk being read
    mem,        \* what is in each chunk
    sourceAddr, \* _source_addr: host and port, stored one after the other
    wpc,        \* where the writer is
    wchunk,     \* the chunk the writer has taken and not yet queued
    offset,     \* bytes of the current URC already queued
    arrivals,   \* history: decoded length of every URC handled so far
    rpc,        \* where the reader is
    rsize,      \* size argument of the recv() being served
    result,     \* the caller's buffer
    rsource     \* the caller's *source

writerVars == <<wpc, wchunk, offset, arrivals>>
readerVars == <<rpc, rsize, result, rsource>>
vars == <<kind, mpool, recvData, current, mem, sourceAddr, writerVars, readerVars>>

Least(a, b) == IF a < b THEN a ELSE b

(* Mutant: a queue one slot shorter than the pool. *)
QueueDepthShort == Cardinality(Chunks) - 1

(* The queue and the pool are sized by the same macro. *)
QueueDepth == Cardinality(Chunks)

Byte == [dg : Nat, idx : Nat]

Content == [data : Seq(Byte), position : Nat, boundary : BOOLEAN]

(* An address is named by the URC that announced it; 0 before the first.   *)
NoAddress == [host |-> 0, port |-> 0]

(* The bytes of chunk c the reader has not consumed yet. *)
Unread(c) == SubSeq(mem[c].data, mem[c].position + 1, Len(mem[c].data))

Decoded == arrivals[Len(arrivals)]

ChunkLen == Least(ChunkSize, Decoded - offset)

-----------------------------------------------------------------------------
Init ==
    /\ kind \in Kinds
    /\ mpool = Chunks
    /\ recvData = <<>>
    /\ current = NoChunk
    /\ mem = [c \in Chunks |-> [data |-> <<>>, position |-> 0, boundary |-> FALSE]]
    /\ sourceAddr = NoAddress
    /\ wpc = "idle" /\ wchunk = NoChunk /\ offset = 0 /\ arrivals = <<>>
    /\ rpc = "idle" /\ rsize = 0 /\ result = <<>> /\ rsource = NoAddress

-----------------------------------------------------------------------------
(* The writer: urc_qiurc(URC_RECV) / urc_qsslurc_recv(), under the AT lock. *)

(* Mutant: the source address of a datagram is not stored. *)
UrcRecvNoAddress(len) ==
    /\ wpc = "idle"
    /\ Len(arrivals) < MaxArrivals
    /\ arrivals' = Append(arrivals, Least(len, RecvBufSize))
    /\ offset' = 0
    /\ wpc' = "fill"
    /\ UNCHANGED <<kind, mpool, recvData, current, mem, sourceAddr, wchunk, readerVars>>

(* The handler has found the socket; read_hex_string() decodes at most     *)
(* RecvBufSize bytes of the payload.                                       *)
UrcRecv(len) ==
    /\ wpc = "idle"
    /\ Len(arrivals) < MaxArrivals
    /\ arrivals' = Append(arrivals, Least(len, RecvBufSize))
    /\ offset' = 0
    /\ wpc' = IF kind = "UDP" THEN "host" ELSE "fill"
    /\ UNCHANGED <<kind, mpool, recvData, current, mem, sourceAddr, wchunk, readerVars>>

(* set_source_address(): a SocketAddress is assigned member by member.     *)
SetSourceHost ==
    /\ wpc = "host"
    /\ sourceAddr' = [sourceAddr EXCEPT !.host = Len(arrivals)]
    /\ wpc' = "port"
    /\ UNCHANGED <<kind, mpool, recvData, current, mem, wchunk, offset, arrivals, readerVars>>

SetSourcePort ==
    /\ wpc = "port"
    /\ sourceAddr' = [sourceAddr EXCEPT !.port = Len(arrivals)]
    /\ wpc' = "fill"
    /\ UNCHANGED <<kind, mpool, recvData, current, mem, wchunk, offset, arrivals, readerVars>>

(* Mutant: off by one in the test for the last chunk. *)
IsLastChunkLate == kind # "TLS" /\ offset + ChunkLen > Decoded

(* One turn of receive_into_buffer()'s loop up to put_chunk(): take a      *)
(* chunk, copy into it, mark it if it ends the datagram.                   *)
IsLastChunk == kind # "TLS" /\ offset + ChunkLen >= Decoded

(* Mutant: memcpy from the start of _recv_buf, whatever the offset. *)
GetChunkNoOffset ==
    /\ wpc = "fill" /\ offset < Decoded
    /\ \E c \in mpool :
         /\ mpool' = mpool \ {c}
         /\ wchunk' = c
         /\ mem' = [mem EXCEPT ![c] =
              [data |-> [i \in 1..ChunkLen |-> [dg |-> Len(arrivals), idx |-> i]],
               position |-> 0,
               boundary |-> IsLastChunk]]
    /\ wpc' = "put"
    /\ UNCHANGED <<kind, recvData, current, sourceAddr, offset, arrivals, readerVars>>

GetChunk ==
    /\ wpc = "fill" /\ offset < Decoded
    /\ \E c \in mpool :
         /\ mpool' = mpool \ {c}
         /\ wchunk' = c
         /\ mem' = [mem EXCEPT ![c] =
              [data |-> [i \in 1..ChunkLen |-> [dg |-> Len(arrivals), idx |-> offset + i]],
               position |-> 0,
               boundary |-> IsLastChunk]]
    /\ wpc' = "put"
    /\ UNCHANGED <<kind, recvData, current, sourceAddr, offset, arrivals, readerVars>>

(* put_chunk() ignores the result of try_put(): a full queue loses the chunk. *)
PutChunk ==
    /\ wpc = "put"
    /\ recvData' = IF Len(recvData) < QueueDepth THEN Append(recvData, wchunk) ELSE recvData
    /\ wchunk' = NoChunk
    /\ offset' = offset + ChunkLen
    /\ wpc' = "fill"
    /\ UNCHANGED <<kind, mpool, current, mem, sourceAddr, arrivals, readerVars>>

(* Everything decoded is queued, or the pool is exhausted and the rest is  *)
(* dropped; the handler releases the lock.                                 *)
UrcDone ==
    /\ wpc = "fill"
    /\ offset >= Decoded \/ mpool = {}
    /\ wpc' = "idle"
    /\ UNCHANGED <<kind, mpool, recvData, current, mem, sourceAddr, wchunk, offset, arrivals, readerVars>>

Writer == \/ \E len \in UrcLens : UrcRecv(len)
          \/ SetSourceHost \/ SetSourcePort \/ GetChunk \/ PutChunk \/ UrcDone

-----------------------------------------------------------------------------
(* The reader: get_datagram() for UDP, get_data() for TCP and TLS.         *)

Recv(size) ==
    /\ rpc = "idle"
    /\ rpc' = "read" /\ rsize' = size /\ result' = <<>>
    /\ UNCHANGED <<kind, mpool, recvData, current, mem, sourceAddr, writerVars, rsource>>

Remaining == rsize - Len(result)

Satisfied == kind # "UDP" /\ Remaining = 0

LoadChunk ==
    /\ rpc = "read" /\ ~Satisfied
    /\ current = NoChunk /\ recvData # <<>>
    /\ current' = Head(recvData)
    /\ recvData' = Tail(recvData)
    /\ UNCHANGED <<kind, mpool, mem, sourceAddr, writerVars, readerVars>>

(* Mutant: _current is forgotten without going back to the pool. *)
FreeCurrentLeak ==
    /\ current' = NoChunk
    /\ UNCHANGED mpool

FreeCurrent ==
    /\ mpool' = mpool \cup {current}
    /\ current' = NoChunk

(* Mutant: get_datagram() copies every byte, whatever the size of the buffer. *)
ConsumeDatagramChunkAll ==
    /\ rpc = "read" /\ kind = "UDP" /\ current # NoChunk
    /\ result' = result \o Unread(current)
    /\ mem' = [mem EXCEPT ![current].position = Len(mem[current].data)]
    /\ FreeCurrent
    /\ rpc' = IF mem[current].boundary THEN "host" ELSE "read"
    /\ UNCHANGED <<kind, recvData, sourceAddr, writerVars, rsize, rsource>>

(* get_datagram() consumes the whole chunk, discarding what does not fit,  *)
(* and goes on until it has consumed a boundary.                           *)
ConsumeDatagramChunk ==
    /\ rpc = "read" /\ kind = "UDP" /\ current # NoChunk
    /\ result' = result \o SubSeq(Unread(current), 1, Least(Remaining, Len(Unread(current))))
    /\ mem' = [mem EXCEPT ![current].position = Len(mem[current].data)]
    /\ FreeCurrent
    /\ rpc' = IF mem[current].boundary THEN "host" ELSE "read"
    /\ UNCHANGED <<kind, recvData, sourceAddr, writerVars, rsize, rsource>>

(* Mutant: the position of a partly read chunk is not advanced. *)
ConsumeDataStuck ==
    /\ rpc = "read" /\ kind # "UDP" /\ ~Satisfied /\ current # NoChunk
    /\ LET n == Least(Remaining, Len(Unread(current))) IN
         /\ result' = result \o SubSeq(Unread(current), 1, n)
         /\ IF n = Len(Unread(current)) THEN FreeCurrent ELSE UNCHANGED <<mpool, current>>
    /\ UNCHANGED <<kind, recvData, mem, sourceAddr, writerVars, rpc, rsize, rsource>>

(* Mutant: a chunk is freed only when the loop leaves bytes in it. *)
ConsumeDataKeep ==
    /\ rpc = "read" /\ kind # "UDP" /\ ~Satisfied /\ current # NoChunk
    /\ LET n == Least(Remaining, Len(Unread(current))) IN
         /\ result' = result \o SubSeq(Unread(current), 1, n)
         /\ mem' = [mem EXCEPT ![current].position = @ + n]
         /\ IF n < Len(Unread(current)) THEN FreeCurrent ELSE UNCHANGED <<mpool, current>>
    /\ UNCHANGED <<kind, recvData, sourceAddr, writerVars, rpc, rsize, rsource>>

(* get_data() consumes what still fits, keeping a partly read chunk.       *)
ConsumeData ==
    /\ rpc = "read" /\ kind # "UDP" /\ ~Satisfied /\ current # NoChunk
    /\ LET n == Least(Remaining, Len(Unread(current))) IN
         /\ result' = result \o SubSeq(Unread(current), 1, n)
         /\ mem' = [mem EXCEPT ![current].position = @ + n]
         /\ IF n = Len(Unread(current)) THEN FreeCurrent ELSE UNCHANGED <<mpool, current>>
    /\ UNCHANGED <<kind, recvData, sourceAddr, writerVars, rpc, rsize, rsource>>

(* Nothing left to read, or the caller's buffer is full. *)
ReadEnd ==
    /\ rpc = "read"
    /\ Satisfied \/ (current = NoChunk /\ recvData = <<>>)
    /\ rpc' = IF kind = "UDP" THEN "host" ELSE "idle"
    /\ UNCHANGED <<kind, mpool, recvData, current, mem, sourceAddr, writerVars, rsize, result, rsource>>

(* *source = _source_addr, member by member. *)
CopySourceHost ==
    /\ rpc = "host"
    /\ rsource' = [rsource EXCEPT !.host = sourceAddr.host]
    /\ rpc' = "port"
    /\ UNCHANGED <<kind, mpool, recvData, current, mem, sourceAddr, writerVars, rsize, result>>

CopySourcePort ==
    /\ rpc = "port"
    /\ rsource' = [rsource EXCEPT !.port = sourceAddr.port]
    /\ rpc' = "idle"
    /\ UNCHANGED <<kind, mpool, recvData, current, mem, sourceAddr, writerVars, rsize, result>>

ReaderStep == \/ LoadChunk \/ ConsumeDatagramChunk \/ ConsumeData
              \/ ReadEnd \/ CopySourceHost \/ CopySourcePort

-----------------------------------------------------------------------------
(* socket_sendto() on a UDP socket flushes what is buffered.  It holds the *)
(* AT lock (no writer) and the socket's own lock (no reader).              *)
QueuedChunks == {recvData[i] : i \in DOMAIN recvData}

(* Mutant: _current is freed without a test for nullptr. *)
FlushUnchecked ==
    /\ kind = "UDP" /\ wpc = "idle" /\ rpc = "idle"
    /\ recvData # <<>> \/ current # NoChunk
    /\ mpool' = mpool \cup QueuedChunks \cup {current}
    /\ recvData' = <<>>
    /\ current' = NoChunk
    /\ UNCHANGED <<kind, mem, sourceAddr, writerVars, readerVars>>

Flush ==
    /\ kind = "UDP" /\ wpc = "idle" /\ rpc = "idle"
    /\ recvData # <<>> \/ current # NoChunk
    /\ mpool' = mpool \cup QueuedChunks \cup (IF current = NoChunk THEN {} ELSE {current})
    /\ recvData' = <<>>
    /\ current' = NoChunk
    /\ UNCHANGED <<kind, mem, sourceAddr, writerVars, readerVars>>

(* The slot's socket is closed and another one gets the slot: the buffer   *)
(* stays in _socket_buffers as it is.                                      *)
Reopen(k) ==
    /\ wpc = "idle" /\ rpc = "idle"
    /\ kind' = k
    /\ UNCHANGED <<mpool, recvData, current, mem, sourceAddr, writerVars, readerVars>>

Next == \/ Writer
        \/ \E size \in ReadSizes : Recv(size)
        \/ ReaderStep
        \/ Flush
        \/ \E k \in Kinds \ {kind} : Reopen(k)

Spec == Init /\ [][Next]_vars

(* The scheduler runs a thread that has something to do. *)
FairSpec == Spec /\ WF_vars(ReaderStep)

-----------------------------------------------------------------------------
(* Properties.                                                             *)

TypeOK ==
    /\ kind \in Kinds
    /\ mpool \subseteq Chunks
    /\ recvData \in Seq(Chunks)
    /\ current \in Chunks \cup {NoChunk}
    /\ mem \in [Chunks -> Content]
    /\ sourceAddr \in [host : Nat, port : Nat]
    /\ wpc \in {"idle", "host", "port", "fill", "put"}
    /\ wchunk \in Chunks \cup {NoChunk}
    /\ offset \in Nat
    /\ arrivals \in Seq(Nat)
    /\ rpc \in {"idle", "read", "host", "port"}
    /\ rsize \in Nat
    /\ result \in Seq(Byte)
    /\ rsource \in [host : Nat, port : Nat]

(* Every chunk is in exactly one place: free, queued once, being read, or  *)
(* being written.  No order of get_chunk, put_chunk, get_data, get_datagram*)
(* and flush loses a chunk (the slot would go deaf for good) or lets the   *)
(* writer refill a chunk that is still to be read.                         *)
QueueInjective ==
    \A i, j \in DOMAIN recvData : recvData[i] = recvData[j] => i = j

Owned == {current, wchunk} \ {NoChunk}

ChunksPartitioned ==
    /\ QueueInjective
    /\ current # NoChunk => current # wchunk
    /\ mpool \cap QueuedChunks = {}
    /\ Owned \cap (mpool \cup QueuedChunks) = {}
    /\ Chunks = mpool \cup QueuedChunks \cup Owned

(* While the writer holds a chunk the queue has room for it, so the result *)
(* of try_put() that put_chunk() ignores is never a failure.               *)
PutHasRoom == wchunk # NoChunk => Len(recvData) < QueueDepth

(* get_data()'s and get_datagram()'s writes stay within the caller's       *)
(* buffer, whatever is queued meanwhile.                                   *)
ResultFits == Len(result) <= rsize

(* What a call returns is in the order the modem delivered it: datagrams   *)
(* in order, bytes of one datagram in order, nothing twice.  (Holes are    *)
(* possible: overflow, truncation and flush drop bytes.)                   *)
Before(a, b) == a.dg < b.dg \/ (a.dg = b.dg /\ a.idx < b.idx)

ResultInOrder ==
    \A i \in 1..(Len(result) - 1) : Before(result[i], result[i + 1])

(* A socket's datagram that fits one chunk is returned whole (up to the    *)
(* caller's size) and alone: "get_datagram() returns exactly one UDP       *)
(* datagram per call" (receive_into_buffer).  Checked with UrcLens up to   *)
(* ChunkSize here, and refuted for longer datagrams in a run of its own.    *)
Datagram(d) == [i \in 1..arrivals[d] |-> [dg |-> d, idx |-> i]]

OneDatagramPerCall ==
    (kind = "UDP" /\ rpc \in {"host", "port"} /\ result # <<>>) =>
        LET d == result[1].dg
        IN  result = SubSeq(Datagram(d), 1, Least(rsize, arrivals[d]))

(* The address recvfrom() reports is never older than the data it reports  *)
(* it for: set_source_address() precedes the first put_chunk().            *)
SourceNotStale ==
    (rpc = "idle" /\ kind = "UDP" /\ result # <<>>) =>
        LET d == result[Len(result)].dg IN rsource.host >= d /\ rsource.port >= d

(* How many steps a get_data() may still take: a byte costs it at most the *)
(* loading and the consuming of a chunk.                                   *)
StepsLeft ==
    IF rpc = "idle" THEN 0 ELSE 1 + 2 * Remaining + (IF current = NoChunk THEN 1 ELSE 0)

(* get_data() (TCP and TLS) ends after a number of steps that depends on   *)
(* the size it was called with alone: each of them brings it nearer to the *)
(* end, and nothing the writer does meanwhile takes it back.               *)
ReadDescends ==
    [][(kind # "UDP" /\ rpc # "idle")
          => IF ReaderStep THEN StepsLeft' \in 0..(StepsLeft - 1) ELSE StepsLeft' = StepsLeft]_vars

(* Every recv() call gets to its end: neither loop of the reader runs for  *)
(* ever, whatever the writer queues meanwhile.                             *)
CallReturns == rpc # "idle" ~> rpc = "idle"

=============================================================================
