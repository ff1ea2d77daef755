----------------------- MODULE SocketBufferRefinement -----------------------
(***************************************************************************)
(* SocketBuffer implements PieceFifo: the piece being read, then the       *)
(* queued ones, each without the bytes already consumed.                   *)
(***************************************************************************)
EXTENDS SocketBuffer

Pieces ==
    (IF current = NoChunk THEN <<>> ELSE <<Unread(current)>>)
        \o [i \in DOMAIN recvData |-> Unread(recvData[i])]

Fifo == INSTANCE PieceFifo WITH
    MaxPiece <- ChunkSize,
    pieces   <- Pieces,
    newest   <- [dg |-> Len(arrivals), idx |-> offset],
    room     <- Remaining

(* The buffer is a first-in first-out channel that may lose the tail of a  *)
(* datagram on arrival or on truncation and everything on a flush, but     *)
(* never reorders, repeats or invents a byte, however the URC handler and  *)
(* the reader interleave.                                                  *)
ImplementsFifo == Fifo!Spec
=============================================================================
