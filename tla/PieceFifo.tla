------------------------------ MODULE PieceFifo ------------------------------
(***************************************************************************)
(* What a socket's receive buffer promises, without pool, chunks or locks: *)
(* a lossy first-in first-out channel of pieces of datagrams.  The modem's *)
(* side adds pieces of the newest datagram, each starting where the last   *)
(* one ended; a reader takes from the front only, as much as fits, and     *)
(* what it does not take from a piece either stays or is cut off.          *)
(***************************************************************************)
EXTENDS Naturals, Sequences

CONSTANT MaxPiece   \* the most bytes one piece holds

VARIABLES
    pieces,     \* what can still be read, oldest first
    newest,     \* datagram being delivered, and how much of it is queued
    result,     \* what the current (or last) read has returned so far
    room        \* how much more it may return

vars == <<pieces, newest, result, room>>

Init ==
    /\ pieces = <<>>
    /\ newest = [dg |-> 0, idx |-> 0]
    /\ result = <<>>
    /\ room = 0

(* The next datagram starts; what was not queued of the last one is lost.  *)
Deliver ==
    /\ newest' = [dg |-> newest.dg + 1, idx |-> 0]
    /\ UNCHANGED <<pieces, result, room>>

Put(n) ==
    /\ pieces' = Append(pieces, [i \in 1..n |-> [dg |-> newest.dg, idx |-> newest.idx + i]])
    /\ newest' = [newest EXCEPT !.idx = @ + n]
    /\ UNCHANGED <<result, room>>

Begin ==
    /\ result' = <<>>
    /\ room' \in Nat
    /\ UNCHANGED <<pieces, newest>>

Fit(n) == IF room < n THEN room ELSE n

(* The reader takes what fits of the oldest piece. *)
Take ==
    /\ pieces # <<>>
    /\ LET piece == Head(pieces)
           n == Fit(Len(piece))
       IN  /\ result' = result \o SubSeq(piece, 1, n)
           /\ room' = room - n
           /\ \/ pieces' = Tail(pieces)
              \/ /\ n < Len(piece)
                 /\ pieces' = <<SubSeq(piece, n + 1, Len(piece))>> \o Tail(pieces)
    /\ UNCHANGED newest

Clear ==
    /\ pieces' = <<>>
    /\ UNCHANGED <<newest, result, room>>

Next == Deliver \/ (\E n \in 1..MaxPiece : Put(n)) \/ Begin \/ Take \/ Clear

Spec == Init /\ [][Next]_vars
=============================================================================
