----------------------------- MODULE ByteStream -----------------------------
(***************************************************************************)
(* What a pipe promises: bytes come out in the order they went in, none is *)
(* lost or made up as long as both ends are open, and no more than Size of *)
(* them are under way.                                                     *)
(***************************************************************************)
EXTENDS Naturals, Sequences

CONSTANTS Byte, Size

VARIABLES
  q,       \* bytes under way, the oldest first
  reader,  \* the read end is open
  writer   \* the write end is open

vars == <<q, reader, writer>>

Init == q = <<>> /\ ~reader /\ ~writer

Make == ~reader /\ ~writer /\ reader' /\ writer' /\ q' = <<>>

Send == /\ writer
        /\ Len(q') > Len(q) /\ Len(q') <= Size
        /\ SubSeq(q', 1, Len(q)) = q
        /\ UNCHANGED <<reader, writer>>

Receive == reader /\ q # <<>> /\ q' = Tail(q) /\ UNCHANGED <<reader, writer>>

CloseReader == reader /\ ~reader' /\ UNCHANGED writer /\ q' = IF writer THEN q ELSE <<>>
CloseWriter == writer /\ ~writer' /\ UNCHANGED reader /\ q' = IF reader THEN q ELSE <<>>

Next == Make \/ Send \/ Receive \/ CloseReader \/ CloseWriter

Spec == Init /\ [][Next]_vars
=============================================================================
