------------------------------ MODULE LogProofs ------------------------------
(***************************************************************************)
(* Log for any number of processes, blocks and contents, and any size of   *)
(* an operation and of the log: the log implements an atomic store, keeps  *)
(* room for what it let in, and strands nobody.                            *)
(***************************************************************************)
EXTENDS Log, FiniteSetTheorems, TLAPS

(* While one process commits, no operation is under way and no other       *)
(* process commits.                                                        *)
LEMMA CommitterFacts ==
  ASSUME TypeOK, CountInv, BootInv, NEW p \in Proc, pc[p] \in Busy
  PROVE  /\ boot = "up" /\ committing /\ outstanding = 0
         /\ \A q \in Proc : q # p => pc[q] \in {"idle", "asleep", "retry"}
<1>1. committing /\ Ops = {}
  BY DEF CountInv, At
<1>2. outstanding = 0
  BY <1>1, FS_EmptySet DEF CountInv
<1>3. boot = "up"
  BY DEF BootInv, Busy
<1>4. \A q \in Proc : q # p => pc[q] \in {"idle", "asleep", "retry"}
  BY <1>1 DEF CountInv, Ops, TypeOK, Busy
<1> QED
  BY <1>1, <1>2, <1>3, <1>4

(* There are finitely many operations, and their number bounds the room    *)
(* that is reserved for them.                                              *)
ReservedBound ==
  /\ IsFiniteSet(Ops) /\ Cardinality(Proc) \in Nat
  /\ Cardinality(Ops) \in 0 .. Cardinality(Proc)
  /\ IsFiniteSet(Reserved) /\ Cardinality(Reserved) \in Nat
  /\ Cardinality(Reserved) <= Cardinality(Ops) * MAXOPBLOCKS
  /\ Ops = {} => Cardinality(Ops) = 0 /\ Cardinality(Reserved) = 0

(* The reserved places are finitely many.                                  *)
LEMMA ReservedFacts == ReservedBound
<1>1. IsFiniteSet(Ops) /\ Cardinality(Ops) <= Cardinality(Proc)
  BY FS_Subset, LogAssumption DEF Ops
<1>2. Cardinality(Ops) \in Nat /\ Cardinality(Proc) \in Nat
  BY <1>1, FS_CardinalityType, LogAssumption
<1>3. IsFiniteSet(1 .. MAXOPBLOCKS) /\ Cardinality(1 .. MAXOPBLOCKS) = MAXOPBLOCKS
  BY FS_Interval, LogAssumption
<1>4. /\ IsFiniteSet(Ops \X (1 .. MAXOPBLOCKS))
      /\ Cardinality(Ops \X (1 .. MAXOPBLOCKS)) = Cardinality(Ops) * MAXOPBLOCKS
  BY <1>1, <1>3, FS_Product
<1>5. Reserved \subseteq Ops \X (1 .. MAXOPBLOCKS)
  BY DEF Reserved, Ops
<1>6. /\ IsFiniteSet(Reserved)
      /\ Cardinality(Reserved) <= Cardinality(Ops) * MAXOPBLOCKS
  BY <1>4, <1>5, FS_Subset
<1>7. Cardinality(Reserved) \in Nat
  BY <1>6, FS_CardinalityType
<1>8. Ops = {} => Cardinality(Ops) = 0 /\ Cardinality(Reserved) = 0
  BY <1>5, FS_EmptySet
<1> QED
  BY <1>1, <1>2, <1>6, <1>7, <1>8 DEF ReservedBound


(* ... before and after a step.                                            *)
LEMMA ReservedNext == ReservedBound /\ ReservedBound'
  BY ReservedFacts, PTL

(* Which places are reserved. *)
LEMMA ReservedMember ==
  /\ \A q \in Proc, i \in 1 .. MAXOPBLOCKS :
       <<q, i>> \in Reserved <=> pc[q] = "op" /\ i > Cardinality(mine[q])
  /\ \A q \in Proc, i \in 1 .. MAXOPBLOCKS :
       <<q, i>> \in Reserved' <=> pc'[q] = "op" /\ i > Cardinality(mine'[q])
  BY DEF Reserved

(* Nothing more is reserved when operations end or write. *)
LEMMA ReservedShrinks ==
  ASSUME MAXOPBLOCKS \in Nat,
         \A q \in Proc : Cardinality(mine'[q]) \in Nat /\ Cardinality(mine[q]) \in Nat,
         \A q \in Proc : pc'[q] = "op" =>
           pc[q] = "op" /\ Cardinality(mine'[q]) >= Cardinality(mine[q])
  PROVE  Reserved' \subseteq Reserved
<1> SUFFICES ASSUME NEW r \in Reserved' PROVE r \in Reserved
  OBVIOUS
<1>1. r \in Proc \X (1 .. MAXOPBLOCKS) /\ pc'[r[1]] = "op" /\ r[2] > Cardinality(mine'[r[1]])
  BY DEF Reserved
<1>2. r[1] \in Proc /\ r[2] \in Nat
  BY <1>1
<1>3. pc[r[1]] = "op" /\ r[2] > Cardinality(mine[r[1]])
  BY <1>1, <1>2
<1> QED
  BY <1>1, <1>3 DEF Reserved

(* Where p is, when nobody else commits. *)
StageOf(p) ==
  /\ At(Busy) <=> pc[p] \in Busy
  /\ At({"writelog"}) <=> pc[p] = "writelog"
  /\ At({"writehead"}) <=> pc[p] = "writehead"
  /\ At({"install"}) <=> pc[p] = "install"
  /\ At({"clear"}) <=> pc[p] = "clear"
  /\ At({"finish"}) <=> pc[p] = "finish"
  /\ At({"install", "clear"}) <=> pc[p] \in {"install", "clear"}
  /\ At({"writelog", "writehead", "install"}) <=> pc[p] \in {"writelog", "writehead", "install"}

(* If nobody else commits, the stage of the commit is where p is.          *)
LEMMA StageFacts ==
  ASSUME NEW p \in Proc
  PROVE  /\ (\A q \in Proc : q # p => pc[q] \notin Busy) => StageOf(p)
         /\ ((\A q \in Proc : q # p => pc[q] \notin Busy) => StageOf(p))'
<1>1. (\A q \in Proc : q # p => pc[q] \notin Busy) => StageOf(p)
  BY DEF StageOf, At, Busy
<1>2. ((\A q \in Proc : q # p => pc[q] \notin Busy) => StageOf(p))'
  BY <1>1, PTL
<1> QED
  BY <1>1, <1>2

(* The stage of the commit does not change. *)
SameStage ==
  /\ At(Busy)' <=> At(Busy)
  /\ At({"writelog"})' <=> At({"writelog"})
  /\ At({"writehead"})' <=> At({"writehead"})
  /\ At({"install"})' <=> At({"install"})
  /\ At({"clear"})' <=> At({"clear"})
  /\ At({"finish"})' <=> At({"finish"})
  /\ At({"install", "clear"})' <=> At({"install", "clear"})
  /\ At({"writelog", "writehead", "install"})' <=> At({"writelog", "writehead", "install"})

(* A step of a process that does not commit leaves the stage alone.        *)
LEMMA SameStageFacts ==
  ASSUME \A q \in Proc : pc'[q] # pc[q] => pc[q] \notin Busy /\ pc'[q] \notin Busy
  PROVE  SameStage
  BY DEF SameStage, At, Busy

(* begin_op() sleeps, or lets the operation in with room for its blocks.   *)
LEMMA BeginOpIInv ==
  ASSUME IInv, NEW p \in Proc, BeginOp(p)
  PROVE  IInv'
<1> USE DEF IInv
<1> DEFINE enters == ~committing /\ Room
<1>1. /\ ReservedBound /\ ReservedBound'
      /\ MAXOPBLOCKS \in Nat \ {0} /\ LOGBLOCKS \in Nat /\ MAXOPBLOCKS <= LOGBLOCKS
      /\ outstanding = Cardinality(Ops)
  BY ReservedNext, LogAssumption DEF CountInv
<1>2. /\ pc' \in [Proc -> {"idle", "asleep", "retry", "op", "writelog", "writehead",
                           "install", "clear", "finish"}]
      /\ pc' = [pc EXCEPT ![p] = IF enters THEN "op" ELSE "asleep"]
      /\ outstanding' = IF enters THEN outstanding + 1 ELSE outstanding
      /\ boot = "up" /\ pc[p] \in {"idle", "retry"}
      /\ UNCHANGED <<home, logged, head, cache, pinned, lh, committing, mine, tail, boot>>
  BY DEF TypeOK, BeginOp, Goto, disk
<1> HIDE DEF enters
<1>3. SameStage
  <2>1. \A q \in Proc : pc'[q] # pc[q] => pc[q] \notin Busy /\ pc'[q] \notin Busy
    BY <1>2 DEF Busy, TypeOK
  <2> QED
    BY <2>1, SameStageFacts
<1>4. Ops' = IF enters THEN Ops \cup {p} ELSE Ops
  BY <1>2 DEF Ops, TypeOK
<1>5. outstanding' = Cardinality(Ops')
  <2>1. p \notin Ops
    BY <1>2 DEF Ops
  <2> QED
    BY <1>1, <1>2, <1>4, <2>1, FS_AddElement DEF ReservedBound
<1>6. TypeOK'
  BY <1>1, <1>2, <1>5 DEF TypeOK, ReservedBound
<1>7. CountInv'
  <2>1. \A q, r \in Proc : pc'[q] \in Busy /\ pc'[r] \in Busy => q = r
    BY <1>2 DEF CountInv, TypeOK, Busy
  <2>2. committing' => Ops' = {}
    BY <1>2, <1>4 DEF CountInv, enters
  <2> QED
    BY <1>2, <1>3, <1>5, <2>1, <2>2 DEF CountInv, SameStage
<1>8. BootInv'
  BY <1>2 DEF BootInv
<1>9. HeadInv' /\ TailInv' /\ CopyInv' /\ HomeInv'
  BY <1>2, <1>3 DEF HeadInv, TailInv, CopyInv, HomeInv, Committed, SameStage
<1>10. EmptyInv'
  BY <1>1, <1>2, <1>3 DEF EmptyInv, SameStage, ReservedBound
<1>11. PinInv' /\ MineInv'
  BY <1>2, <1>3 DEF PinInv, MineInv, Waiting, SameStage, InLog
<1>12. SpaceReserved'
  <2>1. CASE enters
    <3>1. /\ Cardinality(Reserved') \in Nat
          /\ Cardinality(Reserved') <= (outstanding + 1) * MAXOPBLOCKS
      BY <1>1, <1>2, <1>5, <2>1 DEF ReservedBound
    <3>2. (outstanding + 1) * MAXOPBLOCKS \in Nat /\ Len(lh) \in Nat
      BY <1>1 DEF ReservedBound, TypeOK
    <3> QED
      BY <1>1, <1>2, <2>1, <3>1, <3>2 DEF Room, SpaceReserved, enters
  <2>2. CASE ~enters
    <3>1. Reserved' = Reserved
      BY <1>2, <2>2 DEF Reserved, TypeOK
    <3> QED
      BY <1>2, <3>1 DEF SpaceReserved
  <2> QED
    BY <2>1, <2>2
<1>13. NobodyStranded'
  <2>1. CASE enters
    BY <1>1, <1>2, <2>1 DEF NobodyStranded, ReservedBound
  <2>2. CASE ~enters
    <3>1. outstanding = 0 => Len(lh) + (outstanding + 1) * MAXOPBLOCKS <= LOGBLOCKS
             \/ committing
      BY <1>1, <1>2 DEF EmptyInv, ReservedBound
    <3>2. committing \/ outstanding > 0
      BY <1>1, <2>2, <3>1 DEF Room, ReservedBound, enters
    <3> QED
      BY <1>2, <2>2, <3>2 DEF NobodyStranded
  <2> QED
    BY <2>1, <2>2
<1> QED
  BY <1>6, <1>7, <1>8, <1>9, <1>10, <1>11, <1>12, <1>13


(* log_write() of a block that is in the log already is absorbed; a new    *)
(* one takes a place that was reserved for it.                             *)
LEMMA LogWriteIInv ==
  ASSUME IInv, NEW p \in Proc, NEW b \in Block, NEW v \in Val, LogWrite(p, b, v)
  PROVE  IInv'
<1> USE DEF IInv, LogWrite, MayWrite, disk
<1>1. /\ ReservedBound /\ ReservedBound'
      /\ MAXOPBLOCKS \in Nat \ {0} /\ LOGBLOCKS \in Nat /\ v # NotCached
  BY ReservedNext, LogAssumption
<1>2. SameStage
  <2>1. \A q \in Proc : pc'[q] # pc[q] => pc[q] \notin Busy /\ pc'[q] \notin Busy
    OBVIOUS
  <2> QED
    BY <2>1, SameStageFacts
<1>3. p \in Ops /\ Ops' = Ops /\ boot = "up" /\ ~committing /\ outstanding > 0
  <2>1. p \in Ops /\ Ops' = Ops /\ boot = "up" /\ ~committing
    BY DEF Ops, CountInv, BootInv
  <2>2. outstanding # 0
    BY <1>1, <2>1, FS_EmptySet DEF CountInv, ReservedBound
  <2> QED
    BY <2>1, <2>2 DEF TypeOK
<1>4. ~At(Busy) /\ \A q \in Proc : pc[q] \notin Busy
  BY <1>3 DEF CountInv, At
<1>5. /\ ~At({"writelog"}) /\ ~At({"writehead"}) /\ ~At({"install"}) /\ ~At({"clear"})
      /\ ~At({"finish"}) /\ ~At({"install", "clear"}) /\ ~At({"writelog", "writehead", "install"})
  BY <1>4 DEF At, Busy
<1>6. /\ lh' \in Seq(Block) /\ Len(lh') \in Nat /\ Len(lh) \in Nat
      /\ Len(lh') = IF InLog(b) THEN Len(lh) ELSE Len(lh) + 1
      /\ \A i \in 1 .. Len(lh) : lh'[i] = lh[i]
      /\ ~InLog(b) => lh'[Len(lh) + 1] = b
  BY DEF TypeOK
<1>7. TypeOK'
  BY <1>1, <1>6 DEF TypeOK
<1>8. CountInv' /\ BootInv' /\ NobodyStranded'
  BY <1>2, <1>3 DEF CountInv, BootInv, NobodyStranded, SameStage
<1>9. HeadInv'
  BY <1>2, <1>3, <1>5, <1>6 DEF HeadInv, SameStage, Committed, InLog
<1>10. EmptyInv' /\ TailInv' /\ CopyInv' /\ HomeInv'
  BY <1>2, <1>3, <1>5 DEF EmptyInv, TailInv, CopyInv, HomeInv, SameStage
<1>11. PinInv'
  <2>1. \A c \in Block : (\E i \in 1 .. Len(lh') : lh'[i] = c) <=> InLog(c) \/ c = b
    BY <1>6 DEF InLog
  <2>2. \A i : Waiting(i) /\ Waiting(i)'
    BY <1>2, <1>5 DEF Waiting, SameStage
  <2>3. \A c \in Block : c \in pinned <=> InLog(c)
    BY <1>3, <2>2 DEF PinInv, InLog
  <2>4. \A c \in Block : cache'[c] = IF c = b THEN v ELSE cache[c]
    BY DEF TypeOK
  <2> QED
    BY <1>1, <1>3, <2>1, <2>2, <2>3, <2>4 DEF PinInv
<1>12. MineInv'
  <2>1. \A c \in Block : InLog(c) \/ c = b => InLog(c)'
    BY <1>6 DEF InLog
  <2>2. \A q \in Proc : mine'[q] = IF q = p THEN mine[q] \cup {b} ELSE mine[q]
    BY DEF TypeOK
  <2>3. IsFiniteSet(mine[p] \cup {b})
    BY FS_AddElement DEF MineInv
  <2> QED
    BY <2>1, <2>2, <2>3 DEF MineInv, TypeOK
<1>13. SpaceReserved'
  <2>1. \A q \in Proc : Cardinality(mine'[q]) \in Nat /\ Cardinality(mine[q]) \in Nat
    BY <1>12, FS_CardinalityType DEF MineInv
  <2>2. /\ Cardinality(mine'[p]) = IF b \in mine[p] THEN Cardinality(mine[p])
                                   ELSE Cardinality(mine[p]) + 1
        /\ Cardinality(mine'[p]) <= MAXOPBLOCKS
        /\ \A q \in Proc : q # p => mine'[q] = mine[q]
    BY FS_AddElement DEF MineInv, TypeOK
  <2>3. Reserved' \subseteq Reserved
    <3>1. \A q \in Proc : Cardinality(mine'[q]) >= Cardinality(mine[q])
      <4> HIDE DEF LogWrite
      <4> QED
        BY <2>1, <2>2
    <3>2. \A q \in Proc : pc'[q] = "op" =>
            pc[q] = "op" /\ Cardinality(mine'[q]) >= Cardinality(mine[q])
      BY <3>1
    <3> QED
      BY <1>1, <2>1, <3>2, ReservedShrinks
  <2>4. CASE InLog(b)
    BY <1>1, <1>6, <2>3, <2>4, FS_Subset DEF SpaceReserved, ReservedBound
  <2>5. CASE ~InLog(b)
    <3> DEFINE r == <<p, Cardinality(mine[p]) + 1>>
    <3>1. b \notin mine[p]
      BY <2>5 DEF MineInv
    <3>2. r \in Reserved /\ r \notin Reserved'
      <4>1. Cardinality(mine[p]) + 1 \in 1 .. MAXOPBLOCKS
        BY <1>1, <2>1, <2>2, <3>1
      <4>2. /\ Cardinality(mine[p]) + 1 > Cardinality(mine[p])
            /\ ~(Cardinality(mine[p]) + 1 > Cardinality(mine'[p]))
        BY <2>1, <2>2, <3>1
      <4>3. pc[p] = "op"
        OBVIOUS
      <4> QED
        BY <4>1, <4>2, <4>3, ReservedMember
    <3> HIDE DEF r
    <3>3. /\ IsFiniteSet(Reserved \ {r})
          /\ Cardinality(Reserved \ {r}) = Cardinality(Reserved) - 1
      BY <1>1, <3>2, FS_RemoveElement DEF ReservedBound
    <3>4. Cardinality(Reserved') <= Cardinality(Reserved) - 1
      BY <2>3, <3>2, <3>3, FS_Subset
    <3> QED
      BY <1>1, <1>6, <2>5, <3>4 DEF SpaceReserved, ReservedBound
  <2> QED
    BY <2>4, <2>5
<1> QED
  BY <1>7, <1>8, <1>9, <1>10, <1>11, <1>12, <1>13


(* A process inside an operation sees no commit, and is counted:           *)
(* end_op() does not panic "log.committing", nor log_write() "log_write    *)
(* outside of trans".                                                      *)
LEMMA OperationFacts ==
  ASSUME TypeOK, CountInv, BootInv, NEW p \in Proc, pc[p] = "op"
  PROVE  /\ p \in Ops /\ boot = "up" /\ ~committing /\ outstanding > 0
         /\ \A q \in Proc : pc[q] \notin Busy
<1>1. p \in Ops /\ boot = "up" /\ ~committing
  BY DEF Ops, CountInv, BootInv
<1>2. outstanding # 0
  BY <1>1, ReservedFacts, FS_EmptySet DEF CountInv, ReservedBound
<1>3. \A q \in Proc : pc[q] \notin Busy
  BY <1>1 DEF CountInv, At
<1> QED
  BY <1>1, <1>2, <1>3 DEF TypeOK

(* end_op() of the last operation starts the commit.                       *)
LEMMA LastEndOpIInv ==
  ASSUME IInv, NEW p \in Proc, EndOp(p), outstanding = 1
  PROVE  IInv'
<1> USE DEF IInv
<1>1. /\ pc[p] = "op" /\ outstanding' = 0 /\ committing' = TRUE /\ tail' = 1
      /\ mine' = [mine EXCEPT ![p] = {}]
      /\ pc' = [pc EXCEPT ![p] = IF lh = <<>> THEN "finish" ELSE "writelog"]
      /\ UNCHANGED <<home, logged, head, cache, pinned, lh, boot>>
  BY DEF EndOp, Goto, disk
<1>2. /\ p \in Ops /\ boot = "up" /\ ~committing
      /\ \A q \in Proc : pc[q] \notin Busy
  BY <1>1, OperationFacts
<1>3. /\ ReservedBound /\ ReservedBound' /\ LOGBLOCKS \in Nat \ {0}
  BY ReservedNext, LogAssumption
<1>4. Ops = {p} /\ Ops' = {}
  <2>1. Ops = {p}
    <3>1. IsFiniteSet(Ops) /\ Cardinality(Ops) = 1
      BY <1>3 DEF CountInv, ReservedBound
    <3>2. PICK x : Ops = {x}
      BY <3>1, FS_Singleton
    <3> QED
      BY <1>2, <3>2
  <2>2. \A q \in Proc : pc'[q] # "op"
    BY <1>1, <2>1 DEF Ops, TypeOK
  <2> QED
    BY <2>1, <2>2 DEF Ops
<1>5. /\ pc'[p] = IF lh = <<>> THEN "finish" ELSE "writelog"
      /\ \A q \in Proc : q # p => pc'[q] \notin Busy
  BY <1>1, <1>2 DEF TypeOK
<1>6. StageOf(p)' /\ StageOf(p)
  BY <1>2, <1>5, StageFacts
<1>7. pc' \in [Proc -> {"idle", "asleep", "retry", "op", "writelog", "writehead",
                        "install", "clear", "finish"}]
  BY <1>1 DEF TypeOK
<1>8. TypeOK'
  <2>1. tail' \in 1 .. LOGBLOCKS /\ outstanding' \in 0 .. Cardinality(Proc)
    BY <1>1, <1>3 DEF ReservedBound
  <2>2. mine' \in [Proc -> SUBSET Block]
    BY <1>1 DEF TypeOK
  <2> QED
    BY <1>1, <1>7, <2>1, <2>2 DEF TypeOK
<1>9. CountInv'
  <2>1. pc'[p] \in Busy
    BY <1>5 DEF Busy
  <2> QED
    BY <1>1, <1>3, <1>4, <1>5, <1>6, <2>1 DEF CountInv, StageOf, ReservedBound
<1>10. BootInv' /\ NobodyStranded'
  BY <1>1, <1>2 DEF BootInv, NobodyStranded
<1>11. pc[p] = "op" /\ pc'[p] \in {"finish", "writelog"} /\ (pc'[p] = "finish" <=> lh = <<>>)
  BY <1>1, <1>5
<1>12. HeadInv'
  BY <1>1, <1>2, <1>6, <1>11 DEF HeadInv, Committed, StageOf
<1>13. EmptyInv' /\ TailInv'
  <2>1. lh # <<>> => 1 <= Len(lh)
    BY DEF TypeOK
  <2> QED
    BY <1>1, <1>2, <1>6, <1>11, <2>1 DEF EmptyInv, TailInv, StageOf
<1>14. PinInv'
  BY <1>1, <1>2, <1>6, <1>11 DEF PinInv, Waiting, StageOf
<1>15. CopyInv' /\ HomeInv'
  BY <1>1, <1>2, <1>6, <1>11 DEF CopyInv, HomeInv, StageOf
<1>16. MineInv'
  BY <1>1, FS_EmptySet DEF MineInv, InLog, TypeOK
<1>17. SpaceReserved'
  BY <1>1, <1>3, <1>4 DEF SpaceReserved, ReservedBound, TypeOK
<1> QED
  BY <1>8, <1>9, <1>10, <1>12, <1>13, <1>14, <1>15, <1>16, <1>17

(* end_op() of any other operation gives its room back and wakes up those  *)
(* who wait for it.                                                        *)
LEMMA EndOpIInv ==
  ASSUME IInv, NEW p \in Proc, EndOp(p), outstanding # 1
  PROVE  IInv'
<1> USE DEF IInv
<1>1. /\ pc[p] = "op" /\ outstanding' = outstanding - 1
      /\ mine' = [mine EXCEPT ![p] = {}]
      /\ pc' = [q \in Proc |-> IF q = p THEN "idle"
                               ELSE IF pc[q] = "asleep" THEN "retry" ELSE pc[q]]
      /\ UNCHANGED <<home, logged, head, cache, pinned, lh, boot, committing, tail>>
  BY DEF EndOp, WakeAll, disk
<1>2. /\ p \in Ops /\ boot = "up" /\ ~committing /\ outstanding > 0
      /\ \A q \in Proc : pc[q] \notin Busy
  BY <1>1, OperationFacts
<1>3. /\ ReservedBound /\ ReservedBound' /\ LOGBLOCKS \in Nat \ {0} /\ MAXOPBLOCKS \in Nat
  BY ReservedNext, LogAssumption
<1>4. SameStage
  <2>1. \A q \in Proc : pc'[q] # pc[q] => pc[q] \notin Busy /\ pc'[q] \notin Busy
    BY <1>1, <1>2 DEF Busy
  <2> QED
    BY <2>1, SameStageFacts
<1>5. outstanding' = Cardinality(Ops') /\ outstanding' > 0
  <2>1. Ops' = Ops \ {p}
    BY <1>1 DEF Ops
  <2>2. outstanding = Cardinality(Ops) /\ IsFiniteSet(Ops) /\ Cardinality(Ops) \in Nat
    BY <1>3 DEF CountInv, ReservedBound
  <2>3. Cardinality(Ops \ {p}) = Cardinality(Ops) - 1
    BY <1>2, <2>2, FS_RemoveElement
  <2>4. outstanding' = outstanding - 1 /\ outstanding > 0 /\ outstanding # 1
    BY <1>1, <1>2
  <2> QED
    BY <2>1, <2>2, <2>3, <2>4
<1>6. TypeOK'
  <2>1. pc' \in [Proc -> {"idle", "asleep", "retry", "op", "writelog", "writehead",
                          "install", "clear", "finish"}]
    BY <1>1 DEF TypeOK
  <2>2. mine' \in [Proc -> SUBSET Block]
    BY <1>1 DEF TypeOK
  <2> QED
    BY <1>1, <1>3, <1>5, <2>1, <2>2 DEF TypeOK, ReservedBound
<1>7. CountInv'
  <2>1. \A q \in Proc : pc'[q] \notin Busy
    BY <1>1, <1>2 DEF Busy
  <2> QED
    BY <1>1, <1>2, <1>4, <1>5, <2>1 DEF CountInv, SameStage
<1>8. BootInv' /\ NobodyStranded'
  BY <1>1, <1>2, <1>5 DEF BootInv, NobodyStranded
<1>9. HeadInv' /\ EmptyInv' /\ TailInv' /\ CopyInv' /\ HomeInv'
  BY <1>1, <1>4, <1>5 DEF HeadInv, EmptyInv, TailInv, CopyInv, HomeInv, Committed, SameStage
<1>10. PinInv'
  BY <1>1, <1>4 DEF PinInv, Waiting, SameStage
<1>11. MineInv'
  BY <1>1, FS_EmptySet DEF MineInv, InLog, TypeOK
<1>12. SpaceReserved'
  <2>1. \A q \in Proc : Cardinality(mine'[q]) \in Nat /\ Cardinality(mine[q]) \in Nat
    BY <1>11, FS_CardinalityType DEF MineInv
  <2>2. \A q \in Proc : pc'[q] = "op" =>
          pc[q] = "op" /\ Cardinality(mine'[q]) >= Cardinality(mine[q])
    BY <1>1, <2>1 DEF TypeOK
  <2>3. Reserved' \subseteq Reserved
    BY <1>3, <2>1, <2>2, ReservedShrinks
  <2>4. Cardinality(Reserved') <= Cardinality(Reserved)
    BY <1>3, <2>3, FS_Subset DEF ReservedBound
  <2> QED
    BY <1>1, <1>3, <2>4 DEF SpaceReserved, ReservedBound, TypeOK
<1> QED
  BY <1>6, <1>7, <1>8, <1>9, <1>10, <1>11, <1>12


(* bget() may forget a clean buffer at any time.                           *)
LEMMA EvictIInv ==
  ASSUME IInv, NEW b \in Block, Evict(b)
  PROVE  IInv'
<1> USE DEF IInv
<1>1. /\ b \notin pinned
      /\ cache' = [cache EXCEPT ![b] = NotCached]
      /\ UNCHANGED <<home, logged, head, pinned, lh, outstanding, committing,
                     pc, mine, tail, boot>>
  BY DEF Evict, disk
<1>2. TypeOK' /\ CountInv' /\ BootInv' /\ HeadInv' /\ EmptyInv' /\ TailInv'
  BY <1>1 DEF TypeOK, CountInv, BootInv, HeadInv, EmptyInv, TailInv, Ops, At, Committed
<1>3. HomeInv' /\ MineInv' /\ SpaceReserved' /\ NobodyStranded'
  BY <1>1 DEF HomeInv, MineInv, SpaceReserved, NobodyStranded, At, InLog, Reserved
<1>4. \A c \in Block : cache'[c] = IF c = b THEN NotCached ELSE cache[c]
  BY <1>1 DEF TypeOK
<1>5. PinInv'
  BY <1>1, <1>4 DEF PinInv, Waiting, At
<1>6. CopyInv'
  <2> SUFFICES ASSUME NEW i \in 1 .. Len(lh),
                      \/ At({"writelog"}) /\ i < tail
                      \/ At({"writehead"})
                      \/ At({"install"}) /\ i >= tail
               PROVE  logged[i] = cache'[lh[i]]
    BY <1>1 DEF CopyInv, At
  <2>1. PICK p \in Proc : pc[p] \in {"writelog", "writehead", "install"}
    BY DEF At
  <2>2. boot = "up" /\ \A q \in Proc : q # p => pc[q] \notin Busy
    BY <2>1, CommitterFacts DEF Busy
  <2>3. StageOf(p)
    BY <2>2, StageFacts
  <2>4. lh[i] \in Block /\ lh[i] \in pinned
    <3>1. lh[i] \in Block
      BY DEF TypeOK
    <3>2. Waiting(i)
      BY <2>1, <2>3 DEF Waiting, StageOf
    <3> QED
      BY <2>2, <3>1, <3>2 DEF PinInv
  <2> QED
    BY <1>1, <1>4, <2>4 DEF CopyInv
<1> QED
  BY <1>2, <1>3, <1>5, <1>6


(* What every step of commit() leaves alone: p goes on to label l.         *)
LEMMA CommitStep ==
  ASSUME IInv, NEW p \in Proc, pc[p] \in Busy, NEW l \in Busy,
         pc' = [pc EXCEPT ![p] = l],
         UNCHANGED <<outstanding, committing, mine, boot>>
  PROVE  /\ pc' \in [Proc -> {"idle", "asleep", "retry", "op", "writelog", "writehead",
                              "install", "clear", "finish"}]
         /\ boot = "up" /\ committing /\ pc'[p] = l
         /\ StageOf(p) /\ StageOf(p)' /\ MineInv'
         /\ CountInv' /\ BootInv' /\ NobodyStranded' /\ Cardinality(Reserved') = 0
<1> USE DEF IInv
<1>1. /\ boot = "up" /\ committing /\ outstanding = 0
      /\ \A q \in Proc : q # p => pc[q] \in {"idle", "asleep", "retry"}
  BY CommitterFacts
<1>2. /\ pc' \in [Proc -> {"idle", "asleep", "retry", "op", "writelog", "writehead",
                           "install", "clear", "finish"}]
      /\ pc'[p] = l
      /\ \A q \in Proc : q # p => pc'[q] = pc[q]
  BY DEF TypeOK, Busy
<1>3. /\ \A q \in Proc : q # p => pc[q] \notin Busy
      /\ \A q \in Proc : q # p => pc'[q] \notin Busy
      /\ \A q \in Proc : pc'[q] # "op"
  BY <1>1, <1>2 DEF Busy
<1>4. StageOf(p) /\ StageOf(p)'
  BY <1>3, StageFacts
<1>5. Ops' = {} /\ ReservedBound'
  BY <1>3, ReservedNext DEF Ops
<1>6. CountInv'
  BY <1>1, <1>2, <1>3, <1>4, <1>5 DEF CountInv, StageOf, ReservedBound
<1>7. BootInv' /\ NobodyStranded'
  BY <1>1 DEF BootInv, NobodyStranded
<1>8. MineInv'
  <2>1. \A q \in Proc : mine[q] = {}
    BY <1>1 DEF MineInv, Busy
  <2> QED
    BY <2>1 DEF MineInv
<1> QED
  BY <1>1, <1>2, <1>4, <1>5, <1>6, <1>7, <1>8 DEF ReservedBound

(* write_log()                                                             *)
LEMMA WriteLogIInv ==
  ASSUME IInv, NEW p \in Proc, WriteLog(p)
  PROVE  IInv'
<1> DEFINE more == tail < Len(lh)
           l == IF more THEN "writelog" ELSE "writehead"
<1>1. /\ pc[p] = "writelog"
      /\ logged' = [logged EXCEPT ![tail] = cache[lh[tail]]]
      /\ tail' = IF more THEN tail + 1 ELSE 1
      /\ pc' = [pc EXCEPT ![p] = l]
      /\ UNCHANGED <<home, head, cache, pinned, lh, outstanding, committing, mine, boot>>
  BY DEF WriteLog, Advance, Goto, IInv, TypeOK
<1>2. pc[p] \in Busy /\ l \in Busy /\ l \in {"writelog", "writehead"} /\ (l = "writelog" <=> more)
  BY <1>1 DEF Busy
<1> HIDE DEF l
<1>3. /\ pc' \in [Proc -> {"idle", "asleep", "retry", "op", "writelog", "writehead",
                           "install", "clear", "finish"}]
      /\ boot = "up" /\ committing /\ pc'[p] = l
      /\ StageOf(p) /\ StageOf(p)' /\ MineInv'
      /\ CountInv' /\ BootInv' /\ NobodyStranded' /\ Cardinality(Reserved') = 0
  BY <1>1, <1>2, CommitStep
<1> USE DEF IInv
<1>4. /\ tail \in Nat /\ Len(lh) \in Nat /\ tail >= 1 /\ tail <= Len(lh)
      /\ Len(lh) <= LOGBLOCKS /\ LOGBLOCKS \in Nat \ {0}
  BY <1>1, <1>3, LogAssumption DEF TailInv, StageOf, TypeOK
<1>5. \A i \in 1 .. Len(lh) : lh[i] \in Block
  BY DEF TypeOK
<1>6. \A i \in 1 .. Len(lh) : lh[i] \in pinned
  BY <1>1, <1>3, <1>5 DEF PinInv, Waiting, StageOf
<1>7. \A i \in 1 .. Len(lh) : logged'[i] = IF i = tail THEN cache[lh[i]] ELSE logged[i]
  BY <1>1, <1>4 DEF TypeOK
<1>8. TypeOK'
  <2>1. cache[lh[tail]] \in Val
    BY <1>4, <1>5, <1>6 DEF PinInv, TypeOK
  <2>2. logged' \in [1 .. LOGBLOCKS -> Val] /\ tail' \in 1 .. LOGBLOCKS
    BY <1>1, <1>4, <2>1 DEF TypeOK
  <2> QED
    BY <1>1, <1>3, <2>2 DEF TypeOK
<1>9. HeadInv' /\ EmptyInv' /\ PinInv'
  BY <1>1, <1>2, <1>3 DEF HeadInv, EmptyInv, PinInv, Committed, Waiting, StageOf
<1>10. TailInv'
  BY <1>1, <1>2, <1>3, <1>4 DEF TailInv, StageOf
<1>11. CopyInv'
  <2>1. \A i \in 1 .. Len(lh) : i < tail => logged[i] = cache[lh[i]]
    BY <1>1, <1>3 DEF CopyInv, StageOf
  <2>2. \A i \in 1 .. Len(lh) : i <= tail => logged'[i] = cache[lh[i]]
    BY <1>4, <1>7, <2>1
  <2> QED
    BY <1>1, <1>2, <1>3, <1>4, <2>2 DEF CopyInv, StageOf
<1>12. HomeInv'
  BY <1>1, <1>2, <1>3 DEF HomeInv, StageOf
<1>13. SpaceReserved'
  BY <1>1, <1>3, <1>4 DEF SpaceReserved
<1> QED
  BY <1>3, <1>8, <1>9, <1>10, <1>11, <1>12, <1>13

(* write_head(), "the real commit"                                         *)
LEMMA WriteHeadIInv ==
  ASSUME IInv, NEW p \in Proc, WriteHead(p)
  PROVE  IInv'
<1>1. /\ pc[p] = "writehead" /\ head' = lh
      /\ pc' = [pc EXCEPT ![p] = "install"]
      /\ UNCHANGED <<home, logged, cache, pinned, lh, outstanding, committing, mine, tail, boot>>
  BY DEF WriteHead, Goto
<1>2. pc[p] \in Busy /\ "install" \in Busy
  BY <1>1 DEF Busy
<1>3. /\ pc' \in [Proc -> {"idle", "asleep", "retry", "op", "writelog", "writehead",
                           "install", "clear", "finish"}]
      /\ boot = "up" /\ committing /\ pc'[p] = "install"
      /\ StageOf(p) /\ StageOf(p)' /\ MineInv'
      /\ CountInv' /\ BootInv' /\ NobodyStranded' /\ Cardinality(Reserved') = 0
  BY <1>1, <1>2, CommitStep
<1> USE DEF IInv
<1>4. TypeOK'
  BY <1>1, <1>3 DEF TypeOK
<1>5. tail = 1 /\ Len(lh) \in Nat /\ Len(lh) <= LOGBLOCKS
  BY <1>1, <1>3 DEF TailInv, StageOf, TypeOK
<1>6. HeadInv' /\ EmptyInv'
  BY <1>1, <1>3 DEF HeadInv, EmptyInv, Committed, StageOf
<1>7. PinInv' /\ CopyInv' /\ HomeInv'
  BY <1>1, <1>3, <1>5 DEF PinInv, CopyInv, HomeInv, Waiting, StageOf
<1>8. TailInv'
  BY <1>1, <1>3 DEF TailInv, StageOf
<1>9. SpaceReserved'
  BY <1>1, <1>3, <1>5, LogAssumption DEF SpaceReserved
<1> QED
  BY <1>3, <1>4, <1>6, <1>7, <1>8, <1>9


(* install_trans(0)                                                        *)
LEMMA InstallIInv ==
  ASSUME IInv, NEW p \in Proc, Install(p)
  PROVE  IInv'
<1> DEFINE more == tail < Len(lh)
           l == IF more THEN "install" ELSE "clear"
<1>1. /\ pc[p] = "install"
      /\ home' = [home EXCEPT ![lh[tail]] = logged[tail]]
      /\ cache' = [cache EXCEPT ![lh[tail]] = logged[tail]]
      /\ pinned' = pinned \ {lh[tail]}
      /\ tail' = IF more THEN tail + 1 ELSE 1
      /\ pc' = [pc EXCEPT ![p] = l]
      /\ UNCHANGED <<logged, head, lh, outstanding, committing, mine, boot>>
  BY DEF Install, Advance, Goto, IInv, TypeOK
<1>2. pc[p] \in Busy /\ l \in Busy /\ l \in {"install", "clear"} /\ (l = "install" <=> more)
  BY <1>1 DEF Busy
<1> HIDE DEF l
<1>3. /\ pc' \in [Proc -> {"idle", "asleep", "retry", "op", "writelog", "writehead",
                           "install", "clear", "finish"}]
      /\ boot = "up" /\ committing /\ pc'[p] = l
      /\ StageOf(p) /\ StageOf(p)' /\ MineInv'
      /\ CountInv' /\ BootInv' /\ NobodyStranded' /\ Cardinality(Reserved') = 0
  BY <1>1, <1>2, CommitStep
<1> USE DEF IInv
<1>4. /\ tail \in Nat /\ Len(lh) \in Nat /\ tail >= 1 /\ tail <= Len(lh)
      /\ Len(lh) <= LOGBLOCKS /\ LOGBLOCKS \in Nat \ {0}
      /\ \A i \in 1 .. Len(lh) : lh[i] \in Block
      /\ logged[tail] \in Val /\ NotCached \notin Val
  BY <1>1, <1>3, LogAssumption DEF TailInv, StageOf, TypeOK
<1>5. \A i \in 1 .. Len(lh) : lh[i] = lh[tail] => i = tail
  BY <1>4 DEF HeadInv
<1>6. \A c \in Block : /\ home'[c] = IF c = lh[tail] THEN logged[tail] ELSE home[c]
                       /\ cache'[c] = IF c = lh[tail] THEN logged[tail] ELSE cache[c]
  BY <1>1 DEF TypeOK
<1>7. TypeOK'
  <2>1. home' \in [Block -> Val] /\ cache' \in [Block -> Val \cup {NotCached}]
    BY <1>1, <1>4 DEF TypeOK
  <2>2. tail' \in 1 .. LOGBLOCKS
    BY <1>1, <1>4
  <2> QED
    BY <1>1, <1>3, <2>1, <2>2 DEF TypeOK
<1>8. HeadInv' /\ EmptyInv'
  BY <1>1, <1>2, <1>3 DEF HeadInv, EmptyInv, Committed, StageOf
<1>9. TailInv'
  BY <1>1, <1>2, <1>3, <1>4 DEF TailInv, StageOf
<1>10. PinInv'
  <2>1. \A c \in Block : c \in pinned <=> \E i \in 1 .. Len(lh) : lh[i] = c /\ i >= tail
    BY <1>1, <1>3 DEF PinInv, Waiting, StageOf
  <2>2. \A i \in 1 .. Len(lh) : Waiting(i)' <=> i > tail
    BY <1>1, <1>2, <1>3, <1>4 DEF Waiting, StageOf
  <2>3. \A c \in Block : c \in pinned' <=> \E i \in 1 .. Len(lh) : lh[i] = c /\ i > tail
    BY <1>1, <1>4, <1>5, <2>1
  <2> QED
    BY <1>1, <1>3, <1>6, <2>2, <2>3 DEF PinInv
<1>11. CopyInv'
  <2>1. \A i \in 1 .. Len(lh) : i >= tail => logged[i] = cache[lh[i]]
    BY <1>1, <1>3 DEF CopyInv, StageOf
  <2>2. \A i \in 1 .. Len(lh) : i >= tail => logged[i] = cache'[lh[i]]
    BY <1>4, <1>5, <1>6, <2>1
  <2> QED
    BY <1>1, <1>2, <1>3, <1>4, <2>2 DEF CopyInv, StageOf
<1>12. HomeInv'
  <2>1. \A i \in 1 .. Len(lh) : i < tail => home[lh[i]] = logged[i]
    BY <1>1, <1>3 DEF HomeInv, StageOf
  <2>2. \A i \in 1 .. Len(lh) : i <= tail => home'[lh[i]] = logged[i]
    BY <1>4, <1>5, <1>6, <2>1
  <2> QED
    BY <1>1, <1>2, <1>3, <1>4, <2>2 DEF HomeInv, StageOf
<1>13. SpaceReserved'
  BY <1>1, <1>3, <1>4 DEF SpaceReserved
<1> QED
  BY <1>3, <1>7, <1>8, <1>9, <1>10, <1>11, <1>12, <1>13

(* The second write_head() of commit()                                     *)
LEMMA ClearHeadIInv ==
  ASSUME IInv, NEW p \in Proc, ClearHead(p)
  PROVE  IInv'
<1>1. /\ pc[p] = "clear" /\ lh' = <<>> /\ head' = <<>>
      /\ pc' = [pc EXCEPT ![p] = "finish"]
      /\ UNCHANGED <<home, logged, cache, pinned, outstanding, committing, mine, tail, boot>>
  BY DEF ClearHead, Goto
<1>2. pc[p] \in Busy /\ "finish" \in Busy
  BY <1>1 DEF Busy
<1>3. /\ pc' \in [Proc -> {"idle", "asleep", "retry", "op", "writelog", "writehead",
                           "install", "clear", "finish"}]
      /\ boot = "up" /\ committing /\ pc'[p] = "finish"
      /\ StageOf(p) /\ StageOf(p)' /\ MineInv'
      /\ CountInv' /\ BootInv' /\ NobodyStranded' /\ Cardinality(Reserved') = 0
  BY <1>1, <1>2, CommitStep
<1> USE DEF IInv
<1>4. /\ lh' \in Seq(Block) /\ head' \in Seq(Block) /\ Len(lh') = 0 /\ Len(head') = 0
      /\ LOGBLOCKS \in Nat
  BY <1>1, LogAssumption
<1>5. TypeOK'
  BY <1>1, <1>3, <1>4 DEF TypeOK
<1>6. HeadInv' /\ EmptyInv' /\ TailInv' /\ CopyInv' /\ HomeInv'
  BY <1>1, <1>3, <1>4 DEF HeadInv, EmptyInv, TailInv, CopyInv, HomeInv, Committed, StageOf
<1>7. PinInv'
  BY <1>1, <1>3, <1>4 DEF PinInv, Waiting, StageOf
<1>8. SpaceReserved'
  BY <1>1, <1>3, <1>4 DEF SpaceReserved
<1> QED
  BY <1>3, <1>5, <1>6, <1>7, <1>8


(* The end of end_op(): everybody who waits is woken up.                   *)
LEMMA FinishIInv ==
  ASSUME IInv, NEW p \in Proc, Finish(p)
  PROVE  IInv'
<1> USE DEF IInv
<1>1. /\ pc[p] = "finish" /\ committing' = FALSE
      /\ pc' = [q \in Proc |-> IF q = p THEN "idle"
                               ELSE IF pc[q] = "asleep" THEN "retry" ELSE pc[q]]
      /\ UNCHANGED <<home, logged, head, cache, pinned, lh, outstanding, mine, tail, boot>>
  BY DEF Finish, WakeAll, disk
<1>2. /\ boot = "up" /\ outstanding = 0
      /\ \A q \in Proc : q # p => pc[q] \in {"idle", "asleep", "retry"}
  BY <1>1, CommitterFacts DEF Busy
<1>3. \A q \in Proc : pc'[q] \in {"idle", "retry"}
  BY <1>1, <1>2
<1>4. StageOf(p) /\ StageOf(p)'
  BY <1>2, <1>3, StageFacts DEF Busy
<1>5. Ops' = {} /\ ReservedBound' /\ pc'[p] = "idle"
  BY <1>1, <1>3, ReservedNext DEF Ops
<1>6. lh = <<>> /\ Len(lh) = 0 /\ LOGBLOCKS \in Nat
  BY <1>1, <1>4, LogAssumption DEF EmptyInv, StageOf
<1>7. TypeOK'
  <2>1. pc' \in [Proc -> {"idle", "asleep", "retry", "op", "writelog", "writehead",
                          "install", "clear", "finish"}]
    BY <1>1, <1>3
  <2> QED
    BY <1>1, <2>1 DEF TypeOK
<1>8. CountInv'
  BY <1>1, <1>2, <1>3, <1>4, <1>5 DEF CountInv, StageOf, ReservedBound, Busy
<1>9. BootInv' /\ NobodyStranded'
  BY <1>1, <1>2, <1>3 DEF BootInv, NobodyStranded
<1>10. HeadInv' /\ EmptyInv' /\ TailInv' /\ CopyInv' /\ HomeInv'
  BY <1>1, <1>2, <1>4, <1>5, <1>6 DEF HeadInv, EmptyInv, TailInv, CopyInv, HomeInv, Committed, StageOf
<1>11. PinInv'
  BY <1>1, <1>6 DEF PinInv
<1>12. MineInv'
  <2>1. \A q \in Proc : mine[q] = {}
    BY <1>1, <1>2 DEF MineInv
  <2> QED
    BY <1>1, <2>1 DEF MineInv
<1>13. SpaceReserved'
  BY <1>1, <1>5, <1>6 DEF SpaceReserved, ReservedBound
<1> QED
  BY <1>7, <1>8, <1>9, <1>10, <1>11, <1>12, <1>13

(* What holds while nobody runs. *)
NobodyRuns ==
  /\ \A p \in Proc : pc[p] = "idle"
  /\ \A p \in Proc : mine[p] = {}
  /\ outstanding = 0 /\ committing = FALSE

(* Nobody runs before the machine is up, and then nothing is going on.     *)
Silence ==
  /\ ~At(Busy) /\ ~At({"writelog"}) /\ ~At({"writehead"}) /\ ~At({"install"}) /\ ~At({"clear"})
  /\ ~At({"finish"}) /\ ~At({"install", "clear"})
  /\ ~At({"writelog", "writehead", "install"})
  /\ CountInv /\ BootInv /\ MineInv /\ NobodyStranded /\ Cardinality(Reserved) = 0

(* With nobody in the log's code, what speaks of processes holds trivially.*)
LEMMA SilenceFacts ==
  /\ NobodyRuns => Silence
  /\ (NobodyRuns => Silence)'
<1>1. NobodyRuns => Silence
  <2> SUFFICES ASSUME NobodyRuns PROVE Silence
    OBVIOUS
  <2>1. Ops = {} /\ ReservedBound
    BY ReservedFacts DEF NobodyRuns, Ops
  <2>2. \A p \in Proc : pc[p] \notin Busy
    BY DEF NobodyRuns, Busy
  <2>3. /\ ~At(Busy) /\ ~At({"writelog"}) /\ ~At({"writehead"}) /\ ~At({"install"})
        /\ ~At({"clear"}) /\ ~At({"finish"}) /\ ~At({"install", "clear"})
        /\ ~At({"writelog", "writehead", "install"})
    BY <2>2 DEF At, Busy
  <2>4. CountInv
    BY <2>1, <2>2, <2>3 DEF NobodyRuns, CountInv, ReservedBound
  <2>5. BootInv /\ MineInv /\ NobodyStranded
    BY FS_EmptySet DEF NobodyRuns, BootInv, MineInv, NobodyStranded
  <2> QED
    BY <2>1, <2>3, <2>4, <2>5 DEF Silence, ReservedBound
<1>2. (NobodyRuns => Silence)'
  BY <1>1, PTL
<1> QED
  BY <1>1, <1>2

(* During recovery nobody runs, and no buffer is pinned.                   *)
LEMMA RecoveryFacts ==
  ASSUME IInv, boot # "up"
  PROVE  NobodyRuns /\ Silence /\ pinned = {}
<1> USE DEF IInv
<1>1. \A p \in Proc : pc[p] = "idle" /\ mine[p] = {}
  BY DEF BootInv, MineInv
<1>2. Ops = {} /\ ~At(Busy) /\ ReservedBound
  BY <1>1, ReservedFacts DEF Ops, At, Busy
<1>3. outstanding = 0 /\ committing = FALSE
  BY <1>2 DEF CountInv, ReservedBound, TypeOK
<1>4. NobodyRuns
  BY <1>1, <1>3 DEF NobodyRuns
<1>5. pinned = {}
  BY DEF PinInv, TypeOK
<1> QED
  BY <1>4, <1>5, SilenceFacts

(* A crash leaves the disk.                                                *)
LEMMA CrashIInv ==
  ASSUME IInv, Crash
  PROVE  IInv'
<1> USE DEF IInv
<1>1. /\ cache' = [b \in Block |-> NotCached] /\ pinned' = {} /\ lh' = <<>>
      /\ outstanding' = 0 /\ committing' = FALSE
      /\ pc' = [p \in Proc |-> "idle"] /\ mine' = [p \in Proc |-> {}]
      /\ tail' = 1 /\ boot' = "readhead"
      /\ UNCHANGED <<home, logged, head>>
  BY DEF Crash, disk
<1>2. Silence'
  BY <1>1, SilenceFacts DEF NobodyRuns
<1>3. lh' \in Seq(Block) /\ Len(lh') = 0 /\ LOGBLOCKS \in Nat \ {0} /\ Cardinality(Proc) \in Nat
  BY <1>1, LogAssumption, FS_CardinalityType
<1>4. TypeOK'
  <2>1. /\ tail' \in 1 .. LOGBLOCKS /\ outstanding' \in 0 .. Cardinality(Proc)
        /\ lh' \in Seq(Block) /\ Len(lh') <= LOGBLOCKS
    BY <1>1, <1>3
  <2>2. /\ cache' \in [Block -> Val \cup {NotCached}] /\ mine' \in [Proc -> SUBSET Block]
        /\ pc' \in [Proc -> {"idle", "asleep", "retry", "op", "writelog", "writehead",
                             "install", "clear", "finish"}]
    BY <1>1
  <2>3. /\ pinned' \subseteq Block /\ committing' \in BOOLEAN
        /\ boot' \in {"up", "readhead", "install", "clear"}
    BY <1>1
  <2>4. /\ home' \in [Block -> Val] /\ logged' \in [1 .. LOGBLOCKS -> Val]
        /\ head' \in Seq(Block) /\ Len(head') <= LOGBLOCKS
    BY <1>1 DEF TypeOK
  <2> QED
    BY <2>1, <2>2, <2>3, <2>4 DEF TypeOK
<1>5. HeadInv' /\ EmptyInv' /\ TailInv' /\ PinInv' /\ CopyInv' /\ HomeInv'
  BY <1>1, <1>2, <1>3 DEF Silence, HeadInv, EmptyInv, TailInv, PinInv, CopyInv, HomeInv, Committed
<1>6. SpaceReserved'
  BY <1>2, <1>3 DEF Silence, SpaceReserved
<1> QED
  BY <1>2, <1>4, <1>5, <1>6 DEF Silence


(* recover_from_log(): read_head()                                         *)
LEMMA ReadHeadIInv ==
  ASSUME IInv, ReadHead
  PROVE  IInv'
<1> USE DEF IInv
<1>1. /\ boot = "readhead" /\ lh' = head
      /\ boot' = IF head = <<>> THEN "clear" ELSE "install"
      /\ UNCHANGED <<home, logged, head, cache, pinned, outstanding, committing, pc, mine, tail>>
  BY DEF ReadHead, disk
<1>2. NobodyRuns /\ Silence /\ pinned = {}
  BY <1>1, RecoveryFacts
<1>3. Silence'
  BY <1>1, <1>2, SilenceFacts DEF NobodyRuns
<1>4. TypeOK'
  BY <1>1 DEF TypeOK
<1>5. HeadInv' /\ EmptyInv'
  BY <1>1, <1>3 DEF Silence, HeadInv, EmptyInv, Committed
<1>6. tail = 1 /\ (boot' = "install" => 1 <= Len(lh'))
  BY <1>1 DEF TailInv, TypeOK
<1>7. TailInv' /\ CopyInv'
  BY <1>1, <1>3, <1>6 DEF Silence, TailInv, CopyInv
<1>8. HomeInv'
  <2>1. boot' = "clear" => Len(lh') = 0
    BY <1>1
  <2> QED
    BY <1>1, <1>3, <1>6, <2>1 DEF Silence, HomeInv
<1>9. PinInv'
  BY <1>1, <1>2 DEF PinInv
<1>10. SpaceReserved'
  BY <1>1, <1>3, LogAssumption DEF Silence, SpaceReserved, TypeOK
<1> QED
  BY <1>3, <1>4, <1>5, <1>7, <1>8, <1>9, <1>10 DEF Silence

(* recover_from_log(): install_trans(1)                                    *)
LEMMA RecoverIInv ==
  ASSUME IInv, Recover
  PROVE  IInv'
<1> USE DEF IInv
<1> DEFINE more == tail < Len(lh)
<1>1. /\ boot = "install"
      /\ home' = [home EXCEPT ![lh[tail]] = logged[tail]]
      /\ cache' = [cache EXCEPT ![lh[tail]] = logged[tail]]
      /\ tail' = IF more THEN tail + 1 ELSE 1
      /\ boot' = IF more THEN "install" ELSE "clear"
      /\ UNCHANGED <<logged, head, pinned, lh, outstanding, committing, pc, mine>>
  BY DEF Recover
<1>2. NobodyRuns /\ Silence /\ pinned = {}
  BY <1>1, RecoveryFacts
<1>3. Silence'
  BY <1>1, <1>2, SilenceFacts DEF NobodyRuns
<1>4. /\ tail \in Nat /\ Len(lh) \in Nat /\ tail >= 1 /\ tail <= Len(lh)
      /\ Len(lh) <= LOGBLOCKS /\ LOGBLOCKS \in Nat \ {0}
      /\ \A i \in 1 .. Len(lh) : lh[i] \in Block
      /\ logged[tail] \in Val
  BY <1>1, LogAssumption DEF TailInv, TypeOK
<1>5. \A i \in 1 .. Len(lh) : lh[i] = lh[tail] => i = tail
  BY <1>4 DEF HeadInv
<1>6. \A c \in Block : /\ home'[c] = IF c = lh[tail] THEN logged[tail] ELSE home[c]
                       /\ cache'[c] = IF c = lh[tail] THEN logged[tail] ELSE cache[c]
  BY <1>1 DEF TypeOK
<1>7. TypeOK'
  <2>1. home' \in [Block -> Val] /\ cache' \in [Block -> Val \cup {NotCached}]
    BY <1>1, <1>4 DEF TypeOK
  <2>2. tail' \in 1 .. LOGBLOCKS
    BY <1>1, <1>4
  <2> QED
    BY <1>1, <2>1, <2>2 DEF TypeOK
<1>8. HeadInv' /\ EmptyInv'
  BY <1>1, <1>3 DEF Silence, HeadInv, EmptyInv, Committed
<1>9. TailInv' /\ CopyInv'
  BY <1>1, <1>3, <1>4 DEF Silence, TailInv, CopyInv
<1>10. HomeInv'
  <2>1. \A i \in 1 .. Len(lh) : i < tail => home[lh[i]] = logged[i]
    BY <1>1 DEF HomeInv
  <2>2. \A i \in 1 .. Len(lh) : i <= tail => home'[lh[i]] = logged[i]
    BY <1>4, <1>5, <1>6, <2>1
  <2> QED
    BY <1>1, <1>3, <1>4, <2>2 DEF Silence, HomeInv
<1>11. PinInv'
  BY <1>1, <1>2, <1>6 DEF PinInv
<1>12. SpaceReserved'
  BY <1>1, <1>3, <1>4 DEF Silence, SpaceReserved
<1> QED
  BY <1>3, <1>7, <1>8, <1>9, <1>10, <1>11, <1>12 DEF Silence

(* recover_from_log(): the last write_head()                               *)
LEMMA RecoverClearIInv ==
  ASSUME IInv, RecoverClear
  PROVE  IInv'
<1> USE DEF IInv
<1>1. /\ boot = "clear" /\ lh' = <<>> /\ head' = <<>> /\ boot' = "up"
      /\ UNCHANGED <<home, logged, cache, pinned, outstanding, committing, pc, mine, tail>>
  BY DEF RecoverClear
<1>2. NobodyRuns /\ Silence /\ pinned = {}
  BY <1>1, RecoveryFacts
<1>3. Silence'
  BY <1>1, <1>2, SilenceFacts DEF NobodyRuns
<1>4. /\ lh' \in Seq(Block) /\ head' \in Seq(Block) /\ Len(lh') = 0 /\ Len(head') = 0
      /\ LOGBLOCKS \in Nat
  BY <1>1, LogAssumption
<1>5. TypeOK'
  BY <1>1, <1>4 DEF TypeOK
<1>6. HeadInv' /\ EmptyInv' /\ TailInv' /\ CopyInv' /\ HomeInv'
  BY <1>1, <1>3, <1>4 DEF Silence, HeadInv, EmptyInv, TailInv, CopyInv, HomeInv, Committed
<1>7. PinInv'
  BY <1>1, <1>2, <1>4 DEF PinInv
<1>8. SpaceReserved'
  BY <1>3, <1>4 DEF Silence, SpaceReserved
<1> QED
  BY <1>3, <1>5, <1>6, <1>7, <1>8 DEF Silence

(* At first the log is empty, on the disk and in memory.                   *)
LEMMA InitIInv == Init => IInv
<1> SUFFICES ASSUME Init PROVE IInv
  OBVIOUS
<1>1. Silence
  BY SilenceFacts DEF Init, NobodyRuns
<1>2. /\ lh \in Seq(Block) /\ head \in Seq(Block) /\ Len(lh) = 0 /\ Len(head) = 0
      /\ LOGBLOCKS \in Nat \ {0} /\ Cardinality(Proc) \in Nat /\ Blank \in Val
  BY LogAssumption, FS_CardinalityType DEF Init
<1>3. TypeOK
  <2>1. /\ tail \in 1 .. LOGBLOCKS /\ outstanding \in 0 .. Cardinality(Proc)
        /\ Len(lh) <= LOGBLOCKS /\ Len(head) <= LOGBLOCKS
    BY <1>2 DEF Init
  <2>2. /\ home \in [Block -> Val] /\ logged \in [1 .. LOGBLOCKS -> Val]
        /\ cache \in [Block -> Val \cup {NotCached}] /\ mine \in [Proc -> SUBSET Block]
        /\ pc \in [Proc -> {"idle", "asleep", "retry", "op", "writelog", "writehead",
                            "install", "clear", "finish"}]
    BY <1>2 DEF Init
  <2>3. /\ pinned \subseteq Block /\ committing \in BOOLEAN
        /\ boot \in {"up", "readhead", "install", "clear"}
    BY DEF Init
  <2> QED
    BY <1>2, <2>1, <2>2, <2>3 DEF TypeOK
<1>4. HeadInv /\ EmptyInv /\ TailInv /\ PinInv /\ CopyInv /\ HomeInv
  BY <1>1, <1>2 DEF Init, Silence, HeadInv, EmptyInv, TailInv, PinInv, CopyInv, HomeInv, Committed
<1>5. SpaceReserved
  BY <1>1, <1>2 DEF Silence, SpaceReserved
<1> QED
  BY <1>1, <1>3, <1>4, <1>5 DEF IInv, Silence


(* Every step keeps the invariant.                                         *)
LEMMA NextIInv == IInv /\ [Next]_vars => IInv'
<1> SUFFICES ASSUME IInv, [Next]_vars PROVE IInv'
  OBVIOUS
<1>1. CASE UNCHANGED vars
  <2> USE <1>1 DEF vars
  <2>1. TypeOK' /\ CountInv' /\ BootInv' /\ HeadInv' /\ EmptyInv' /\ TailInv'
    BY DEF IInv, TypeOK, CountInv, BootInv, HeadInv, EmptyInv, TailInv, Ops, At, Committed
  <2>2. PinInv' /\ CopyInv' /\ HomeInv'
    BY DEF IInv, PinInv, CopyInv, HomeInv, Waiting, At
  <2>3. MineInv' /\ SpaceReserved' /\ NobodyStranded'
    BY DEF IInv, MineInv, SpaceReserved, NobodyStranded, Reserved, InLog
  <2> QED
    BY <2>1, <2>2, <2>3 DEF IInv
<1>2. ASSUME NEW p \in Proc, BeginOp(p) PROVE IInv'
  BY <1>2, BeginOpIInv
<1>3. ASSUME NEW p \in Proc, EndOp(p) PROVE IInv'
  BY <1>3, LastEndOpIInv, EndOpIInv
<1>4. ASSUME NEW p \in Proc, WriteLog(p) PROVE IInv'
  BY <1>4, WriteLogIInv
<1>5. ASSUME NEW p \in Proc, WriteHead(p) PROVE IInv'
  BY <1>5, WriteHeadIInv
<1>6. ASSUME NEW p \in Proc, Install(p) PROVE IInv'
  BY <1>6, InstallIInv
<1>7. ASSUME NEW p \in Proc, ClearHead(p) PROVE IInv'
  BY <1>7, ClearHeadIInv
<1>8. ASSUME NEW p \in Proc, Finish(p) PROVE IInv'
  BY <1>8, FinishIInv
<1>9. ASSUME NEW p \in Proc, NEW b \in Block, NEW v \in Val, LogWrite(p, b, v) PROVE IInv'
  BY <1>9, LogWriteIInv
<1>10. ASSUME NEW b \in Block, Evict(b) PROVE IInv'
  BY <1>10, EvictIInv
<1> QED
  BY <1>1, <1>2, <1>3, <1>4, <1>5, <1>6, <1>7, <1>8, <1>9, <1>10,
     CrashIInv, ReadHeadIInv, RecoverIInv, RecoverClearIInv DEF Next

(* The invariant holds in every state the log can reach.                   *)
THEOREM Invariance == Spec => []IInv
<1> QED
  BY InitIInv, NextIInv, PTL DEF Spec

(* begin_op(), log_write(): whatever operations run at once, the log has   *)
(* room for every block that any of them may still add.                    *)
THEOREM RoomForAll == Spec => []SpaceReserved
<1> QED
  BY Invariance, PTL DEF IInv

(* begin_op(), end_op(): nobody sleeps on the log with nobody left to wake *)
(* him up.                                                                 *)
THEOREM NobodyLeftAsleep == Spec => []NobodyStranded
<1> QED
  BY Invariance, PTL DEF IInv

(* end_op(), log_write(): the panics "log.committing" and "log_write       *)
(* outside of trans" do not happen.                                        *)
THEOREM NoStrayOperation ==
  Spec => [](\A p \in Proc : pc[p] = "op" => ~committing /\ outstanding > 0)
<1>1. IInv => \A p \in Proc : pc[p] = "op" => ~committing /\ outstanding > 0
  BY OperationFacts DEF IInv
<1> QED
  BY <1>1, Invariance, PTL

(* end_op(): when no operation is under way, everything is on the disk.    *)
THEOREM DurableWhenIdle == Spec => []IdleIsDurable
<1>1. IInv => IdleIsDurable
  <2> SUFFICES ASSUME IInv, boot = "up", ~committing, outstanding = 0, NEW b \in Block
               PROVE  Read(b) = Recovered(b)
    BY DEF IdleIsDurable
  <2>1. lh = <<>> /\ ~At(Busy)
    BY DEF IInv, EmptyInv, CountInv
  <2>2. ~At({"install", "clear"})
    BY <2>1 DEF At, Busy
  <2>3. head = <<>> /\ Len(head) = 0 /\ Len(lh) = 0
    BY <2>1, <2>2 DEF IInv, HeadInv, Committed
  <2>4. b \notin pinned
    BY <2>3 DEF IInv, PinInv
  <2> QED
    BY <2>3, <2>4 DEF IInv, PinInv, Read, Recovered
<1> QED
  BY <1>1, Invariance, PTL


---------------------------------------------------------------------------
(* What reads see and what a crash leaves, as AtomicStore has them. *)
Current == [b \in Block |-> IF boot = "up" THEN Read(b) ELSE Recovered(b)]

Durable == [b \in Block |-> Recovered(b)]

(* A step of the log that changes these three as a step of the store does  *)
(* is such a step.                                                         *)
LEMMA StoreSteps ==
  /\ Current' = Current /\ Durable' = Durable /\ Ops' = Ops => UNCHANGED Store!vars
  /\ \A p \in Proc :
       p \notin Ops /\ Ops' = Ops \cup {p} /\ Current' = Current /\ Durable' = Durable
         => Store!Next
  /\ \A p \in Proc :
       p \in Ops /\ Ops' = Ops \ {p} /\ Current' = Current /\ Durable' = Durable
         => Store!Next
  /\ \A p \in Proc, b \in Block, v \in Val :
       p \in Ops /\ Ops' = Ops /\ Current' = [Current EXCEPT ![b] = v] /\ Durable' = Durable
         => Store!Next
  /\ Ops = {} /\ Ops' = Ops /\ Current' = Current /\ Durable' = Current => Store!Next
  /\ Ops' = {} /\ Current' = Durable /\ Durable' = Durable => Store!Next
<1> USE DEF Ops, Current, Durable, Store!Next
<1>1. Current' = Current /\ Durable' = Durable /\ Ops' = Ops => UNCHANGED Store!vars
  BY DEF Store!vars
<1>2. ASSUME NEW p \in Proc, p \notin Ops, Ops' = Ops \cup {p},
             Current' = Current, Durable' = Durable
      PROVE  Store!Next
  BY <1>2 DEF Store!Begin
<1>3. ASSUME NEW p \in Proc, p \in Ops, Ops' = Ops \ {p},
             Current' = Current, Durable' = Durable
      PROVE  Store!Next
  BY <1>3 DEF Store!End
<1>4. ASSUME NEW p \in Proc, NEW b \in Block, NEW v \in Val, p \in Ops, Ops' = Ops,
             Current' = [Current EXCEPT ![b] = v], Durable' = Durable
      PROVE  Store!Next
  BY <1>4 DEF Store!Write
<1>5. Ops = {} /\ Ops' = Ops /\ Current' = Current /\ Durable' = Current => Store!Next
  BY DEF Store!Commit
<1>6. Ops' = {} /\ Current' = Durable /\ Durable' = Durable => Store!Next
  BY DEF Store!Crash
<1> QED
  BY <1>1, <1>2, <1>3, <1>4, <1>5, <1>6

(* What recovery makes of a block: the logged contents, if the header has  *)
(* the block.                                                              *)
RecoveredIs ==
  /\ \A i \in 1 .. Len(head) : Recovered(head[i]) = logged[i]
  /\ \A b \in Block : (\A i \in 1 .. Len(head) : head[i] # b) => Recovered(b) = home[b]

(* What recovery makes of the disk: the logged copies of the header's blocks. *)
LEMMA RecoveredFacts ==
  /\ HeadInv => RecoveredIs
  /\ (HeadInv => RecoveredIs)'
<1>1. HeadInv => RecoveredIs
  <2> SUFFICES ASSUME HeadInv PROVE RecoveredIs
    OBVIOUS
  <2>1. ASSUME NEW i \in 1 .. Len(head) PROVE Recovered(head[i]) = logged[i]
    <3> DEFINE j == CHOOSE k \in 1 .. Len(head) : head[k] = head[i]
    <3>1. j \in 1 .. Len(head) /\ head[j] = head[i]
      OBVIOUS
    <3>2. Recovered(head[i]) = logged[j]
      BY DEF Recovered
    <3> HIDE DEF j
    <3>3. j = i
      BY <3>1 DEF HeadInv
    <3> QED
      BY <3>2, <3>3
  <2>2. \A b \in Block : (\A i \in 1 .. Len(head) : head[i] # b) => Recovered(b) = home[b]
    BY DEF Recovered
  <2> QED
    BY <2>1, <2>2 DEF RecoveredIs
<1>2. (HeadInv => RecoveredIs)'
  BY <1>1, PTL
<1> QED
  BY <1>1, <1>2

(* Steps that leave the disk leave what recovery makes of it.              *)
LEMMA SameDisk ==
  ASSUME UNCHANGED <<home, logged, head>>
  PROVE  Durable' = Durable /\ \A b \in Block : Recovered(b)' = Recovered(b)
  BY DEF Durable, Recovered


(* begin_op() is Begin, or nothing the store sees.                         *)
LEMMA BeginOpRefines ==
  ASSUME IInv, NEW p \in Proc, BeginOp(p)
  PROVE  [Store!Next]_(Store!vars)
<1>1. /\ UNCHANGED <<home, logged, head, cache, boot>>
      /\ p \notin Ops /\ (Ops' = Ops \/ Ops' = Ops \cup {p})
  BY DEF BeginOp, Goto, disk, Ops, IInv, TypeOK
<1>2. Durable' = Durable /\ Current' = Current
  BY <1>1, SameDisk DEF Current, Read
<1> QED
  BY <1>1, <1>2, StoreSteps

(* log_write() is Write.                                                   *)
LEMMA LogWriteRefines ==
  ASSUME IInv, NEW p \in Proc, NEW b \in Block, NEW v \in Val, LogWrite(p, b, v)
  PROVE  Store!Next
<1>1. /\ pc[p] = "op" /\ cache' = [cache EXCEPT ![b] = v]
      /\ UNCHANGED <<home, logged, head, pc, boot>>
  BY DEF LogWrite, MayWrite, disk
<1>2. p \in Ops /\ Ops' = Ops /\ boot = "up" /\ v # NotCached
  BY <1>1, LogAssumption DEF Ops, IInv, BootInv
<1>3. Durable' = Durable
  BY <1>1, SameDisk
<1>4. \A c \in Block : Read(c)' = IF c = b THEN v ELSE Read(c)
  BY <1>1, <1>2 DEF Read, IInv, TypeOK
<1>5. Current' = [Current EXCEPT ![b] = v]
  BY <1>1, <1>2, <1>4 DEF Current
<1> QED
  BY <1>2, <1>3, <1>5, StoreSteps

(* end_op() is End.                                                        *)
LEMMA EndOpRefines ==
  ASSUME IInv, NEW p \in Proc, EndOp(p)
  PROVE  Store!Next
<1>1. /\ pc[p] = "op" /\ UNCHANGED <<home, logged, head, cache, boot>>
      /\ \A q \in Proc : pc'[q] = "op" <=> pc[q] = "op" /\ q # p
  BY DEF EndOp, WakeAll, Goto, disk, IInv, TypeOK
<1>2. p \in Ops /\ Ops' = Ops \ {p}
  BY <1>1 DEF Ops
<1>3. Durable' = Durable /\ Current' = Current
  BY <1>1, SameDisk DEF Current, Read
<1> QED
  BY <1>2, <1>3, StoreSteps

(* The store sees nothing of write_log(): the header does not yet say so.  *)
LEMMA WriteLogRefines ==
  ASSUME IInv, NEW p \in Proc, WriteLog(p)
  PROVE  UNCHANGED Store!vars
<1>1. /\ pc[p] = "writelog" /\ UNCHANGED <<home, head, cache, boot>>
      /\ \A q \in Proc : pc'[q] = "op" <=> pc[q] = "op"
  BY DEF WriteLog, Advance, Goto, IInv, TypeOK
<1>2. boot = "up" /\ StageOf(p)
  BY <1>1, CommitterFacts, StageFacts DEF IInv, Busy
<1>3. Len(head) = 0
  BY <1>1, <1>2 DEF IInv, HeadInv, Committed, StageOf
<1>4. \A b \in Block : Recovered(b)' = Recovered(b)
  BY <1>1, <1>3 DEF Recovered
<1>5. Durable' = Durable /\ Current' = Current /\ Ops' = Ops
  BY <1>1, <1>2, <1>4 DEF Durable, Current, Read, Ops
<1> QED
  BY <1>5, StoreSteps

(* The first write_head() is Commit.                                       *)
LEMMA WriteHeadRefines ==
  ASSUME IInv, NEW p \in Proc, WriteHead(p)
  PROVE  Store!Next
<1>1. /\ pc[p] = "writehead" /\ head' = lh /\ UNCHANGED <<home, logged, cache, boot>>
      /\ \A q \in Proc : pc'[q] = "op" <=> pc[q] = "op"
  BY DEF WriteHead, Goto, IInv, TypeOK
<1>2. boot = "up" /\ StageOf(p) /\ Ops = {}
  <2>1. pc[p] \in Busy
    BY <1>1 DEF Busy
  <2>2. /\ boot = "up" /\ committing
        /\ \A q \in Proc : q # p => pc[q] \in {"idle", "asleep", "retry"}
    BY <2>1, CommitterFacts DEF IInv
  <2> QED
    BY <2>2, StageFacts DEF IInv, CountInv, Busy
<1>3. /\ \A i \in 1 .. Len(lh) : lh[i] \in Block /\ lh[i] \in pinned
      /\ \A i \in 1 .. Len(lh) : logged[i] = cache[lh[i]]
  BY <1>1, <1>2 DEF IInv, TypeOK, PinInv, CopyInv, Waiting, StageOf
<1>4. RecoveredIs'
  BY WriteHeadIInv, RecoveredFacts DEF IInv
<1>5. ASSUME NEW b \in Block PROVE Recovered(b)' = Read(b)
  <2>1. CASE \E i \in 1 .. Len(lh) : lh[i] = b
    <3>1. PICK i \in 1 .. Len(lh) : lh[i] = b
      BY <2>1
    <3>2. Recovered(b)' = logged[i]
      BY <1>1, <1>4, <3>1 DEF RecoveredIs
    <3>3. Read(b) = cache[b]
      BY <1>3, <3>1 DEF Read, IInv, PinInv
    <3> QED
      BY <1>3, <3>1, <3>2, <3>3
  <2>2. CASE \A i \in 1 .. Len(lh) : lh[i] # b
    <3>1. Recovered(b)' = home[b]
      BY <1>1, <1>4, <2>2 DEF RecoveredIs
    <3>2. b \notin pinned
      BY <2>2 DEF IInv, PinInv
    <3> QED
      BY <3>1, <3>2 DEF Read, IInv, PinInv
  <2> QED
    BY <2>1, <2>2
<1>6. Durable' = Current /\ Current' = Current /\ Ops' = Ops
  BY <1>1, <1>2, <1>5 DEF Durable, Current, Read, Ops
<1> QED
  BY <1>2, <1>6, StoreSteps


(* The store sees nothing of install_trans(): the header still has every   *)
(* block that it writes, and the cache already holds what it writes.       *)
LEMMA InstallRefines ==
  ASSUME IInv, NEW p \in Proc, Install(p)
  PROVE  UNCHANGED Store!vars
<1>1. /\ pc[p] = "install"
      /\ home' = [home EXCEPT ![lh[tail]] = logged[tail]]
      /\ cache' = [cache EXCEPT ![lh[tail]] = logged[tail]]
      /\ UNCHANGED <<logged, head, lh, boot>>
      /\ \A q \in Proc : pc'[q] = "op" <=> pc[q] = "op"
  BY DEF Install, Advance, Goto, IInv, TypeOK
<1>2. boot = "up" /\ StageOf(p)
  BY <1>1, CommitterFacts, StageFacts DEF IInv, Busy
<1>3. head = lh /\ tail \in 1 .. Len(lh)
  BY <1>1, <1>2 DEF IInv, HeadInv, Committed, TailInv, StageOf, TypeOK
<1>4. /\ lh[tail] \in Block /\ lh[tail] \in pinned
      /\ logged[tail] = cache[lh[tail]] /\ cache[lh[tail]] # NotCached
  BY <1>1, <1>2, <1>3 DEF IInv, TypeOK, PinInv, CopyInv, Waiting, StageOf
<1>5. \A b \in Block : Read(b)' = Read(b)
  BY <1>1, <1>4 DEF Read, IInv, TypeOK
<1>6. RecoveredIs /\ RecoveredIs'
  BY InstallIInv, RecoveredFacts DEF IInv
<1>7. \A b \in Block : Recovered(b)' = Recovered(b)
  BY <1>1, <1>3, <1>6 DEF RecoveredIs, IInv, TypeOK
<1>8. Durable' = Durable /\ Current' = Current /\ Ops' = Ops
  BY <1>1, <1>2, <1>5, <1>7 DEF Durable, Current, Ops
<1> QED
  BY <1>8, StoreSteps

(* Nor of the second write_head(): everything is at home.                  *)
LEMMA ClearHeadRefines ==
  ASSUME IInv, NEW p \in Proc, ClearHead(p)
  PROVE  UNCHANGED Store!vars
<1>1. /\ pc[p] = "clear" /\ head' = <<>> /\ Len(head') = 0
      /\ UNCHANGED <<home, logged, cache, boot>>
      /\ \A q \in Proc : pc'[q] = "op" <=> pc[q] = "op"
  BY DEF ClearHead, Goto, IInv, TypeOK
<1>2. boot = "up" /\ StageOf(p)
  BY <1>1, CommitterFacts, StageFacts DEF IInv, Busy
<1>3. head = lh /\ \A i \in 1 .. Len(lh) : home[lh[i]] = logged[i]
  BY <1>1, <1>2 DEF IInv, HeadInv, Committed, HomeInv, StageOf
<1>4. RecoveredIs /\ RecoveredIs'
  BY ClearHeadIInv, RecoveredFacts DEF IInv
<1>5. \A b \in Block : Recovered(b)' = Recovered(b)
  BY <1>1, <1>3, <1>4 DEF RecoveredIs
<1>6. Durable' = Durable /\ Current' = Current /\ Ops' = Ops
  BY <1>1, <1>2, <1>5 DEF Durable, Current, Read, Ops
<1> QED
  BY <1>6, StoreSteps

(* Nor of the end of end_op().                                             *)
LEMMA FinishRefines ==
  ASSUME IInv, NEW p \in Proc, Finish(p)
  PROVE  UNCHANGED Store!vars
<1>1. /\ UNCHANGED <<home, logged, head, cache, boot>>
      /\ \A q \in Proc : pc'[q] = "op" <=> pc[q] = "op"
  BY DEF Finish, WakeAll, disk, IInv, TypeOK
<1>2. Durable' = Durable /\ Current' = Current /\ Ops' = Ops
  BY <1>1, SameDisk DEF Current, Read, Ops
<1> QED
  BY <1>2, StoreSteps

(* Nor of a buffer that is recycled: it was clean.                         *)
LEMMA EvictRefines ==
  ASSUME IInv, NEW b \in Block, Evict(b)
  PROVE  UNCHANGED Store!vars
<1>1. /\ b \notin pinned /\ cache' = [cache EXCEPT ![b] = NotCached]
      /\ UNCHANGED <<home, logged, head, pc, boot>>
  BY DEF Evict, disk
<1>2. \A c \in Block : Read(c)' = Read(c)
  BY <1>1 DEF Read, IInv, PinInv, TypeOK
<1>3. Durable' = Durable /\ Current' = Current /\ Ops' = Ops
  BY <1>1, <1>2, SameDisk DEF Current, Ops
<1> QED
  BY <1>3, StoreSteps

(* A crash is Crash.                                                       *)
LEMMA CrashRefines ==
  ASSUME IInv, Crash
  PROVE  Store!Next
<1>1. /\ UNCHANGED <<home, logged, head>> /\ boot' = "readhead"
      /\ \A q \in Proc : pc'[q] = "idle"
  BY DEF Crash, disk
<1>2. Durable' = Durable /\ Current' = Durable /\ Ops' = {}
  BY <1>1, SameDisk DEF Current, Durable, Ops
<1> QED
  BY <1>2, StoreSteps

(* The store sees nothing of recovery.                                     *)
LEMMA ReadHeadRefines ==
  ASSUME IInv, ReadHead
  PROVE  UNCHANGED Store!vars
<1>1. UNCHANGED <<home, logged, head, pc>> /\ boot # "up" /\ boot' # "up"
  BY DEF ReadHead, disk
<1>2. Durable' = Durable /\ Current' = Current /\ Ops' = Ops
  BY <1>1, SameDisk DEF Current, Ops
<1> QED
  BY <1>2, StoreSteps

(* Recovery may be cut short and begin again: the header has every block   *)
(* that it writes.                                                         *)
LEMMA RecoverRefines ==
  ASSUME IInv, Recover
  PROVE  UNCHANGED Store!vars
<1>1. /\ boot = "install" /\ boot' # "up"
      /\ home' = [home EXCEPT ![lh[tail]] = logged[tail]]
      /\ UNCHANGED <<logged, head, lh, pc>>
  BY DEF Recover
<1>2. head = lh /\ tail \in 1 .. Len(lh)
  BY <1>1 DEF IInv, HeadInv, Committed, TailInv, TypeOK
<1>3. RecoveredIs /\ RecoveredIs'
  BY RecoverIInv, RecoveredFacts DEF IInv
<1>4. \A b \in Block : Recovered(b)' = Recovered(b)
  BY <1>1, <1>2, <1>3 DEF RecoveredIs, IInv, TypeOK
<1>5. Durable' = Durable /\ Current' = Current /\ Ops' = Ops
  BY <1>1, <1>4 DEF Durable, Current, Ops
<1> QED
  BY <1>5, StoreSteps

(* Once the header is cleared, reads see what recovery made.               *)
LEMMA RecoverClearRefines ==
  ASSUME IInv, RecoverClear
  PROVE  UNCHANGED Store!vars
<1>1. /\ boot = "clear" /\ boot' = "up" /\ head' = <<>> /\ Len(head') = 0
      /\ UNCHANGED <<home, logged, cache, pc>>
  BY DEF RecoverClear
<1>2. head = lh /\ \A i \in 1 .. Len(lh) : home[lh[i]] = logged[i]
  BY <1>1 DEF IInv, HeadInv, Committed, HomeInv
<1>3. pinned = {} /\ \A b \in Block : Read(b)' = home[b]
  BY <1>1, RecoveryFacts DEF Read, IInv, PinInv
<1>4. RecoveredIs /\ RecoveredIs'
  BY RecoverClearIInv, RecoveredFacts DEF IInv
<1>5. \A b \in Block : Recovered(b) = home[b] /\ Recovered(b)' = home[b]
  BY <1>1, <1>2, <1>4 DEF RecoveredIs
<1>6. Durable' = Durable /\ Current' = Current /\ Ops' = Ops
  BY <1>1, <1>3, <1>5 DEF Durable, Current, Ops
<1> QED
  BY <1>6, StoreSteps

(* log.c: the log implements an atomic store, for any number of processes, *)
(* blocks and contents: crashes, during recovery too, lose no committed    *)
(* operation and show nothing of any other.                                *)
THEOREM Refinement == Spec => ImplementsStore
<1>1. Init => Store!Init
  <2> SUFFICES ASSUME Init PROVE Store!Init
    OBVIOUS
  <2>1. Len(head) = 0
    BY DEF Init
  <2>2. \A b \in Block : Recovered(b) = Blank /\ Read(b) = Blank
    BY <2>1 DEF Init, Recovered, Read
  <2> QED
    BY <2>2 DEF Init, Store!Init
<1>2. IInv /\ [Next]_vars => [Store!Next]_(Store!vars)
  <2> SUFFICES ASSUME IInv, [Next]_vars PROVE [Store!Next]_(Store!vars)
    OBVIOUS
  <2>1. CASE UNCHANGED vars
    <3>1. UNCHANGED <<home, logged, head, cache, pc, boot>>
      BY <2>1 DEF vars
    <3>2. Durable' = Durable /\ Current' = Current /\ Ops' = Ops
      BY <3>1, SameDisk DEF Current, Read, Ops
    <3> QED
      BY <3>2, StoreSteps
  <2>2. CASE \E p \in Proc : WriteLog(p) \/ Install(p) \/ ClearHead(p) \/ Finish(p)
    BY <2>2, WriteLogRefines, InstallRefines, ClearHeadRefines, FinishRefines
  <2>3. CASE \E p \in Proc : BeginOp(p) \/ EndOp(p) \/ WriteHead(p)
    BY <2>3, BeginOpRefines, EndOpRefines, WriteHeadRefines
  <2>4. CASE \E p \in Proc, b \in Block, v \in Val : LogWrite(p, b, v)
    BY <2>4, LogWriteRefines
  <2>5. CASE \E b \in Block : Evict(b)
    BY <2>5, EvictRefines
  <2>6. CASE Crash \/ ReadHead \/ Recover \/ RecoverClear
    BY <2>6, CrashRefines, ReadHeadRefines, RecoverRefines, RecoverClearRefines
  <2> QED
    BY <2>1, <2>2, <2>3, <2>4, <2>5, <2>6 DEF Next
<1> QED
  BY <1>1, <1>2, Invariance, PTL DEF Spec, ImplementsStore, Store!Spec
==============================================================================
