-------------------------------- MODULE Log --------------------------------
(***************************************************************************)
(* The write-ahead log of the file system (kernel/log.c) over the buffer   *)
(* cache (kernel/bio.c) and a disk that writes one block at a time.        *)
(*                                                                         *)
(* A step is one hold of log.lock or one write to the disk.  The machine   *)
(* may crash between any two steps, during recovery too.                   *)
(***************************************************************************)
EXTENDS Naturals, Sequences, FiniteSets

CONSTANTS
  Proc,        \* processes in file system calls
  Block,       \* home blocks
  Val,         \* block contents
  Blank,       \* what the disk holds at first
  NotCached,   \* no buffer holds the block
  MAXOPBLOCKS, \* blocks an operation may write
  LOGBLOCKS    \* blocks the log has room for

ASSUME LogAssumption ==
  /\ IsFiniteSet(Proc)
  /\ Blank \in Val /\ NotCached \notin Val
  /\ MAXOPBLOCKS \in Nat \ {0} /\ LOGBLOCKS \in Nat
  /\ MAXOPBLOCKS <= LOGBLOCKS

VARIABLES
  home,        \* disk: the blocks at their home locations
  logged,      \* disk: the blocks of the log
  head,        \* disk: the log's header
  cache,       \* buffer cache, home blocks only
  pinned,      \* blocks bpin() keeps in the cache
  lh,          \* log.lh
  outstanding, \* log.outstanding
  committing,  \* log.committing
  pc,          \* where in begin_op() .. end_op() each process is
  mine,        \* the blocks its operation has written
  tail,        \* the loop variable of write_log() and install_trans()
  boot         \* "up", or how far recover_from_log() is

disk == <<home, logged, head>>
vars == <<home, logged, head, cache, pinned, lh, outstanding, committing, pc, mine, tail, boot>>

Init ==
  /\ home = [b \in Block |-> Blank]
  /\ logged = [i \in 1 .. LOGBLOCKS |-> Blank]
  /\ head = <<>>
  /\ cache = [b \in Block |-> NotCached]
  /\ pinned = {}
  /\ lh = <<>>
  /\ outstanding = 0
  /\ committing = FALSE
  /\ pc = [p \in Proc |-> "idle"]
  /\ mine = [p \in Proc |-> {}]
  /\ tail = 1
  /\ boot = "up"

InLog(b) == \E i \in 1 .. Len(lh) : lh[i] = b

(* wakeup(&log), by a process that goes on to label l. *)
WakeAll(p, l) ==
  pc' = [q \in Proc |-> IF q = p THEN l ELSE IF pc[q] = "asleep" THEN "retry" ELSE pc[q]]

Goto(p, l) == pc' = [pc EXCEPT ![p] = l]

---------------------------------------------------------------------------
(* Mutant: the caller's own blocks are not reserved. *)
LateRoom == Len(lh) + outstanding * MAXOPBLOCKS <= LOGBLOCKS

(* begin_op()'s test of the space in the log. *)
Room == Len(lh) + (outstanding + 1) * MAXOPBLOCKS <= LOGBLOCKS

(* begin_op(): once around its loop; the first time, or after a wakeup.    *)
BeginOp(p) ==
  /\ boot = "up"
  /\ pc[p] \in {"idle", "retry"}
  /\ IF committing \/ ~Room
     THEN Goto(p, "asleep") /\ UNCHANGED outstanding
     ELSE /\ Goto(p, "op")
          /\ outstanding' = outstanding + 1
  /\ UNCHANGED <<disk, cache, pinned, lh, committing, mine, tail, boot>>

(* The operation of p keeps to the blocks it may write. *)
MayWrite(p, b) == pc[p] = "op" /\ Cardinality(mine[p] \cup {b}) <= MAXOPBLOCKS

(* An operation changes a buffer under the buffer's lock and calls         *)
(* log_write(); a block that is in the log already is absorbed.  With a    *)
(* full log it panics, even for a block it would absorb: that is a Crash.  *)
LogWrite(p, b, v) ==
  /\ MayWrite(p, b)
  /\ Len(lh) < LOGBLOCKS
  /\ cache' = [cache EXCEPT ![b] = v]
  /\ lh' = IF InLog(b) THEN lh ELSE Append(lh, b)
  /\ pinned' = pinned \cup {b}
  /\ mine' = [mine EXCEPT ![p] = @ \cup {b}]
  /\ UNCHANGED <<disk, outstanding, committing, pc, tail, boot>>

(* end_op(): the last one out commits; the others make room.               *)
EndOp(p) ==
  /\ pc[p] = "op"
  /\ outstanding' = outstanding - 1
  /\ mine' = [mine EXCEPT ![p] = {}]
  /\ IF outstanding = 1
     THEN /\ committing' = TRUE
          /\ tail' = 1
          /\ Goto(p, IF lh = <<>> THEN "finish" ELSE "writelog")
     ELSE WakeAll(p, "idle") /\ UNCHANGED <<committing, tail>>
  /\ UNCHANGED <<disk, cache, pinned, lh, boot>>

---------------------------------------------------------------------------
(* commit() *)

(* The loop over log.lh.block[]: on to the next block, or to label l. *)
Advance(p, l) ==
  IF tail < Len(lh) THEN tail' = tail + 1 /\ UNCHANGED pc
  ELSE tail' = 1 /\ Goto(p, l)

(* write_log(): one block from the cache to the log. *)
WriteLog(p) ==
  /\ pc[p] = "writelog"
  /\ logged' = [logged EXCEPT ![tail] = cache[lh[tail]]]
  /\ Advance(p, "writehead")
  /\ UNCHANGED <<home, head, cache, pinned, lh, outstanding, committing, mine, boot>>

(* write_head(): "the real commit". *)
WriteHead(p) ==
  /\ pc[p] = "writehead"
  /\ head' = lh
  /\ Goto(p, "install")
  /\ UNCHANGED <<home, logged, cache, pinned, lh, outstanding, committing, mine, tail, boot>>

(* install_trans(0): one block from the log to its home, and unpinned. *)
Install(p) ==
  /\ pc[p] = "install"
  /\ home' = [home EXCEPT ![lh[tail]] = logged[tail]]
  /\ cache' = [cache EXCEPT ![lh[tail]] = logged[tail]]
  /\ pinned' = pinned \ {lh[tail]}
  /\ Advance(p, "clear")
  /\ UNCHANGED <<logged, head, lh, outstanding, committing, mine, boot>>

(* Mutant: the header stays on the disk. *)
LazyClearHead(p) ==
  /\ pc[p] = "clear"
  /\ lh' = <<>>
  /\ Goto(p, "finish")
  /\ UNCHANGED <<disk, cache, pinned, outstanding, committing, mine, tail, boot>>

(* log.lh.n = 0 and write_head(): the transaction is erased. *)
ClearHead(p) ==
  /\ pc[p] = "clear"
  /\ lh' = <<>>
  /\ head' = <<>>
  /\ Goto(p, "finish")
  /\ UNCHANGED <<home, logged, cache, pinned, outstanding, committing, mine, tail, boot>>

(* Mutant: nobody is woken up after a commit. *)
SilentFinish(p) ==
  /\ pc[p] = "finish"
  /\ committing' = FALSE
  /\ Goto(p, "idle")
  /\ UNCHANGED <<disk, cache, pinned, lh, outstanding, mine, tail, boot>>

(* The end of end_op(). *)
Finish(p) ==
  /\ pc[p] = "finish"
  /\ committing' = FALSE
  /\ WakeAll(p, "idle")
  /\ UNCHANGED <<disk, cache, pinned, lh, outstanding, mine, tail, boot>>

(* bget() recycles a buffer nobody holds: its contents are forgotten. *)
Evict(b) ==
  /\ cache[b] # NotCached
  /\ b \notin pinned
  /\ cache' = [cache EXCEPT ![b] = NotCached]
  /\ UNCHANGED <<disk, pinned, lh, outstanding, committing, pc, mine, tail, boot>>

---------------------------------------------------------------------------
(* The machine stops; only the disk is left. *)
Crash ==
  /\ cache' = [b \in Block |-> NotCached]
  /\ pinned' = {}
  /\ lh' = <<>>
  /\ outstanding' = 0
  /\ committing' = FALSE
  /\ pc' = [p \in Proc |-> "idle"]
  /\ mine' = [p \in Proc |-> {}]
  /\ tail' = 1
  /\ boot' = "readhead"
  /\ UNCHANGED disk

(* recover_from_log(): read_head() *)
ReadHead ==
  /\ boot = "readhead"
  /\ lh' = head
  /\ boot' = IF head = <<>> THEN "clear" ELSE "install"
  /\ UNCHANGED <<disk, cache, pinned, outstanding, committing, pc, mine, tail>>

(* install_trans(1): nothing is unpinned. *)
Recover ==
  /\ boot = "install"
  /\ home' = [home EXCEPT ![lh[tail]] = logged[tail]]
  /\ cache' = [cache EXCEPT ![lh[tail]] = logged[tail]]
  /\ IF tail < Len(lh) THEN tail' = tail + 1 /\ UNCHANGED boot
     ELSE tail' = 1 /\ boot' = "clear"
  /\ UNCHANGED <<logged, head, pinned, lh, outstanding, committing, pc, mine>>

(* log.lh.n = 0 and write_head() *)
RecoverClear ==
  /\ boot = "clear"
  /\ lh' = <<>>
  /\ head' = <<>>
  /\ boot' = "up"
  /\ UNCHANGED <<home, logged, cache, pinned, outstanding, committing, pc, mine, tail>>

Next ==
  \/ \E p \in Proc :
       \/ BeginOp(p) \/ EndOp(p) \/ WriteLog(p) \/ WriteHead(p)
       \/ Install(p) \/ ClearHead(p) \/ Finish(p)
       \/ \E b \in Block, v \in Val : LogWrite(p, b, v)
  \/ \E b \in Block : Evict(b)
  \/ Crash \/ ReadHead \/ Recover \/ RecoverClear

Spec == Init /\ [][Next]_vars

---------------------------------------------------------------------------
TypeOK ==
  /\ home \in [Block -> Val]
  /\ logged \in [1 .. LOGBLOCKS -> Val]
  /\ head \in Seq(Block) /\ Len(head) <= LOGBLOCKS
  /\ cache \in [Block -> Val \cup {NotCached}]
  /\ pinned \subseteq Block
  /\ lh \in Seq(Block) /\ Len(lh) <= LOGBLOCKS
  /\ outstanding \in 0 .. Cardinality(Proc)
  /\ committing \in BOOLEAN
  /\ pc \in [Proc -> {"idle", "asleep", "retry", "op", "writelog", "writehead",
                      "install", "clear", "finish"}]
  /\ mine \in [Proc -> SUBSET Block]
  /\ tail \in 1 .. LOGBLOCKS
  /\ boot \in {"up", "readhead", "install", "clear"}

(* What bread() returns. *)
Read(b) == IF cache[b] = NotCached THEN home[b] ELSE cache[b]

(* What recovery would make of the disk. *)
Recovered(b) ==
  IF \E i \in 1 .. Len(head) : head[i] = b
  THEN logged[CHOOSE i \in 1 .. Len(head) : head[i] = b]
  ELSE home[b]

Store == INSTANCE AtomicStore WITH
  current <- [b \in Block |-> IF boot = "up" THEN Read(b) ELSE Recovered(b)],
  durable <- [b \in Block |-> Recovered(b)],
  active <- {p \in Proc : pc[p] = "op"}

(* log.c: whenever the machine crashes, and as often as it crashes again   *)
(* while it recovers, the disk holds every operation that was committed    *)
(* and nothing of any other; no read ever sees anything else.              *)
ImplementsStore == Store!Spec

(* The room in the log that is reserved: a place for each block that an    *)
(* operation may still add.                                                *)
Reserved ==
  {r \in Proc \X (1 .. MAXOPBLOCKS) : pc[r[1]] = "op" /\ r[2] > Cardinality(mine[r[1]])}

(* begin_op(), log_write(): every operation that was let in finds room for *)
(* each new block it may still write: log_write() does not panic on one.   *)
SpaceReserved == Len(lh) + Cardinality(Reserved) <= LOGBLOCKS

(* begin_op(), end_op(): a process sleeps on the log only while somebody   *)
(* is on the way to wake it up.                                            *)
NobodyStranded ==
  (\E p \in Proc : pc[p] = "asleep") => committing \/ outstanding > 0

(* end_op(): when no operation is under way, everything is on the disk.    *)
IdleIsDurable ==
  boot = "up" /\ ~committing /\ outstanding = 0 =>
    \A b \in Block : Read(b) = Recovered(b)

---------------------------------------------------------------------------
(* The parts of the inductive invariant *)

Ops == {p \in Proc : pc[p] = "op"}

Busy == {"writelog", "writehead", "install", "clear", "finish"}

(* Somebody is at one of the labels l. *)
At(l) == \E p \in Proc : pc[p] \in l

(* log.outstanding counts the operations; one process at a time commits,   *)
(* when there are none: end_op() does not panic "log.committing", nor      *)
(* log_write() "outside of trans".                                         *)
CountInv ==
  /\ outstanding = Cardinality(Ops)
  /\ committing <=> At(Busy)
  /\ committing => Ops = {}
  /\ \A p, q \in Proc : pc[p] \in Busy /\ pc[q] \in Busy => p = q

(* Nobody runs before recover_from_log() is done. *)
BootInv == boot # "up" => \A p \in Proc : pc[p] = "idle"

(* The header on the disk is empty but from the real commit to its end.    *)
Committed == boot = "install" \/ boot = "clear" \/ At({"install", "clear"})

HeadInv ==
  /\ Committed => head = lh
  /\ boot = "up" /\ ~Committed => head = <<>>
  /\ boot = "readhead" => lh = <<>>
  /\ \A i, j \in 1 .. Len(lh) : lh[i] = lh[j] => i = j
  /\ \A i, j \in 1 .. Len(head) : head[i] = head[j] => i = j

(* Only operations and their commit leave blocks in the log. *)
EmptyInv ==
  /\ boot = "up" /\ ~committing /\ outstanding = 0 => lh = <<>>
  /\ At({"finish"}) => lh = <<>>

(* The loops stop at the end of log.lh. *)
TailInv ==
  /\ boot = "install" \/ At({"writelog", "writehead", "install"}) => tail <= Len(lh)
  /\ boot = "readhead" \/ At({"writehead"}) => tail = 1

(* Block i is still to be installed. *)
Waiting(i) == ~At({"clear"}) /\ (At({"install"}) => i >= tail)

(* Modified blocks stay in the cache until they are at home; what is not   *)
(* pinned is clean.                                                        *)
PinInv ==
  /\ \A b \in Block : b \in pinned <=>
       boot = "up" /\ \E i \in 1 .. Len(lh) : lh[i] = b /\ Waiting(i)
  /\ \A b \in pinned : cache[b] # NotCached
  /\ \A b \in Block \ pinned : cache[b] \in {NotCached, home[b]}

(* What write_log() has copied is what the cache holds. *)
CopyInv ==
  \A i \in 1 .. Len(lh) :
    \/ At({"writelog"}) /\ i < tail
    \/ At({"writehead"})
    \/ At({"install"}) /\ i >= tail
    => logged[i] = cache[lh[i]]

(* What was installed is at home. *)
HomeInv ==
  \A i \in 1 .. Len(lh) :
    \/ (boot = "install" \/ At({"install"})) /\ i < tail
    \/ boot = "clear" \/ At({"clear"})
    => home[lh[i]] = logged[i]

(* An operation has written what it may, all of it in the log. *)
MineInv ==
  \A p \in Proc : /\ IsFiniteSet(mine[p])
                  /\ \A b \in mine[p] : InLog(b)
                  /\ pc[p] # "op" => mine[p] = {}

IInv ==
  /\ TypeOK /\ CountInv /\ BootInv /\ HeadInv /\ EmptyInv /\ TailInv
  /\ PinInv /\ CopyInv /\ HomeInv /\ MineInv /\ SpaceReserved /\ NobodyStranded
=============================================================================
