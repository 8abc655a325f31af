-------------------------------- MODULE Disk --------------------------------
(***************************************************************************)
(* The buffer cache (kernel/bio.c) over the disk driver                    *)
(* (kernel/virtio_disk.c) and its interrupt handler.                       *)
(*                                                                         *)
(* A step is one hold of bcache.lock, of vdisk_lock or of a buffer's       *)
(* lock; the interrupt handler holds vdisk_lock over several steps, since  *)
(* the device goes on meanwhile.  Complete is the device: it finishes the  *)
(* requests of the avail ring in any order.                                *)
(***************************************************************************)
EXTENDS Integers, Sequences, FiniteSets

CONSTANTS
  Proc,        \* processes
  NoOne,       \* the holder of a lock that is free
  Block,       \* blocks of the disk
  NoBlock,     \* the block of a buffer that was never used
  Val, Blank,  \* contents of a block, and what the disk holds at first
  Writes,      \* the contents that are written
  Uses,        \* the uses of bread() there are: <<process, block, purpose>>,
               \* to read, to write to the disk, to log or to install
  Victims,     \* processes that may be killed
  NBUF,        \* buffers
  LOGBLOCKS,   \* blocks the log may have pinned
  NUMS,        \* the numbers of descriptors that are considered for NUM
  MAXCALLS     \* bound: calls of bread() in a behaviour

ASSUME DiskAssumption ==
  /\ Blank \in Val /\ Writes \subseteq Val
  /\ NoBlock \notin Block /\ NoOne \notin Proc /\ Victims \subseteq Proc
  /\ Uses \subseteq Proc \X Block \X {"read", "write", "log", "install"}
  /\ {NBUF, LOGBLOCKS, MAXCALLS} \subseteq Nat
  /\ IsFiniteSet(Proc)
  /\ NUMS \subseteq Nat \ {0, 1, 2}

Buf == 1 .. NBUF
Desc == UNION {0 .. n - 1 : n \in NUMS}
Null == -1

VARIABLES
  buf,        \* [blockno, valid, refcnt, data, disk] of each buffer
  lru,        \* the list of the buffers, the most recently used first
  lock,       \* holder of each buffer's sleep lock
  pinned,     \* the buffers log_write() has pinned
  pc, at,     \* where each process is, and its buffer
  want,       \* what it has the buffer for
  write,      \* its request to the disk is a write
  head,       \* the first descriptor of its request
  free,       \* disk.free: the descriptors that are free
  next,       \* desc[i].next, Null without VRING_DESC_F_NEXT
  req,        \* ops[i] and info[i]: [b, write, sector]
  used,       \* the entries of disk.used from disk.used_idx on
  handler,    \* virtio_disk_intr() is under way, with vdisk_lock
  platter,    \* what is on the disk
  inflight,   \* device: the requests it was notified of
  irq,        \* device: an interrupt is pending
  panicked,   \* the panic that has stopped the machine, or "no"
  calls

cachevars == <<buf, lru, lock, pinned>>
drivervars == <<free, next, req>>
ringvars == <<used, handler, irq>>
devicevars == <<platter, inflight>>
procvars == <<pc, at, want, write, head>>
vars == <<cachevars, drivervars, ringvars, devicevars, procvars, panicked, calls>>

NoReq == [b |-> 0, write |-> FALSE, sector |-> NoBlock]

(* binit(), virtio_disk_init() *)
Init ==
  /\ buf = [b \in Buf |-> [blockno |-> NoBlock, valid |-> FALSE, refcnt |-> 0,
                           data |-> Blank, disk |-> FALSE]]
  /\ lru = [i \in Buf |-> NBUF + 1 - i]
  /\ lock = [b \in Buf |-> NoOne]
  /\ pinned = {}
  /\ pc = [p \in Proc |-> "idle"] /\ at = [p \in Proc |-> 0]
  /\ want = [p \in Proc |-> "read"] /\ write = [p \in Proc |-> FALSE]
  /\ head = [p \in Proc |-> Null]
  /\ free \in {0 .. n - 1 : n \in NUMS}
  /\ next = [i \in Desc |-> Null]
  /\ req = [i \in Desc |-> NoReq]
  /\ used = <<>> /\ handler = FALSE /\ irq = FALSE
  /\ platter = [b \in Block |-> Blank] /\ inflight = {}
  /\ panicked = "no"
  /\ calls = 0

Goto(p, l) == pc' = [pc EXCEPT ![p] = l]

Up == panicked = "no"

---------------------------------------------------------------------------
(* Buffer cache.                                                           *)

Cached(blk) == {b \in Buf : buf[b].blockno = blk}

(* Mutant: references are not looked at. *)
AnyBuffer == Buf

(* Positions in the list of the buffers that nobody refers to. *)
Unreferenced == {i \in Buf : buf[lru[i]].refcnt = 0}

(* bget()'s second loop: the least recently used of them, for block blk. *)
Recycle(b, blk) ==
  buf' = [buf EXCEPT ![b].blockno = blk, ![b].valid = FALSE, ![b].refcnt = 1]

(* bread(): bget() under bcache.lock. *)
Bget(p, blk, w) ==
  /\ Up /\ pc[p] = "idle" /\ calls < MAXCALLS
  /\ calls' = calls + 1
  /\ want' = [want EXCEPT ![p] = w]
  /\ \/ \E b \in Cached(blk) :
          /\ buf' = [buf EXCEPT ![b].refcnt = @ + 1]
          /\ at' = [at EXCEPT ![p] = b] /\ Goto(p, "lock")
          /\ UNCHANGED panicked
     \/ /\ Cached(blk) = {}
        /\ \E i \in Unreferenced :
             /\ \A j \in Unreferenced : j <= i
             /\ Recycle(lru[i], blk) /\ at' = [at EXCEPT ![p] = lru[i]] /\ Goto(p, "lock")
        /\ UNCHANGED panicked
     \/ /\ Cached(blk) = {} /\ Unreferenced = {}
        /\ panicked' = "bget: no buffers"
        /\ UNCHANGED <<buf, at, pc>>
  /\ UNCHANGED <<lru, lock, pinned, write, head, drivervars, ringvars, devicevars>>

(* bget(): acquiresleep(&b->lock); bread() then reads an invalid buffer.   *)
Lock(p) ==
  /\ Up /\ pc[p] = "lock" /\ lock[at[p]] = NoOne
  /\ lock' = [lock EXCEPT ![at[p]] = p]
  /\ Goto(p, IF buf[at[p]].valid THEN "have" ELSE "request")
  /\ UNCHANGED <<buf, lru, pinned, at, want, write, head, drivervars, ringvars, devicevars, panicked, calls>>

(* A change of the data that goes to the log: log_write() pins the buffer, *)
(* unless the block is in the log already.  (A full log is a panic.)       *)
LogWrite(p, v) ==
  /\ Up /\ pc[p] = "have" /\ want[p] = "log" /\ Cardinality(pinned) < LOGBLOCKS
  /\ LET b == at[p] IN
       /\ buf' = [buf EXCEPT ![b].data = v,
                             ![b].refcnt = IF b \in pinned THEN @ ELSE @ + 1]
       /\ pinned' = pinned \cup {b}
  /\ Goto(p, "done")
  /\ UNCHANGED <<lru, lock, at, want, write, head, drivervars, ringvars, devicevars, panicked, calls>>

(* write_log(), write_head(): a change that bwrite() takes to the disk.    *)
(* These are blocks of the log, which are never pinned.                    *)
Bwrite(p, v) ==
  /\ Up /\ pc[p] = "have" /\ want[p] = "write" /\ at[p] \notin pinned
  /\ buf' = [buf EXCEPT ![at[p]].data = v]
  /\ write' = [write EXCEPT ![p] = TRUE]
  /\ Goto(p, "request")
  /\ UNCHANGED <<lru, lock, pinned, at, want, head, drivervars, ringvars, devicevars, panicked, calls>>

(* install_trans(): a pinned buffer is written to its home. *)
Install(p) ==
  /\ Up /\ pc[p] = "have" /\ want[p] = "install" /\ at[p] \in pinned
  /\ write' = [write EXCEPT ![p] = TRUE]
  /\ Goto(p, "request")
  /\ UNCHANGED <<cachevars, at, want, head, drivervars, ringvars, devicevars, panicked, calls>>

(* install_trans(): bunpin() *)
Bunpin(p) ==
  /\ Up /\ pc[p] = "unpin"
  /\ buf' = [buf EXCEPT ![at[p]].refcnt = @ - 1]
  /\ pinned' = pinned \ {at[p]}
  /\ Goto(p, "done")
  /\ UNCHANGED <<lru, lock, at, want, write, head, drivervars, ringvars, devicevars, panicked, calls>>

(* brelse(): releasesleep(&b->lock) *)
Brelse(p) ==
  /\ Up /\ pc[p] \in {"have", "done"}
  /\ lock' = [lock EXCEPT ![at[p]] = NoOne]
  /\ Goto(p, "drop")
  /\ UNCHANGED <<buf, lru, pinned, at, want, write, head, drivervars, ringvars, devicevars, panicked, calls>>

(* The list with buffer b at its front. *)
ToFront(b) ==
  LET k == CHOOSE i \in Buf : lru[i] = b
  IN  [i \in Buf |-> IF i = 1 THEN b ELSE IF i <= k THEN lru[i - 1] ELSE lru[i]]

(* brelse(), under bcache.lock: a buffer without references goes to the    *)
(* front of the list.                                                      *)
BrelseDrop(p) ==
  /\ Up /\ pc[p] = "drop"
  /\ LET b == at[p] IN
       /\ buf' = [buf EXCEPT ![b].refcnt = @ - 1]
       /\ lru' = IF buf[b].refcnt = 1 THEN ToFront(b) ELSE lru
  /\ at' = [at EXCEPT ![p] = 0]
  /\ write' = [write EXCEPT ![p] = FALSE]
  /\ want' = [want EXCEPT ![p] = "read"]
  /\ Goto(p, "idle")
  /\ UNCHANGED <<lock, pinned, head, drivervars, ringvars, devicevars, panicked, calls>>

---------------------------------------------------------------------------
(* Driver.                                                                 *)

(* alloc_desc(): the lowest descriptor of S is found. *)
alloc_desc(i, S) == i \in S /\ \A d \in S : i <= d

(* alloc3_desc() *)
alloc3_desc(i, j, k) ==
  alloc_desc(i, free) /\ alloc_desc(j, free \ {i}) /\ alloc_desc(k, free \ {i, j})

(* wakeup(&disk.free[0]), by a process that goes on to label l. *)
WakeWaiters(p, l) ==
  pc' = [q \in Proc |-> IF q = p THEN l ELSE IF pc[q] = "nodesc" THEN "request" ELSE pc[q]]

(* virtio_disk_rw(): three descriptors are filled and offered; then the    *)
(* process sleeps on b.  vdisk_lock is held from the test to the sleep.    *)
Submit(p) ==
  /\ Up /\ pc[p] = "request" /\ ~handler
  /\ \E i, j, k \in free :
       /\ alloc3_desc(i, j, k)
       /\ free' = free \ {i, j, k}
       /\ next' = [next EXCEPT ![i] = j, ![j] = k, ![k] = Null]
       /\ req' = [req EXCEPT ![i] = [b |-> at[p], write |-> write[p],
                                     sector |-> buf[at[p]].blockno]]
       /\ head' = [head EXCEPT ![p] = i]
       /\ inflight' = inflight \cup {i}
  /\ buf' = [buf EXCEPT ![at[p]].disk = TRUE]
  /\ Goto(p, "io")
  /\ UNCHANGED <<lru, lock, pinned, at, want, write, ringvars, platter, panicked, calls>>

(* alloc3_desc() fails, and gives back what it had: free_desc() wakes the  *)
(* other waiters, for nothing.  Then the process sleeps on disk.free[0].   *)
SubmitWaits(p) ==
  /\ Up /\ pc[p] = "request" /\ ~handler
  /\ Cardinality(free) < 3
  /\ IF free = {} THEN Goto(p, "nodesc") ELSE WakeWaiters(p, "nodesc")
  /\ UNCHANGED <<cachevars, at, want, write, head, drivervars, ringvars, devicevars, panicked, calls>>

(* free_chain() from descriptor i; a free descriptor is a panic. *)
Chain(i) ==
  {i} \cup (IF next[i] = Null THEN {}
            ELSE {next[i]} \cup (IF next[next[i]] = Null THEN {} ELSE {next[next[i]]}))

(* Where control goes when the request is finished. *)
Finished(p) == IF ~write[p] THEN "have" ELSE IF want[p] = "install" THEN "unpin" ELSE "done"

(* virtio_disk_rw() after its sleep on b: the request is finished, or the  *)
(* process was woken up for another reason and sleeps again.               *)
Awake(p) ==
  /\ Up /\ pc[p] = "awake" /\ ~handler
  /\ IF buf[at[p]].disk
     THEN Goto(p, "io") /\ UNCHANGED <<buf, head, free, next, req, panicked>>
     ELSE /\ req' = [req EXCEPT ![head[p]] = NoReq]
          /\ panicked' = IF Chain(head[p]) \cap free = {} THEN "no" ELSE "free_desc 2"
          /\ free' = free \cup Chain(head[p])
          /\ next' = [i \in Desc |-> IF i \in Chain(head[p]) THEN Null ELSE next[i]]
          /\ head' = [head EXCEPT ![p] = Null]
          /\ buf' = [buf EXCEPT ![at[p]].valid = TRUE]
          /\ WakeWaiters(p, Finished(p))
  /\ UNCHANGED <<lru, lock, pinned, at, want, write, ringvars, devicevars, calls>>

(* kkill() makes a sleeping process RUNNABLE; both loops sleep again. *)
Kill(p) ==
  /\ Up
  /\ \/ pc[p] = "io" /\ Goto(p, "awake")
     \/ pc[p] = "nodesc" /\ Goto(p, "request")
  /\ UNCHANGED <<cachevars, at, want, write, head, drivervars, ringvars, devicevars, panicked, calls>>

---------------------------------------------------------------------------
(* Interrupt.                                                              *)

(* Mutant: one entry an interrupt. *)
OneEntry(u) == FALSE

(* used_idx != used->idx: the handler's loop goes on. *)
More(u) == u # <<>>

(* virtio_disk_intr(): vdisk_lock is taken and the interrupt acknowledged. *)
(* An earlier interrupt may have left nothing to do.                       *)
IntrAck ==
  /\ Up /\ irq /\ ~handler
  /\ irq' = FALSE /\ handler' = (used # <<>>)
  /\ UNCHANGED <<cachevars, drivervars, used, devicevars, procvars, panicked, calls>>

(* virtio_disk_intr(): one entry of the used ring.  The device reports no
   errors, so the panic on info[id].status is not here.                    *)
IntrEntry ==
  /\ Up /\ handler
  /\ LET b == req[Head(used)].b IN
       /\ buf' = [buf EXCEPT ![b].disk = FALSE]
       /\ pc' = [p \in Proc |-> IF pc[p] = "io" /\ at[p] = b THEN "awake" ELSE pc[p]]
  /\ used' = Tail(used)
  /\ handler' = More(used')
  /\ UNCHANGED <<lru, lock, pinned, drivervars, irq, devicevars, at, want, write, head,
                 panicked, calls>>

---------------------------------------------------------------------------
(* The device.                                                             *)

(* A request is carried out, entered in the used ring and announced. *)
Complete(i) ==
  /\ Up /\ i \in inflight
  /\ IF req[i].write
     THEN platter' = [platter EXCEPT ![req[i].sector] = buf[req[i].b].data] /\ UNCHANGED buf
     ELSE buf' = [buf EXCEPT ![req[i].b].data = platter[req[i].sector]] /\ UNCHANGED platter
  /\ inflight' = inflight \ {i}
  /\ used' = Append(used, i)
  /\ irq' = TRUE
  /\ UNCHANGED <<lru, lock, pinned, drivervars, handler, procvars, panicked, calls>>

---------------------------------------------------------------------------
Step(p) ==
  \/ Lock(p) \/ Install(p) \/ Bunpin(p) \/ Brelse(p) \/ BrelseDrop(p)
  \/ Submit(p) \/ SubmitWaits(p) \/ Awake(p)
  \/ \E v \in Writes : LogWrite(p, v) \/ Bwrite(p, v)

Device == \E i \in Desc : Complete(i)

Intr == IntrAck \/ IntrEntry

Next ==
  \/ \E p \in Proc : Step(p)
  \/ \E u \in Uses : Bget(u[1], u[2], u[3])
  \/ \E p \in Victims : Kill(p)
  \/ Device
  \/ Intr

(* A process that can go on does, the device works, and its interrupts are *)
(* taken.                                                                  *)
Fairness ==
  /\ \A p \in Proc : WF_vars(Step(p))
  /\ WF_vars(Device)
  /\ WF_vars(Intr)

Spec == Init /\ [][Next]_vars /\ Fairness

---------------------------------------------------------------------------
(* The content of a block: the valid buffer's, or the disk's. *)
Content(blk) ==
  LET valid == {b \in Cached(blk) : buf[b].valid} IN
  IF valid = {} THEN platter[blk] ELSE buf[CHOOSE b \in valid : TRUE].data

(* bread() has returned to p, with block blk, and brelse() has not begun.  *)
Has(p, blk) ==
  /\ at[p] # 0 /\ buf[at[p]].blockno = blk
  /\ \/ pc[p] \in {"have", "unpin", "done"}
     \/ write[p] /\ pc[p] \in {"request", "nodesc", "io", "awake"}

Contents == [blk \in Block |-> Content(blk)]
Holders == [blk \in Block |-> {p \in Proc : Has(p, blk)}]

Blocks == INSTANCE BlockStore WITH content <- Contents, holders <- Holders

(* bio.c, virtio_disk.c: the cache and the asynchronous disk are a store   *)
(* of blocks: a block changes only by its holder's hand and keeps its      *)
(* content when its buffer is recycled and read again, in whatever order   *)
(* the device finishes requests; two processes never have one block.       *)
ImplementsBlocks == Blocks!Spec

(* virtio_disk_rw(), virtio_disk_intr(), bget(): every call of bread(),    *)
(* and the writes made with its buffer, come to their end: no completion,  *)
(* no free descriptor and no released buffer is waited for in vain.        *)
EveryCallReturns ==
  \A p \in Proc : pc[p] # "idle" ~> pc[p] = "idle" \/ panicked = "bget: no buffers"

---------------------------------------------------------------------------
(* The parts of the inductive invariant *)

Buffer == [blockno : Block \cup {NoBlock}, valid : BOOLEAN, refcnt : Nat,
           data : Val, disk : BOOLEAN]

Label == {"idle", "lock", "request", "nodesc", "io", "awake", "have", "unpin", "done", "drop"}

TypeOK ==
  /\ buf \in [Buf -> Buffer]
  /\ lru \in [Buf -> Buf]
  /\ lock \in [Buf -> Proc \cup {NoOne}]
  /\ pinned \subseteq Buf
  /\ pc \in [Proc -> Label]
  /\ at \in [Proc -> Buf \cup {0}]
  /\ want \in [Proc -> {"read", "write", "log", "install"}]
  /\ write \in [Proc -> BOOLEAN]
  /\ head \in [Proc -> Desc \cup {Null}]
  /\ free \subseteq Desc
  /\ next \in [Desc -> Desc \cup {Null}]
  /\ req \in [Desc -> [b : Buf \cup {0}, write : BOOLEAN, sector : Block \cup {NoBlock}]]
  /\ used \in Seq(Desc)
  /\ platter \in [Block -> Val]
  /\ inflight \subseteq Desc

(* A block has one buffer at most. *)
OneBuffer ==
  \A b, c \in Buf : buf[b].blockno = buf[c].blockno /\ buf[b].blockno # NoBlock => b = c

(* b->refcnt counts the processes that have been given b and the log's pin.*)
Refs(b) == {p \in Proc : at[p] = b} \cup (IF b \in pinned THEN {NoOne} ELSE {})

CountInv == \A b \in Buf : buf[b].refcnt = Cardinality(Refs(b))

(* Where a process has its buffer's lock, and where it has a request. *)
Locked == {"request", "nodesc", "io", "awake", "have", "unpin", "done"}
Asking == {"request", "nodesc", "io", "awake"}
Active == {"io", "awake"}

PlaceInv ==
  \A p \in Proc :
    /\ at[p] = 0 <=> pc[p] = "idle"
    /\ at[p] # 0 => buf[at[p]].blockno \in Block
    /\ pc[p] \in {"idle", "lock", "have"} => ~write[p]
    /\ pc[p] = "unpin" => write[p]

(* What install_trans() unpins is pinned. *)
PinInv ==
  \A p \in Proc : pc[p] = "unpin" \/ (write[p] /\ want[p] = "install" /\ pc[p] \in Asking)
    => at[p] \in pinned

LockInv == \A b \in Buf, p \in Proc : lock[b] = p <=> at[p] = b /\ pc[p] \in Locked

(* b->valid from the end of the read until the buffer is recycled. *)
ValidInv ==
  /\ \A b \in Buf : buf[b].valid => buf[b].blockno \in Block
  /\ \A b \in pinned : buf[b].valid
  /\ \A p \in Proc : /\ pc[p] \in Asking => (buf[at[p]].valid <=> write[p])
                     /\ pc[p] \in {"have", "unpin", "done"} => buf[at[p]].valid

(* A descriptor chain belongs to one request, and none of it is free. *)
ChainInv ==
  /\ \A p \in Proc : pc[p] \in Active => head[p] \in Desc /\ Chain(head[p]) \cap free = {}
  /\ \A p, q \in Proc : pc[p] \in Active /\ pc[q] \in Active /\ p # q =>
       Chain(head[p]) \cap Chain(head[q]) = {}

(* The device works on the requests of processes that wait for it, and     *)
(* info[i] and b->disk say so until the handler has seen the entry.        *)
Pending == inflight \cup {used[i] : i \in 1 .. Len(used)}

RequestInv ==
  /\ \A i \in Pending : \E p \in Proc : pc[p] \in Active /\ head[p] = i
  /\ \A p \in Proc : pc[p] \in Active =>
       /\ req[head[p]] = [b |-> at[p], write |-> write[p], sector |-> buf[at[p]].blockno]
       /\ buf[at[p]].disk <=> head[p] \in Pending
  /\ \A i \in 1 .. Len(used) : used[i] \notin inflight
  /\ \A i, j \in 1 .. Len(used) : used[i] = used[j] => i = j
  /\ handler => used # <<>>

(* The buffer holds what the disk does: of a process past the device, and  *)
(* of a valid buffer that is neither pinned nor on its way to the disk.    *)
Synced(b) == buf[b].data = platter[buf[b].blockno]

Past(p) == pc[p] = "unpin" \/ (pc[p] \in Active /\ head[p] \notin inflight)

Dirty(p) ==
  write[p] /\ (pc[p] \in {"request", "nodesc"} \/ (pc[p] \in Active /\ head[p] \in inflight))

SyncInv ==
  /\ \A p \in Proc : Past(p) => Synced(at[p])
  /\ \A b \in Buf : buf[b].valid /\ b \notin pinned /\ ~(\E p \in Proc : at[p] = b /\ Dirty(p))
       => Synced(b)

(* free_desc(): no descriptor is freed twice. *)
NoDoubleFree == panicked # "free_desc 2"

IInv ==
  /\ TypeOK /\ OneBuffer /\ CountInv /\ PlaceInv /\ PinInv /\ LockInv /\ ValidInv
  /\ ChainInv /\ RequestInv /\ SyncInv /\ NoDoubleFree
=============================================================================
