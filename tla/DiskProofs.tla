----------------------------- MODULE DiskProofs -----------------------------
(***************************************************************************)
(* Disk for any number of processes, blocks, buffers and descriptors: no   *)
(* descriptor is freed twice, and the buffer cache over the asynchronous   *)
(* disk implements BlockStore.                                             *)
(***************************************************************************)
EXTENDS Disk, FiniteSetTheorems, TLAPS

(* References are finitely many; a buffer without any is nobody's.         *)
LEMMA RefsFinite ==
  ASSUME NEW b \in Buf
  PROVE  IsFiniteSet(Refs(b)) /\ Cardinality(Refs(b)) \in Nat
<1>1. IsFiniteSet({p \in Proc : at[p] = b})
  BY FS_Subset, DiskAssumption
<1>2. IsFiniteSet(Refs(b))
  <2>1. CASE b \in pinned
    BY <1>1, <2>1, FS_AddElement DEF Refs
  <2>2. CASE b \notin pinned
    <3>1. Refs(b) = {p \in Proc : at[p] = b}
      BY <2>2 DEF Refs
    <3> QED
      BY <1>1, <3>1
  <2> QED
    BY <2>1, <2>2
<1> QED
  BY <1>2, FS_CardinalityType

(* ... and so it may be recycled.                                          *)
LEMMA Nobodys ==
  ASSUME IInv, NEW b \in Buf, buf[b].refcnt = 0
  PROVE  b \notin pinned /\ \A p \in Proc : at[p] # b
<1>1. Refs(b) = {}
  <2>1. Cardinality(Refs(b)) = 0
    BY DEF IInv, CountInv
  <2> QED
    BY <2>1, RefsFinite, FS_EmptySet
<1> QED
  BY <1>1 DEF Refs

(* A process that has a buffer's lock is the only one.                     *)
LEMMA OneHolder ==
  ASSUME IInv, NEW p \in Proc, NEW q \in Proc,
         pc[p] \in Locked, pc[q] \in Locked, at[p] = at[q]
  PROVE  p = q /\ at[p] \in Buf
<1>1. at[p] \in Buf
  BY DEF IInv, TypeOK, PlaceInv, Locked
<1> QED
  BY <1>1 DEF IInv, LockInv

---------------------------------------------------------------------------
(* Steps that the device and what is in the buffers do not notice          *)

SameBuffers ==
  \A b \in Buf : /\ buf'[b].blockno = buf[b].blockno /\ buf'[b].valid = buf[b].valid
                 /\ buf'[b].data = buf[b].data /\ buf'[b].disk = buf[b].disk

SameRequests ==
  /\ UNCHANGED <<head, free, next, req, used, inflight, platter>>
  /\ handler' => used # <<>>
  /\ \A q \in Proc :
       /\ pc'[q] \in Active <=> pc[q] \in Active
       /\ pc[q] \in Active => at'[q] = at[q] /\ write'[q] = write[q]
       /\ pc'[q] = "unpin" => pc[q] = "unpin" /\ at'[q] = at[q]
       /\ Dirty(q) => Dirty(q)' /\ at'[q] = at[q]
  /\ \A b \in Buf : b \in pinned => b \in pinned' \/ Synced(b)

(* Such steps keep what is said of requests, chains and contents.          *)
LEMMA Unnoticed ==
  ASSUME IInv, SameBuffers, SameRequests
  PROVE  OneBuffer' /\ ChainInv' /\ RequestInv' /\ SyncInv'
<1>1. OneBuffer'
  BY DEF IInv, OneBuffer, SameBuffers
<1>2. ChainInv'
  <2>1. \A i : Chain(i)' = Chain(i)
    BY DEF SameRequests, Chain
  <2> QED
    BY <2>1 DEF IInv, ChainInv, SameRequests
<1>3. \A q \in Proc : pc[q] \in Active => at[q] \in Buf
  BY DEF IInv, TypeOK, PlaceInv, Active
<1>4. RequestInv'
  <2>1. Pending' = Pending
    BY DEF SameRequests, Pending
  <2>2. \A i \in Pending : \E q \in Proc : pc'[q] \in Active /\ head'[q] = i
    BY DEF IInv, RequestInv, SameRequests
  <2>3. ASSUME NEW q \in Proc, pc'[q] \in Active
        PROVE  /\ req'[head'[q]] = [b |-> at'[q], write |-> write'[q], sector |-> buf'[at'[q]].blockno]
               /\ buf'[at'[q]].disk <=> head'[q] \in Pending
    <3>1. /\ pc[q] \in Active /\ at'[q] = at[q] /\ write'[q] = write[q] /\ at[q] \in Buf
          /\ head' = head /\ req' = req
      BY <1>3, <2>3 DEF SameRequests
    <3>2. buf'[at[q]].blockno = buf[at[q]].blockno /\ buf'[at[q]].disk = buf[at[q]].disk
      BY <3>1 DEF SameBuffers
    <3> QED
      BY <3>1, <3>2 DEF IInv, RequestInv
  <2>4. UNCHANGED <<used, inflight>> /\ (handler' => used # <<>>)
    BY DEF SameRequests
  <2> QED
    BY <2>1, <2>2, <2>3, <2>4 DEF IInv, RequestInv
<1>5. SyncInv'
  <2>1. \A b \in Buf : Synced(b)' <=> Synced(b)
    BY DEF SameBuffers, SameRequests, Synced
  <2>2. ASSUME NEW q \in Proc, Past(q)' PROVE Synced(at[q])'
    <3>1. Past(q) /\ at'[q] = at[q] /\ at[q] \in Buf
      BY <1>3, <2>2 DEF Past, SameRequests, IInv, TypeOK, PlaceInv
    <3> QED
      BY <2>1, <3>1 DEF IInv, SyncInv, Synced
  <2>3. ASSUME NEW b \in Buf, buf'[b].valid, b \notin pinned',
               ~(\E q \in Proc : at'[q] = b /\ Dirty(q)')
        PROVE  Synced(b)'
    <3>1. CASE b \in pinned
      BY <2>1, <2>3, <3>1 DEF SameRequests
    <3>2. CASE b \notin pinned
      <4>1. ~(\E q \in Proc : at[q] = b /\ Dirty(q))
        BY <2>3 DEF SameRequests
      <4>2. buf[b].valid
        BY <2>3 DEF SameBuffers
      <4> QED
        BY <2>1, <3>2, <4>1, <4>2 DEF IInv, SyncInv
    <3> QED
      BY <3>1, <3>2
  <2> QED
    BY <2>2, <2>3 DEF SyncInv
<1> QED
  BY <1>1, <1>2, <1>4, <1>5

(* Buffers of which nothing changes but the count of references            *)
LEMMA RefUpdated ==
  ASSUME TypeOK, NEW b \in Buf, NEW n \in Nat, buf' = [buf EXCEPT ![b].refcnt = n]
  PROVE  /\ buf' \in [Buf -> Buffer] /\ SameBuffers /\ buf'[b].refcnt = n
         /\ \A c \in Buf : c # b => buf'[c] = buf[c]
<1>1. buf \in [Buf -> Buffer]
  BY DEF TypeOK
<1>2. buf'[b] = [buf[b] EXCEPT !.refcnt = n] /\ \A c \in Buf : c # b => buf'[c] = buf[c]
  BY <1>1
<1>3. buf[b] \in Buffer
  BY <1>1
<1>4. /\ buf'[b] \in Buffer /\ buf'[b].refcnt = n
      /\ buf'[b].blockno = buf[b].blockno /\ buf'[b].valid = buf[b].valid
      /\ buf'[b].data = buf[b].data /\ buf'[b].disk = buf[b].disk
  BY <1>2, <1>3 DEF Buffer
<1>5. buf' \in [Buf -> Buffer]
  BY <1>1, <1>2, <1>4
<1> QED
  BY <1>2, <1>4, <1>5 DEF SameBuffers

(* A reference more                                                        *)
LEMMA CountAdded ==
  ASSUME IInv, NEW b \in Buf, NEW x, x \notin Refs(b), Refs(b)' = Refs(b) \cup {x},
         buf'[b].refcnt = buf[b].refcnt + 1,
         \A c \in Buf : c # b => Refs(c)' = Refs(c) /\ buf'[c].refcnt = buf[c].refcnt
  PROVE  CountInv'
<1>1. Cardinality(Refs(b)') = Cardinality(Refs(b)) + 1
  BY RefsFinite, FS_AddElement
<1> QED
  BY <1>1 DEF IInv, CountInv

(* ... a reference less                                                    *)
LEMMA CountDropped ==
  ASSUME IInv, NEW b \in Buf, NEW x, x \in Refs(b), Refs(b)' = Refs(b) \ {x},
         buf'[b].refcnt = buf[b].refcnt - 1,
         \A c \in Buf : c # b => Refs(c)' = Refs(c) /\ buf'[c].refcnt = buf[c].refcnt
  PROVE  CountInv' /\ buf[b].refcnt - 1 \in Nat
<1>1. Cardinality(Refs(b) \ {x}) = Cardinality(Refs(b)) - 1
  BY RefsFinite, FS_RemoveElement
<1>2. Cardinality(Refs(b) \ {x}) \in Nat
  <2>1. IsFiniteSet(Refs(b) \ {x})
    BY RefsFinite, FS_RemoveElement
  <2> QED
    BY <2>1, FS_CardinalityType
<1> QED
  BY <1>1, <1>2 DEF IInv, CountInv

(* Steps in which only places, locks and requests change                   *)
LEMMA CountSame ==
  ASSUME IInv, UNCHANGED <<at, pinned>>, \A b \in Buf : buf'[b].refcnt = buf[b].refcnt
  PROVE  CountInv'
<1>1. \A b : Refs(b)' = Refs(b)
  BY DEF Refs
<1> QED
  BY <1>1 DEF IInv, CountInv

---------------------------------------------------------------------------
(* The steps of the buffer cache                                           *)

(* bget() takes the lock of the buffer.                                    *)
LEMMA LockIInv ==
  ASSUME IInv, NEW p \in Proc, Lock(p)
  PROVE  IInv'
<1>1. /\ pc[p] = "lock" /\ lock[at[p]] = NoOne /\ lock' = [lock EXCEPT ![at[p]] = p]
      /\ pc' = [pc EXCEPT ![p] = IF buf[at[p]].valid THEN "have" ELSE "request"]
      /\ UNCHANGED <<buf, lru, pinned, at, want, write, head, free, next, req, used, handler, irq>>
      /\ UNCHANGED <<platter, inflight, panicked>>
  BY DEF Lock, Goto, drivervars, ringvars, devicevars
<1>2. /\ at[p] \in Buf /\ ~write[p]
      /\ pc' \in [Proc -> Label] /\ pc'[p] \in {"have", "request"}
      /\ pc'[p] = "have" <=> buf[at[p]].valid
      /\ \A q \in Proc : q # p => pc'[q] = pc[q]
  BY <1>1 DEF IInv, TypeOK, PlaceInv, Label
<1>3. TypeOK'
  <2>1. lock' \in [Buf -> Proc \cup {NoOne}]
    BY <1>1, <1>2 DEF IInv, TypeOK
  <2> QED
    BY <1>1, <1>2, <2>1 DEF IInv, TypeOK
<1>4. CountInv'
  BY <1>1, CountSame
<1>5. OneBuffer' /\ ChainInv' /\ RequestInv' /\ SyncInv'
  <2>1. SameBuffers
    BY <1>1 DEF SameBuffers
  <2>2. SameRequests
    BY <1>1, <1>2 DEF SameRequests, Active, Dirty, IInv, RequestInv
  <2> QED
    BY <2>1, <2>2, Unnoticed
<1>6. PlaceInv'
  BY <1>1, <1>2 DEF IInv, PlaceInv
<1>7. LockInv'
  <2>1. \A b \in Buf : lock'[b] = IF b = at[p] THEN p ELSE lock[b]
    BY <1>1, <1>2 DEF IInv, TypeOK
  <2>2. \A q \in Proc : at[q] = at[p] => pc[q] \notin Locked
    BY <1>1, <1>2, DiskAssumption DEF IInv, LockInv
  <2> QED
    BY <1>1, <1>2, <2>1, <2>2 DEF IInv, LockInv, Locked
<1>8. ValidInv'
  BY <1>1, <1>2 DEF IInv, ValidInv, Asking
<1>9. PinInv'
  BY <1>1, <1>2 DEF IInv, PinInv, Asking
<1> QED
  BY <1>1, <1>3, <1>4, <1>5, <1>6, <1>7, <1>8, <1>9 DEF IInv, NoDoubleFree

(* install_trans() asks for the write of a pinned buffer.                  *)
LEMMA InstallIInv ==
  ASSUME IInv, NEW p \in Proc, Install(p)
  PROVE  IInv'
<1>1. /\ pc[p] = "have" /\ at[p] \in pinned
      /\ pc' = [pc EXCEPT ![p] = "request"] /\ write' = [write EXCEPT ![p] = TRUE]
      /\ UNCHANGED <<buf, lru, lock, pinned, at, want, head, free, next, req, used, handler, irq>>
      /\ UNCHANGED <<platter, inflight, panicked>>
  BY DEF Install, Goto, cachevars, drivervars, ringvars, devicevars
<1>2. /\ at[p] \in Buf /\ ~write[p] /\ buf[at[p]].valid
      /\ pc' \in [Proc -> Label] /\ pc'[p] = "request"
      /\ write' \in [Proc -> BOOLEAN] /\ write'[p]
      /\ \A q \in Proc : q # p => pc'[q] = pc[q] /\ write'[q] = write[q]
  BY <1>1 DEF IInv, TypeOK, PlaceInv, ValidInv, Label
<1>3. TypeOK'
  BY <1>1, <1>2 DEF IInv, TypeOK
<1>4. CountInv'
  BY <1>1, CountSame
<1>5. OneBuffer' /\ ChainInv' /\ RequestInv' /\ SyncInv'
  <2>1. SameBuffers
    BY <1>1 DEF SameBuffers
  <2>2. SameRequests
    <3>1. /\ UNCHANGED <<head, free, next, req, used, inflight, platter, pinned>>
          /\ handler' => used # <<>>
      BY <1>1 DEF IInv, RequestInv
    <3>2. \A q \in Proc : /\ pc'[q] \in Active <=> pc[q] \in Active
                          /\ pc[q] \in Active => at'[q] = at[q] /\ write'[q] = write[q]
                          /\ pc'[q] = "unpin" => pc[q] = "unpin" /\ at'[q] = at[q]
      BY <1>1, <1>2 DEF Active
    <3>3. \A q \in Proc : Dirty(q) => Dirty(q)' /\ at'[q] = at[q]
      BY <1>1, <1>2 DEF Active, Dirty
    <3> QED
      BY <3>1, <3>2, <3>3 DEF SameRequests
  <2> QED
    BY <2>1, <2>2, Unnoticed
<1>6. PlaceInv'
  BY <1>1, <1>2 DEF IInv, PlaceInv
<1>7. LockInv'
  BY <1>1, <1>2 DEF IInv, LockInv, Locked
<1>8. ValidInv'
  BY <1>1, <1>2 DEF IInv, ValidInv, Asking
<1>9. PinInv'
  BY <1>1, <1>2 DEF IInv, PinInv, Asking
<1> QED
  BY <1>1, <1>3, <1>4, <1>5, <1>6, <1>7, <1>8, <1>9 DEF IInv, NoDoubleFree

(* brelse() gives the lock of the buffer back.                             *)
LEMMA BrelseIInv ==
  ASSUME IInv, NEW p \in Proc, Brelse(p)
  PROVE  IInv'
<1>1. /\ pc[p] \in {"have", "done"} /\ lock' = [lock EXCEPT ![at[p]] = NoOne]
      /\ pc' = [pc EXCEPT ![p] = "drop"]
      /\ UNCHANGED <<buf, lru, pinned, at, want, write, head, free, next, req, used, handler, irq>>
      /\ UNCHANGED <<platter, inflight, panicked>>
  BY DEF Brelse, Goto, drivervars, ringvars, devicevars
<1>2. /\ at[p] \in Buf
      /\ pc' \in [Proc -> Label] /\ pc'[p] = "drop"
      /\ \A q \in Proc : q # p => pc'[q] = pc[q]
  BY <1>1 DEF IInv, TypeOK, PlaceInv, Label
<1>3. TypeOK'
  <2>1. lock' \in [Buf -> Proc \cup {NoOne}]
    BY <1>1, <1>2 DEF IInv, TypeOK
  <2> QED
    BY <1>1, <1>2, <2>1 DEF IInv, TypeOK
<1>4. CountInv'
  BY <1>1, CountSame
<1>5. OneBuffer' /\ ChainInv' /\ RequestInv' /\ SyncInv'
  <2>1. SameBuffers
    BY <1>1 DEF SameBuffers
  <2>2. SameRequests
    BY <1>1, <1>2 DEF SameRequests, Active, Dirty, IInv, RequestInv
  <2> QED
    BY <2>1, <2>2, Unnoticed
<1>6. PlaceInv'
  BY <1>1, <1>2 DEF IInv, PlaceInv
<1>7. LockInv'
  <2>1. \A b \in Buf : lock'[b] = IF b = at[p] THEN NoOne ELSE lock[b]
    BY <1>1, <1>2 DEF IInv, TypeOK
  <2>2. \A q \in Proc : at[q] = at[p] /\ q # p => pc[q] \notin Locked
    <3>1. pc[p] \in Locked
      BY <1>1 DEF Locked
    <3> QED
      BY <3>1, OneHolder
  <2> QED
    BY <1>1, <1>2, <2>1, <2>2, DiskAssumption DEF IInv, LockInv, Locked
<1>8. ValidInv'
  BY <1>1, <1>2 DEF IInv, ValidInv, Asking
<1>9. PinInv'
  BY <1>1, <1>2 DEF IInv, PinInv, Asking
<1> QED
  BY <1>1, <1>3, <1>4, <1>5, <1>6, <1>7, <1>8, <1>9 DEF IInv, NoDoubleFree

(* install_trans() unpins the buffer, which the disk has now.              *)
LEMMA BunpinIInv ==
  ASSUME IInv, NEW p \in Proc, Bunpin(p)
  PROVE  IInv'
<1>1. /\ pc[p] = "unpin" /\ buf' = [buf EXCEPT ![at[p]].refcnt = @ - 1]
      /\ pinned' = pinned \ {at[p]} /\ pc' = [pc EXCEPT ![p] = "done"]
      /\ UNCHANGED <<lru, lock, at, want, write, head, free, next, req, used, handler, irq>>
      /\ UNCHANGED <<platter, inflight, panicked>>
  BY DEF Bunpin, Goto, drivervars, ringvars, devicevars
<1>2. /\ at[p] \in Buf /\ at[p] \in pinned /\ Synced(at[p]) /\ buf[at[p]].valid
      /\ pc' \in [Proc -> Label] /\ pc'[p] = "done"
      /\ \A q \in Proc : q # p => pc'[q] = pc[q]
  BY <1>1 DEF IInv, TypeOK, PlaceInv, PinInv, ValidInv, SyncInv, Past, Label
<1>3. NoOne \in Refs(at[p]) /\ Cardinality(Refs(at[p])) > 0 /\ buf[at[p]].refcnt - 1 \in Nat
  <2>1. NoOne \in Refs(at[p])
    BY <1>2 DEF Refs
  <2>2. Cardinality(Refs(at[p])) # 0 /\ Cardinality(Refs(at[p])) \in Nat
    BY <1>2, <2>1, RefsFinite, FS_EmptySet
  <2> QED
    BY <1>2, <2>1, <2>2 DEF IInv, CountInv
<1>4. /\ buf' \in [Buf -> Buffer] /\ SameBuffers /\ buf'[at[p]].refcnt = buf[at[p]].refcnt - 1
      /\ \A c \in Buf : c # at[p] => buf'[c] = buf[c]
  <2> DEFINE n == buf[at[p]].refcnt - 1
  <2>1. TypeOK /\ n \in Nat /\ buf' = [buf EXCEPT ![at[p]].refcnt = n]
    BY <1>1, <1>3 DEF IInv
  <2> HIDE DEF n
  <2>2. /\ buf' \in [Buf -> Buffer] /\ SameBuffers /\ buf'[at[p]].refcnt = n
        /\ \A c \in Buf : c # at[p] => buf'[c] = buf[c]
    BY <1>2, <2>1, RefUpdated
  <2> QED
    BY <2>2 DEF n
<1>5. TypeOK'
  <2>1. pinned' \subseteq Buf
    BY <1>1 DEF IInv, TypeOK
  <2> QED
    BY <1>1, <1>2, <1>4, <2>1 DEF IInv, TypeOK
<1>6. CountInv'
  <2>1. PICK b \in Buf : b = at[p]
    BY <1>2
  <2>2. Refs(b)' = Refs(b) \ {NoOne}
    BY <1>1, <2>1, DiskAssumption DEF Refs
  <2>3. \A c \in Buf : c # b => Refs(c)' = Refs(c)
    BY <1>1, <2>1 DEF Refs
  <2>4. NoOne \in Refs(b) /\ buf'[b].refcnt = buf[b].refcnt - 1
    BY <1>3, <1>4, <2>1
  <2>5. \A c \in Buf : c # b => Refs(c)' = Refs(c) /\ buf'[c].refcnt = buf[c].refcnt
    BY <1>4, <2>1, <2>3
  <2> QED
    BY <2>2, <2>4, <2>5, CountDropped
<1>7. OneBuffer' /\ ChainInv' /\ RequestInv' /\ SyncInv'
  <2>1. SameRequests
    BY <1>1, <1>2 DEF SameRequests, Active, Dirty, IInv, RequestInv
  <2> QED
    BY <1>4, <2>1, Unnoticed
<1>8. PlaceInv'
  BY <1>1, <1>2, <1>4 DEF IInv, PlaceInv, SameBuffers, TypeOK
<1>9. LockInv'
  BY <1>1, <1>2 DEF IInv, LockInv, Locked
<1>10. ValidInv'
  <2>1. \A q \in Proc : pc[q] \in Asking \cup {"have", "unpin", "done"} => at[q] \in Buf
    BY DEF IInv, TypeOK, PlaceInv, Asking
  <2> QED
    BY <1>1, <1>2, <1>4, <1>5, <2>1 DEF IInv, ValidInv, SameBuffers, Asking, TypeOK
<1>11. PinInv'
  <2>1. \A q \in Proc : q # p /\ pc[q] \in Locked => at[q] # at[p]
    BY <1>1, OneHolder DEF Locked
  <2> QED
    BY <1>1, <1>2, <2>1 DEF IInv, PinInv, Asking, Locked
<1> QED
  BY <1>1, <1>5, <1>6, <1>7, <1>8, <1>9, <1>10, <1>11 DEF IInv, NoDoubleFree

(* brelse() drops the reference.                                           *)
LEMMA BrelseDropIInv ==
  ASSUME IInv, NEW p \in Proc, BrelseDrop(p)
  PROVE  IInv'
<1>1. /\ pc[p] = "drop" /\ buf' = [buf EXCEPT ![at[p]].refcnt = @ - 1]
      /\ lru' \in {ToFront(at[p]), lru}
      /\ at' = [at EXCEPT ![p] = 0] /\ pc' = [pc EXCEPT ![p] = "idle"]
      /\ write' = [write EXCEPT ![p] = FALSE] /\ want' = [want EXCEPT ![p] = "read"]
      /\ UNCHANGED <<lock, pinned, head, free, next, req, used, handler, irq>>
      /\ UNCHANGED <<platter, inflight, panicked>>
  BY DEF BrelseDrop, Goto, drivervars, ringvars, devicevars
<1>2. /\ at[p] \in Buf
      /\ pc' \in [Proc -> Label] /\ pc'[p] = "idle" /\ at' \in [Proc -> Buf \cup {0}] /\ at'[p] = 0
      /\ write' \in [Proc -> BOOLEAN] /\ ~write'[p]
      /\ want' \in [Proc -> {"read", "write", "log", "install"}]
      /\ \A q \in Proc : q # p => /\ pc'[q] = pc[q] /\ at'[q] = at[q]
                                  /\ write'[q] = write[q] /\ want'[q] = want[q]
  BY <1>1 DEF IInv, TypeOK, PlaceInv, Label
<1>3. p \in Refs(at[p]) /\ buf[at[p]].refcnt - 1 \in Nat
  <2>1. p \in Refs(at[p])
    BY <1>2 DEF Refs
  <2>2. Cardinality(Refs(at[p])) # 0 /\ Cardinality(Refs(at[p])) \in Nat
    BY <1>2, <2>1, RefsFinite, FS_EmptySet
  <2> QED
    BY <1>2, <2>1, <2>2 DEF IInv, CountInv
<1>4. /\ buf' \in [Buf -> Buffer] /\ SameBuffers /\ buf'[at[p]].refcnt = buf[at[p]].refcnt - 1
      /\ \A c \in Buf : c # at[p] => buf'[c] = buf[c]
  <2> DEFINE n == buf[at[p]].refcnt - 1
  <2>1. TypeOK /\ n \in Nat /\ buf' = [buf EXCEPT ![at[p]].refcnt = n]
    BY <1>1, <1>3 DEF IInv
  <2> HIDE DEF n
  <2>2. /\ buf' \in [Buf -> Buffer] /\ SameBuffers /\ buf'[at[p]].refcnt = n
        /\ \A c \in Buf : c # at[p] => buf'[c] = buf[c]
    BY <1>2, <2>1, RefUpdated
  <2> QED
    BY <2>2 DEF n
<1>5. TypeOK'
  <2>1. lru' \in [Buf -> Buf]
    <3> DEFINE k == CHOOSE i \in Buf : lru[i] = at[p]
    <3>1. ToFront(at[p]) = [i \in Buf |-> IF i = 1 THEN at[p] ELSE IF i <= k THEN lru[i - 1] ELSE lru[i]]
      BY DEF ToFront
    <3> HIDE DEF k
    <3>2. \A i \in Buf : i # 1 => i - 1 \in Buf
      BY DiskAssumption DEF Buf
    <3>3. lru \in [Buf -> Buf]
      BY DEF IInv, TypeOK
    <3>4. ToFront(at[p]) \in [Buf -> Buf]
      BY <1>2, <3>1, <3>2, <3>3
    <3> QED
      BY <1>1, <3>3, <3>4
  <2> QED
    BY <1>1, <1>2, <1>4, <2>1 DEF IInv, TypeOK
<1>6. CountInv'
  <2>1. PICK b \in Buf : b = at[p]
    BY <1>2
  <2>2. Refs(b)' = Refs(b) \ {p}
    <3>1. {q \in Proc : at'[q] = b} = {q \in Proc : at[q] = b} \ {p}
      BY <1>2, <2>1 DEF Buf
    <3> QED
      BY <1>1, <3>1, DiskAssumption DEF Refs
  <2>3. \A c \in Buf : c # b => Refs(c)' = Refs(c)
    BY <1>1, <1>2, <2>1 DEF Refs, Buf
  <2>4. p \in Refs(b) /\ buf'[b].refcnt = buf[b].refcnt - 1
    BY <1>3, <1>4, <2>1
  <2>5. \A c \in Buf : c # b => Refs(c)' = Refs(c) /\ buf'[c].refcnt = buf[c].refcnt
    BY <1>4, <2>1, <2>3
  <2> QED
    BY <2>2, <2>4, <2>5, CountDropped
<1>7. OneBuffer' /\ ChainInv' /\ RequestInv' /\ SyncInv'
  <2>1. SameRequests
    <3>1. /\ UNCHANGED <<head, free, next, req, used, inflight, platter, pinned>>
          /\ handler' => used # <<>>
      BY <1>1 DEF IInv, RequestInv
    <3>2. \A q \in Proc : /\ pc'[q] \in Active <=> pc[q] \in Active
                          /\ pc[q] \in Active => at'[q] = at[q] /\ write'[q] = write[q]
                          /\ pc'[q] = "unpin" => pc[q] = "unpin" /\ at'[q] = at[q]
      BY <1>1, <1>2 DEF Active
    <3>3. \A q \in Proc : Dirty(q) => Dirty(q)' /\ at'[q] = at[q]
      BY <1>1, <1>2 DEF Active, Dirty
    <3> QED
      BY <3>1, <3>2, <3>3 DEF SameRequests
  <2> QED
    BY <1>4, <2>1, Unnoticed
<1>8. PlaceInv'
  BY <1>1, <1>2, <1>4 DEF IInv, PlaceInv, SameBuffers, TypeOK
<1>9. LockInv'
  <2>1. 0 \notin Buf
    BY DEF Buf
  <2> QED
    BY <1>1, <1>2, <2>1 DEF IInv, LockInv, Locked
<1>10. ValidInv'
  <2>1. \A q \in Proc : pc[q] \in Asking \cup {"have", "unpin", "done"} => at[q] \in Buf
    BY DEF IInv, TypeOK, PlaceInv, Asking
  <2> QED
    BY <1>1, <1>2, <1>4, <1>5, <2>1 DEF IInv, ValidInv, SameBuffers, Asking, TypeOK
<1>11. PinInv'
  BY <1>1, <1>2 DEF IInv, PinInv, Asking
<1> QED
  BY <1>1, <1>5, <1>6, <1>7, <1>8, <1>9, <1>10, <1>11 DEF IInv, NoDoubleFree

(* A process sleeps or wakes up inside virtio_disk_rw(), and the handler   *)
(* starts: nothing else changes.                                           *)
LEMMA WaitingIInv ==
  ASSUME IInv, pc' \in [Proc -> Label], handler' => used # <<>>,
         UNCHANGED <<cachevars, drivervars, used, devicevars, at, want, write, head, panicked>>,
         \A q \in Proc : \/ pc'[q] = pc[q]
                         \/ pc[q] \in {"request", "nodesc"} /\ pc'[q] \in {"request", "nodesc"}
                         \/ pc[q] \in Active /\ pc'[q] \in Active
  PROVE  IInv'
<1>1. /\ UNCHANGED <<buf, lru, lock, pinned, at, want, write, head, free, next, req, used>>
      /\ UNCHANGED <<platter, inflight, panicked>>
  BY DEF cachevars, drivervars, devicevars
<1>2. \A q \in Proc :
        /\ pc'[q] \in Active <=> pc[q] \in Active
        /\ pc'[q] \in Asking <=> pc[q] \in Asking
        /\ pc'[q] \in Locked <=> pc[q] \in Locked
        /\ pc'[q] \in {"request", "nodesc"} <=> pc[q] \in {"request", "nodesc"}
        /\ \A l \in {"idle", "lock", "have", "unpin", "done"} : pc'[q] = l <=> pc[q] = l
  BY DEF Active, Asking, Locked
<1>3. TypeOK'
  BY <1>1 DEF IInv, TypeOK
<1>4. CountInv'
  BY <1>1, CountSame
<1>5. OneBuffer' /\ ChainInv' /\ RequestInv' /\ SyncInv'
  <2>1. SameBuffers
    BY <1>1 DEF SameBuffers
  <2>2. SameRequests
    BY <1>1, <1>2 DEF SameRequests, Dirty
  <2> QED
    BY <2>1, <2>2, Unnoticed
<1>6. PlaceInv'
  BY <1>1, <1>2 DEF IInv, PlaceInv
<1>7. LockInv'
  BY <1>1, <1>2 DEF IInv, LockInv
<1>8. ValidInv'
  BY <1>1, <1>2 DEF IInv, ValidInv
<1>9. PinInv'
  BY <1>1, <1>2 DEF IInv, PinInv
<1> QED
  BY <1>1, <1>3, <1>4, <1>5, <1>6, <1>7, <1>8, <1>9 DEF IInv, NoDoubleFree

(* alloc3_desc() fails.                                                    *)
LEMMA SubmitWaitsIInv ==
  ASSUME IInv, NEW p \in Proc, SubmitWaits(p)
  PROVE  IInv'
<1>1. /\ UNCHANGED <<cachevars, drivervars, used, devicevars, at, want, write, head, panicked>>
      /\ UNCHANGED handler /\ pc[p] = "request"
  BY DEF SubmitWaits, ringvars
<1>2. \/ pc' = [pc EXCEPT ![p] = "nodesc"]
      \/ pc' = [q \in Proc |-> IF q = p THEN "nodesc" ELSE IF pc[q] = "nodesc" THEN "request" ELSE pc[q]]
  BY DEF SubmitWaits, WakeWaiters, Goto
<1>3. pc' \in [Proc -> Label]
  BY <1>2 DEF IInv, TypeOK, Label
<1>4. \A q \in Proc : \/ pc'[q] = pc[q]
                      \/ pc[q] \in {"request", "nodesc"} /\ pc'[q] \in {"request", "nodesc"}
  BY <1>1, <1>2 DEF IInv, TypeOK
<1>5. handler' => used # <<>>
  BY <1>1 DEF IInv, RequestInv
<1> QED
  BY <1>1, <1>3, <1>4, <1>5, WaitingIInv

(* kkill() of a sleeper, and a sleeper that was woken up for nothing       *)
LEMMA WokenIInv ==
  ASSUME IInv, NEW p \in Proc, Kill(p) \/ (Awake(p) /\ buf[at[p]].disk)
  PROVE  IInv'
<1>1. /\ UNCHANGED <<cachevars, drivervars, used, devicevars, at, want, write, head, panicked>>
      /\ UNCHANGED handler
      /\ \/ pc[p] = "io" /\ pc' = [pc EXCEPT ![p] = "awake"]
         \/ pc[p] = "nodesc" /\ pc' = [pc EXCEPT ![p] = "request"]
         \/ pc[p] = "awake" /\ pc' = [pc EXCEPT ![p] = "io"]
  BY DEF Kill, Awake, Goto, ringvars, cachevars, drivervars
<1>2. pc' \in [Proc -> Label]
  <2>1. pc \in [Proc -> Label]
    BY DEF IInv, TypeOK
  <2>2. \E l \in Label : pc' = [pc EXCEPT ![p] = l]
    BY <1>1 DEF Label
  <2> QED
    BY <2>1, <2>2
<1>3. \A q \in Proc : \/ pc'[q] = pc[q]
                      \/ pc[q] \in {"request", "nodesc"} /\ pc'[q] \in {"request", "nodesc"}
                      \/ pc[q] \in Active /\ pc'[q] \in Active
  BY <1>1 DEF IInv, TypeOK, Active
<1>4. handler' => used # <<>>
  BY <1>1 DEF IInv, RequestInv
<1> QED
  BY <1>1, <1>2, <1>3, <1>4, WaitingIInv

(* virtio_disk_intr() begins.                                              *)
LEMMA IntrAckIInv ==
  ASSUME IInv, IntrAck
  PROVE  IInv'
<1>1. /\ UNCHANGED <<cachevars, drivervars, used, devicevars, at, want, write, head, panicked>>
      /\ pc' = pc /\ (handler' => used # <<>>)
  BY DEF IntrAck, procvars
<1>2. pc' \in [Proc -> Label]
  BY <1>1 DEF IInv, TypeOK
<1> QED
  BY <1>1, <1>2, WaitingIInv

(* bget() finds the block in the cache.                                    *)
LEMMA BgetHitIInv ==
  ASSUME IInv, NEW p \in Proc, NEW blk \in Block, NEW w \in {"read", "write", "log", "install"},
         NEW b \in Cached(blk), pc[p] = "idle",
         want' = [want EXCEPT ![p] = w], buf' = [buf EXCEPT ![b].refcnt = @ + 1],
         at' = [at EXCEPT ![p] = b], pc' = [pc EXCEPT ![p] = "lock"],
         UNCHANGED <<lru, lock, pinned, write, head, drivervars, ringvars, devicevars, panicked>>
  PROVE  IInv'
<1>1. /\ UNCHANGED <<lru, lock, pinned, write, head, free, next, req, used, handler>>
      /\ UNCHANGED <<platter, inflight, panicked>>
  BY DEF drivervars, ringvars, devicevars
<1>2. b \in Buf /\ buf[b].blockno = blk /\ at[p] = 0 /\ ~write[p] /\ buf[b].refcnt + 1 \in Nat
  BY DEF Cached, IInv, PlaceInv, TypeOK, Buffer
<1>3. /\ pc' \in [Proc -> Label] /\ pc'[p] = "lock" /\ at' \in [Proc -> Buf \cup {0}] /\ at'[p] = b
      /\ want' \in [Proc -> {"read", "write", "log", "install"}]
      /\ \A q \in Proc : q # p => pc'[q] = pc[q] /\ at'[q] = at[q] /\ want'[q] = want[q]
  BY <1>2 DEF IInv, TypeOK, Label
<1>4. /\ buf' \in [Buf -> Buffer] /\ SameBuffers /\ buf'[b].refcnt = buf[b].refcnt + 1
      /\ \A c \in Buf : c # b => buf'[c] = buf[c]
  <2> DEFINE n == buf[b].refcnt + 1
  <2>1. TypeOK /\ n \in Nat /\ buf' = [buf EXCEPT ![b].refcnt = n]
    BY <1>2 DEF IInv
  <2> HIDE DEF n
  <2>2. /\ buf' \in [Buf -> Buffer] /\ SameBuffers /\ buf'[b].refcnt = n
        /\ \A c \in Buf : c # b => buf'[c] = buf[c]
    BY <1>2, <2>1, RefUpdated
  <2> QED
    BY <2>2 DEF n
<1>5. TypeOK'
  BY <1>1, <1>3, <1>4 DEF IInv, TypeOK
<1>6. 0 \notin Buf
  BY DEF Buf
<1>7. CountInv'
  <2>1. {q \in Proc : at'[q] = b} = {q \in Proc : at[q] = b} \cup {p}
    BY <1>3
  <2>2. Refs(b)' = Refs(b) \cup {p} /\ p \notin Refs(b)
    BY <1>1, <1>2, <1>6, <2>1, DiskAssumption DEF Refs
  <2>3. \A c \in Buf : c # b => Refs(c)' = Refs(c)
    BY <1>1, <1>2, <1>3, <1>6 DEF Refs
  <2>4. \A c \in Buf : c # b => Refs(c)' = Refs(c) /\ buf'[c].refcnt = buf[c].refcnt
    BY <1>4, <2>3
  <2> QED
    BY <1>2, <1>4, <2>2, <2>4, CountAdded
<1>8. OneBuffer' /\ ChainInv' /\ RequestInv' /\ SyncInv'
  <2>1. SameRequests
    BY <1>1, <1>2, <1>3 DEF SameRequests, Active, Dirty, IInv, RequestInv
  <2> QED
    BY <1>4, <2>1, Unnoticed
<1>9. PlaceInv'
  BY <1>1, <1>2, <1>3, <1>4, <1>6 DEF IInv, PlaceInv, SameBuffers, TypeOK
<1>10. LockInv'
  BY <1>1, <1>2, <1>3, <1>6 DEF IInv, LockInv, Locked
<1>11. ValidInv'
  <2>1. \A q \in Proc : pc[q] \in Asking \cup {"have", "unpin", "done"} => at[q] \in Buf
    BY DEF IInv, TypeOK, PlaceInv, Asking
  <2> QED
    BY <1>1, <1>3, <1>4, <1>5, <2>1 DEF IInv, ValidInv, SameBuffers, Asking, TypeOK
<1>12. PinInv'
  BY <1>1, <1>3 DEF IInv, PinInv, Asking
<1> QED
  BY <1>1, <1>5, <1>7, <1>8, <1>9, <1>10, <1>11, <1>12 DEF IInv, NoDoubleFree

(* Steps that change one buffer, of which the device knows nothing         *)
LEMMA OneChanges ==
  ASSUME IInv, SameRequests, NEW b \in Buf,
         \A c \in Buf : c # b => buf'[c] = buf[c],
         \A q \in Proc : at[q] = b => pc[q] \notin Active \cup {"unpin"},
         b \in pinned' \/ ~buf'[b].valid \/ \E q \in Proc : at'[q] = b /\ Dirty(q)'
  PROVE  ChainInv' /\ RequestInv' /\ SyncInv'
<1>1. ChainInv'
  <2>1. \A i : Chain(i)' = Chain(i)
    BY DEF SameRequests, Chain
  <2> QED
    BY <2>1 DEF IInv, ChainInv, SameRequests
<1>2. \A q \in Proc : pc[q] \in Active \cup {"unpin"} => at[q] \in Buf /\ at[q] # b
  BY DEF IInv, TypeOK, PlaceInv, Active
<1>3. RequestInv'
  <2>1. Pending' = Pending
    BY DEF SameRequests, Pending
  <2>2. \A i \in Pending : \E q \in Proc : pc'[q] \in Active /\ head'[q] = i
    BY DEF IInv, RequestInv, SameRequests
  <2>3. ASSUME NEW q \in Proc, pc'[q] \in Active
        PROVE  /\ req'[head'[q]] = [b |-> at'[q], write |-> write'[q], sector |-> buf'[at'[q]].blockno]
               /\ buf'[at'[q]].disk <=> head'[q] \in Pending
    <3>1. /\ pc[q] \in Active /\ at'[q] = at[q] /\ write'[q] = write[q] /\ at[q] \in Buf
          /\ head' = head /\ req' = req
      BY <1>2, <2>3 DEF SameRequests
    <3>2. buf'[at[q]] = buf[at[q]]
      BY <1>2, <3>1
    <3> QED
      BY <3>1, <3>2 DEF IInv, RequestInv
  <2>4. UNCHANGED <<used, inflight>> /\ (handler' => used # <<>>)
    BY DEF SameRequests
  <2> QED
    BY <2>1, <2>2, <2>3, <2>4 DEF IInv, RequestInv
<1>4. SyncInv'
  <2>1. \A c \in Buf : c # b => (Synced(c)' <=> Synced(c))
    BY DEF SameRequests, Synced
  <2>2. ASSUME NEW q \in Proc, Past(q)' PROVE Synced(at[q])'
    <3>1. Past(q) /\ at'[q] = at[q] /\ at[q] \in Buf /\ at[q] # b
      BY <1>2, <2>2 DEF Past, SameRequests
    <3> QED
      BY <2>1, <3>1 DEF IInv, SyncInv, Synced
  <2>3. ASSUME NEW c \in Buf, buf'[c].valid, c \notin pinned',
               ~(\E q \in Proc : at'[q] = c /\ Dirty(q)')
        PROVE  Synced(c)'
    <3>1. c # b
      BY <2>3
    <3>2. CASE c \in pinned
      BY <2>1, <2>3, <3>1, <3>2 DEF SameRequests
    <3>3. CASE c \notin pinned
      <4>1. ~(\E q \in Proc : at[q] = c /\ Dirty(q))
        BY <2>3 DEF SameRequests
      <4>2. buf[c].valid
        BY <2>3, <3>1
      <4> QED
        BY <2>1, <3>1, <3>3, <4>1, <4>2 DEF IInv, SyncInv
    <3> QED
      BY <3>2, <3>3
  <2> QED
    BY <2>2, <2>3 DEF SyncInv
<1> QED
  BY <1>1, <1>3, <1>4

(* bget() recycles a buffer that nobody refers to.                         *)
LEMMA BgetRecycleIInv ==
  ASSUME IInv, NEW p \in Proc, NEW blk \in Block, NEW w \in {"read", "write", "log", "install"},
         NEW b \in Buf, buf[b].refcnt = 0, Cached(blk) = {}, pc[p] = "idle",
         want' = [want EXCEPT ![p] = w], Recycle(b, blk),
         at' = [at EXCEPT ![p] = b], pc' = [pc EXCEPT ![p] = "lock"],
         UNCHANGED <<lru, lock, pinned, write, head, drivervars, ringvars, devicevars, panicked>>
  PROVE  IInv'
<1>1. /\ UNCHANGED <<lru, lock, pinned, write, head, free, next, req, used, handler>>
      /\ UNCHANGED <<platter, inflight, panicked>>
  BY DEF drivervars, ringvars, devicevars
<1>2. b \notin pinned /\ \A q \in Proc : at[q] # b
  BY Nobodys
<1>3. at[p] = 0 /\ ~write[p] /\ 0 \notin Buf
  BY DEF IInv, PlaceInv, Buf
<1>4. /\ pc' \in [Proc -> Label] /\ pc'[p] = "lock" /\ at' \in [Proc -> Buf \cup {0}] /\ at'[p] = b
      /\ want' \in [Proc -> {"read", "write", "log", "install"}]
      /\ \A q \in Proc : q # p => pc'[q] = pc[q] /\ at'[q] = at[q] /\ want'[q] = want[q]
  BY DEF IInv, TypeOK, Label
<1>5. /\ buf' \in [Buf -> Buffer]
      /\ buf'[b].blockno = blk /\ ~buf'[b].valid /\ buf'[b].refcnt = 1
      /\ \A c \in Buf : c # b => buf'[c] = buf[c]
  <2>1. buf \in [Buf -> Buffer] /\ buf[b] \in Buffer
    BY DEF IInv, TypeOK
  <2>2. buf' = [buf EXCEPT ![b] = [buf[b] EXCEPT !.blockno = blk, !.valid = FALSE, !.refcnt = 1]]
    BY <2>1 DEF Recycle
  <2>3. buf'[b] = [buf[b] EXCEPT !.blockno = blk, !.valid = FALSE, !.refcnt = 1]
    BY <2>1, <2>2
  <2>4. buf'[b] \in Buffer /\ buf'[b].blockno = blk /\ ~buf'[b].valid /\ buf'[b].refcnt = 1
    <3>1. buf'[b] = [blockno |-> blk, valid |-> FALSE, refcnt |-> 1,
                     data |-> buf[b].data, disk |-> buf[b].disk]
      BY <2>1, <2>3 DEF Buffer
    <3>2. buf[b].data \in Val /\ buf[b].disk \in BOOLEAN
      BY <2>1 DEF Buffer
    <3> QED
      BY <3>1, <3>2 DEF Buffer
  <2>5. \A c \in Buf : c # b => buf'[c] = buf[c]
    BY <2>1, <2>2
  <2>6. buf' \in [Buf -> Buffer]
    BY <2>1, <2>2, <2>4, <2>5
  <2> QED
    BY <2>4, <2>5, <2>6
<1>6. TypeOK'
  BY <1>1, <1>4, <1>5 DEF IInv, TypeOK
<1>7. CountInv'
  <2>1. {q \in Proc : at'[q] = b} = {q \in Proc : at[q] = b} \cup {p}
    BY <1>4
  <2>2. Refs(b)' = Refs(b) \cup {p} /\ p \notin Refs(b)
    BY <1>1, <1>2, <2>1, DiskAssumption DEF Refs
  <2>3. \A c \in Buf : c # b => Refs(c)' = Refs(c)
    BY <1>1, <1>3, <1>4 DEF Refs
  <2>4. \A c \in Buf : c # b => Refs(c)' = Refs(c) /\ buf'[c].refcnt = buf[c].refcnt
    BY <1>5, <2>3
  <2>5. buf'[b].refcnt = buf[b].refcnt + 1
    BY <1>5
  <2> QED
    BY <2>2, <2>4, <2>5, CountAdded
<1>8. ChainInv' /\ RequestInv' /\ SyncInv'
  <2>1. SameRequests
    BY <1>1, <1>3, <1>4 DEF SameRequests, Active, Dirty, IInv, RequestInv
  <2> QED
    BY <1>2, <1>5, <2>1, OneChanges
<1>9. OneBuffer'
  <2>1. \A c \in Buf : buf[c].blockno # blk
    BY DEF Cached
  <2> QED
    BY <1>5, <2>1 DEF IInv, OneBuffer
<1>10. PlaceInv'
  BY <1>1, <1>2, <1>3, <1>4, <1>5 DEF IInv, PlaceInv, TypeOK
<1>11. LockInv'
  BY <1>1, <1>2, <1>3, <1>4 DEF IInv, LockInv, Locked
<1>12. ValidInv'
  <2>1. \A q \in Proc : pc[q] \in Asking \cup {"have", "unpin", "done"} => at[q] \in Buf
    BY DEF IInv, TypeOK, PlaceInv, Asking
  <2>2. \A c \in Buf : buf'[c].valid => buf'[c].blockno \in Block
    BY <1>5 DEF IInv, ValidInv
  <2>3. \A c \in pinned' : buf'[c].valid
    BY <1>1, <1>2, <1>5 DEF IInv, ValidInv, TypeOK
  <2>4. \A q \in Proc : pc'[q] \in Asking \cup {"have", "unpin", "done"} =>
          q # p /\ pc'[q] = pc[q] /\ buf'[at'[q]] = buf[at[q]]
    BY <1>2, <1>4, <1>5, <2>1 DEF Asking
  <2> QED
    BY <1>1, <2>2, <2>3, <2>4 DEF IInv, ValidInv
<1>13. PinInv'
  BY <1>1, <1>4 DEF IInv, PinInv, Asking
<1> QED
  BY <1>1, <1>6, <1>7, <1>8, <1>9, <1>10, <1>11, <1>12, <1>13 DEF IInv, NoDoubleFree

(* bget()                                                                  *)
LEMMA BgetIInv ==
  ASSUME IInv, NEW u \in Uses, Bget(u[1], u[2], u[3])
  PROVE  IInv'
<1> DEFINE p == u[1]
           blk == u[2]
           w == u[3]
<1>1. p \in Proc /\ blk \in Block /\ w \in {"read", "write", "log", "install"}
  BY DiskAssumption
<1>2. Bget(p, blk, w)
  OBVIOUS
<1> HIDE DEF p, blk, w
<1>3. pc[p] = "idle" /\ want' = [want EXCEPT ![p] = w]
  BY <1>2 DEF Bget
<1>4. CASE \E b \in Cached(blk) :
              /\ buf' = [buf EXCEPT ![b].refcnt = @ + 1]
              /\ at' = [at EXCEPT ![p] = b] /\ Goto(p, "lock")
              /\ UNCHANGED panicked
  <2>1. PICK b \in Cached(blk) :
              /\ buf' = [buf EXCEPT ![b].refcnt = @ + 1]
              /\ at' = [at EXCEPT ![p] = b] /\ Goto(p, "lock")
              /\ UNCHANGED panicked
    BY <1>4
  <2>2. /\ UNCHANGED <<lru, lock, pinned, write, head, drivervars, ringvars, devicevars, panicked>>
        /\ pc' = [pc EXCEPT ![p] = "lock"]
    BY <1>2, <2>1 DEF Bget, Goto
  <2> QED
    BY <1>1, <1>3, <2>1, <2>2, BgetHitIInv
<1>5. CASE /\ Cached(blk) = {}
           /\ \E i \in Unreferenced :
                Recycle(lru[i], blk) /\ at' = [at EXCEPT ![p] = lru[i]] /\ Goto(p, "lock")
           /\ UNCHANGED panicked
  <2>1. PICK i \in Unreferenced :
                Recycle(lru[i], blk) /\ at' = [at EXCEPT ![p] = lru[i]] /\ Goto(p, "lock")
    BY <1>5
  <2>2. PICK b \in Buf : b = lru[i]
    BY DEF Unreferenced, IInv, TypeOK
  <2>3. /\ buf[b].refcnt = 0 /\ Recycle(b, blk) /\ at' = [at EXCEPT ![p] = b]
        /\ pc' = [pc EXCEPT ![p] = "lock"]
    BY <2>1, <2>2 DEF Unreferenced, Goto, Recycle
  <2>4. UNCHANGED <<lru, lock, pinned, write, head, drivervars, ringvars, devicevars, panicked>>
    BY <1>2, <1>5 DEF Bget
  <2> QED
    BY <1>1, <1>3, <1>5, <2>3, <2>4, BgetRecycleIInv
<1>6. CASE panicked' = "bget: no buffers" /\ UNCHANGED <<buf, at, pc>>
  <2>1. /\ UNCHANGED <<lru, lock, pinned, write, head, free, next, req, used, handler>>
        /\ UNCHANGED <<platter, inflight>>
    BY <1>2 DEF Bget, drivervars, ringvars, devicevars
  <2>2. want' \in [Proc -> {"read", "write", "log", "install"}]
    BY <1>1, <1>3 DEF IInv, TypeOK
  <2>3. TypeOK'
    BY <1>6, <2>1, <2>2 DEF IInv, TypeOK
  <2>4. CountInv'
    BY <1>6, <2>1, CountSame
  <2>5. OneBuffer' /\ ChainInv' /\ RequestInv' /\ SyncInv'
    <3>1. SameBuffers
      BY <1>6 DEF SameBuffers
    <3>2. SameRequests
      BY <1>6, <2>1 DEF SameRequests, Dirty, IInv, RequestInv
    <3> QED
      BY <3>1, <3>2, Unnoticed
  <2>6. PlaceInv' /\ LockInv' /\ ValidInv'
    BY <1>6, <2>1 DEF IInv, PlaceInv, LockInv, ValidInv
  <2>7. PinInv'
    BY <1>1, <1>3, <1>6, <2>1 DEF IInv, PinInv, Asking, TypeOK
  <2>8. NoDoubleFree'
    BY <1>6 DEF NoDoubleFree
  <2> QED
    BY <2>3, <2>4, <2>5, <2>6, <2>7, <2>8 DEF IInv
<1> QED
  BY <1>2, <1>4, <1>5, <1>6 DEF Bget

(* What a process with a buffer between bread() and brelse() knows         *)
LEMMA HaveFacts ==
  ASSUME IInv, NEW p \in Proc, pc[p] = "have"
  PROVE  /\ at[p] \in Buf /\ buf[at[p]].valid /\ ~write[p]
         /\ \A q \in Proc : at[q] = at[p] => pc[q] \notin Active \cup {"unpin"}
         /\ \A q \in Proc : at[q] = at[p] /\ q # p => pc[q] \notin Locked
<1>1. at[p] \in Buf /\ buf[at[p]].valid /\ ~write[p]
  BY DEF IInv, TypeOK, PlaceInv, ValidInv
<1>2. \A q \in Proc : at[q] = at[p] /\ q # p => pc[q] \notin Locked
  BY OneHolder DEF Locked
<1> QED
  BY <1>1, <1>2 DEF Locked, Active

(* Buffers of which one has new data                                       *)
LEMMA DataUpdated ==
  ASSUME TypeOK, NEW b \in Buf, NEW v \in Val, NEW n \in Nat,
         buf' = [buf EXCEPT ![b].data = v, ![b].refcnt = n]
  PROVE  /\ buf' \in [Buf -> Buffer] /\ buf'[b].data = v /\ buf'[b].refcnt = n
         /\ buf'[b].blockno = buf[b].blockno /\ buf'[b].valid = buf[b].valid
         /\ buf'[b].disk = buf[b].disk
         /\ \A c \in Buf : c # b => buf'[c] = buf[c]
<1>1. buf \in [Buf -> Buffer] /\ buf[b] \in Buffer
  BY DEF TypeOK
<1>2. buf' = [buf EXCEPT ![b] = [buf[b] EXCEPT !.data = v, !.refcnt = n]]
  BY <1>1
<1>3. buf'[b] = [buf[b] EXCEPT !.data = v, !.refcnt = n] /\ \A c \in Buf : c # b => buf'[c] = buf[c]
  BY <1>1, <1>2
<1>4. buf'[b] = [blockno |-> buf[b].blockno, valid |-> buf[b].valid, refcnt |-> n,
                 data |-> v, disk |-> buf[b].disk]
  BY <1>1, <1>3 DEF Buffer
<1>5. buf[b].blockno \in Block \cup {NoBlock} /\ buf[b].valid \in BOOLEAN /\ buf[b].disk \in BOOLEAN
  BY <1>1 DEF Buffer
<1>6. buf'[b] \in Buffer
  BY <1>1, <1>3 DEF Buffer
<1>7. buf' \in [Buf -> Buffer]
  BY <1>1, <1>2, <1>3, <1>6
<1> QED
  BY <1>3, <1>4, <1>7

(* log_write() of a change of the data                                     *)
LEMMA LogWriteIInv ==
  ASSUME IInv, NEW p \in Proc, NEW v \in Writes, LogWrite(p, v)
  PROVE  IInv'
<1>1. PICK b \in Buf : b = at[p]
  BY HaveFacts DEF LogWrite
<1> DEFINE n == IF b \in pinned THEN buf[b].refcnt ELSE buf[b].refcnt + 1
<1>2. /\ pc[p] = "have" /\ pinned' = pinned \cup {b} /\ pc' = [pc EXCEPT ![p] = "done"]
      /\ buf' = [buf EXCEPT ![b].data = v, ![b].refcnt = n]
      /\ UNCHANGED <<lru, lock, at, want, write, head, free, next, req, used, handler>>
      /\ UNCHANGED <<platter, inflight, panicked>>
  BY <1>1 DEF LogWrite, Goto, drivervars, ringvars, devicevars
<1>3. v \in Val /\ n \in Nat /\ TypeOK
  BY DiskAssumption DEF IInv, TypeOK, Buffer
<1>4. n = IF b \in pinned THEN buf[b].refcnt ELSE buf[b].refcnt + 1
  OBVIOUS
<1> HIDE DEF n
<1>5. /\ buf' \in [Buf -> Buffer] /\ buf'[b].data = v /\ buf'[b].refcnt = n
      /\ buf'[b].blockno = buf[b].blockno /\ buf'[b].valid = buf[b].valid
      /\ buf'[b].disk = buf[b].disk
      /\ \A c \in Buf : c # b => buf'[c] = buf[c]
  BY <1>2, <1>3, DataUpdated
<1>6. /\ buf[b].valid /\ ~write[p]
      /\ \A q \in Proc : at[q] = b => pc[q] \notin Active \cup {"unpin"}
  BY <1>1, <1>2, HaveFacts
<1>7. /\ pc' \in [Proc -> Label] /\ pc'[p] = "done"
      /\ \A q \in Proc : q # p => pc'[q] = pc[q]
  BY <1>2 DEF IInv, TypeOK, Label
<1>8. TypeOK'
  BY <1>2, <1>5, <1>7 DEF IInv, TypeOK
<1>9. CountInv'
  <2>1. \A c \in Buf : c # b => Refs(c)' = Refs(c)
    BY <1>2 DEF Refs
  <2>2. \A c \in Buf : c # b => Refs(c)' = Refs(c) /\ buf'[c].refcnt = buf[c].refcnt
    BY <1>5, <2>1
  <2>3. CASE b \in pinned
    <3>1. Refs(b)' = Refs(b) /\ buf'[b].refcnt = buf[b].refcnt
      BY <1>2, <1>4, <1>5, <2>3 DEF Refs
    <3> QED
      BY <2>2, <3>1 DEF IInv, CountInv
  <2>4. CASE b \notin pinned
    <3>1. Refs(b)' = Refs(b) \cup {NoOne} /\ NoOne \notin Refs(b)
      BY <1>2, <2>4, DiskAssumption DEF Refs
    <3>2. buf'[b].refcnt = buf[b].refcnt + 1
      BY <1>4, <1>5, <2>4
    <3> QED
      BY <2>2, <3>1, <3>2, CountAdded
  <2> QED
    BY <2>3, <2>4
<1>10. ChainInv' /\ RequestInv' /\ SyncInv'
  <2>1. SameRequests
    BY <1>2, <1>6, <1>7 DEF SameRequests, Active, Dirty, IInv, RequestInv
  <2> QED
    BY <1>2, <1>5, <1>6, <2>1, OneChanges
<1>11. \A c \in Buf : buf'[c].blockno = buf[c].blockno /\ buf'[c].valid = buf[c].valid
  BY <1>5
<1>12. OneBuffer'
  BY <1>11 DEF IInv, OneBuffer
<1>13. PlaceInv'
  BY <1>2, <1>7, <1>11 DEF IInv, PlaceInv, TypeOK
<1>14. LockInv'
  BY <1>2, <1>7 DEF IInv, LockInv, Locked
<1>15. ValidInv'
  <2>1. \A q \in Proc : pc[q] \in Asking \cup {"have", "unpin", "done"} => at[q] \in Buf
    BY DEF IInv, TypeOK, PlaceInv, Asking
  <2>2. \A c \in pinned' : buf'[c].valid
    BY <1>2, <1>6, <1>11 DEF IInv, ValidInv, TypeOK
  <2>3. \A q \in Proc : pc[q] \in Asking \cup {"have", "unpin", "done"} =>
          buf'[at[q]].valid = buf[at[q]].valid
    BY <1>11, <2>1
  <2>4. \A q \in Proc :
          /\ pc'[q] \in Asking <=> pc[q] \in Asking
          /\ pc'[q] \in {"have", "unpin", "done"} <=> pc[q] \in {"have", "unpin", "done"}
    BY <1>2, <1>7 DEF Asking
  <2>5. \A c \in Buf : buf'[c].valid => buf'[c].blockno \in Block
    BY <1>11 DEF IInv, ValidInv
  <2>6. UNCHANGED <<at, write>>
    BY <1>2
  <2> QED
    BY <2>2, <2>3, <2>4, <2>5, <2>6 DEF IInv, ValidInv
<1>16. PinInv'
  BY <1>2, <1>7 DEF IInv, PinInv, Asking
<1> QED
  BY <1>2, <1>8, <1>9, <1>10, <1>12, <1>13, <1>14, <1>15, <1>16 DEF IInv, NoDoubleFree

(* bwrite() of a change of the data                                        *)
LEMMA BwriteIInv ==
  ASSUME IInv, NEW p \in Proc, NEW v \in Writes, Bwrite(p, v)
  PROVE  IInv'
<1>1. PICK b \in Buf : b = at[p]
  BY HaveFacts DEF Bwrite
<1> DEFINE n == buf[b].refcnt
<1>2. /\ pc[p] = "have" /\ want[p] = "write" /\ b \notin pinned /\ pc' = [pc EXCEPT ![p] = "request"]
      /\ write' = [write EXCEPT ![p] = TRUE] /\ buf' = [buf EXCEPT ![b].data = v]
      /\ UNCHANGED <<lru, lock, pinned, at, want, head, free, next, req, used, handler>>
      /\ UNCHANGED <<platter, inflight, panicked>>
  BY <1>1 DEF Bwrite, Goto, drivervars, ringvars, devicevars
<1>3. v \in Val /\ n \in Nat /\ TypeOK
  BY DiskAssumption DEF IInv, TypeOK, Buffer
<1>4. buf' = [buf EXCEPT ![b].data = v, ![b].refcnt = n]
  <2>1. buf \in [Buf -> Buffer] /\ buf[b] \in Buffer
    BY DEF IInv, TypeOK
  <2>2. [buf[b] EXCEPT !.data = v] = [buf[b] EXCEPT !.data = v, !.refcnt = buf[b].refcnt]
    BY <2>1 DEF Buffer
  <2> QED
    BY <1>2, <2>1, <2>2
<1>5. n = buf[b].refcnt
  OBVIOUS
<1> HIDE DEF n
<1>6. /\ buf' \in [Buf -> Buffer] /\ buf'[b].data = v /\ buf'[b].refcnt = n
      /\ buf'[b].blockno = buf[b].blockno /\ buf'[b].valid = buf[b].valid
      /\ buf'[b].disk = buf[b].disk
      /\ \A c \in Buf : c # b => buf'[c] = buf[c]
  BY <1>3, <1>4, DataUpdated
<1>7. /\ buf[b].valid /\ ~write[p]
      /\ \A q \in Proc : at[q] = b => pc[q] \notin Active \cup {"unpin"}
  BY <1>1, <1>2, HaveFacts
<1>8. /\ pc' \in [Proc -> Label] /\ pc'[p] = "request"
      /\ write' \in [Proc -> BOOLEAN] /\ write'[p]
      /\ \A q \in Proc : q # p => pc'[q] = pc[q] /\ write'[q] = write[q]
  BY <1>2 DEF IInv, TypeOK, Label
<1>9. TypeOK'
  BY <1>2, <1>6, <1>8 DEF IInv, TypeOK
<1>10. CountInv'
  BY <1>2, <1>5, <1>6, CountSame
<1>11. ChainInv' /\ RequestInv' /\ SyncInv'
  <2>1. SameRequests
    BY <1>2, <1>7, <1>8 DEF SameRequests, Active, Dirty, IInv, RequestInv
  <2>2. at'[p] = b /\ Dirty(p)'
    BY <1>1, <1>2, <1>8 DEF Dirty
  <2> QED
    BY <1>2, <1>6, <1>7, <2>1, <2>2, OneChanges
<1>12. \A c \in Buf : buf'[c].blockno = buf[c].blockno /\ buf'[c].valid = buf[c].valid
  BY <1>6
<1>13. OneBuffer'
  BY <1>12 DEF IInv, OneBuffer
<1>14. PlaceInv'
  BY <1>2, <1>8, <1>12 DEF IInv, PlaceInv, TypeOK
<1>15. LockInv'
  BY <1>2, <1>8 DEF IInv, LockInv, Locked
<1>16. ValidInv'
  <2>1. \A q \in Proc : pc[q] \in Asking \cup {"have", "unpin", "done"} => at[q] \in Buf
    BY DEF IInv, TypeOK, PlaceInv, Asking
  <2>2. \A c \in pinned' : buf'[c].valid
    BY <1>2, <1>12 DEF IInv, ValidInv, TypeOK
  <2> QED
    BY <1>1, <1>2, <1>7, <1>8, <1>12, <2>1, <2>2 DEF IInv, ValidInv, Asking
<1>17. PinInv'
  BY <1>2, <1>8 DEF IInv, PinInv, Asking
<1> QED
  BY <1>2, <1>9, <1>10, <1>11, <1>13, <1>14, <1>15, <1>16, <1>17 DEF IInv, NoDoubleFree

---------------------------------------------------------------------------
(* The steps of the driver, its handler and the device                     *)

(* What they leave as it is.                                               *)
LEMMA DriverKeeps ==
  ASSUME IInv, UNCHANGED <<lru, lock, pinned, at, want, write>>, pc' \in [Proc -> Label],
         \A b \in Buf : buf'[b].blockno = buf[b].blockno /\ buf'[b].refcnt = buf[b].refcnt,
         \A q \in Proc : \/ pc'[q] = pc[q]
                         \/ pc[q] \in Asking /\ pc'[q] \in Asking \cup {Finished(q)}
  PROVE  OneBuffer' /\ CountInv' /\ PlaceInv' /\ LockInv' /\ PinInv'
<1>1. OneBuffer'
  BY DEF IInv, OneBuffer
<1>2. CountInv'
  BY CountSame
<1>3. \A q \in Proc :
        /\ pc'[q] \in Locked <=> pc[q] \in Locked
        /\ pc'[q] = "idle" <=> pc[q] = "idle"
        /\ pc'[q] \in {"idle", "lock", "have"} => pc'[q] = pc[q] \/ ~write[q]
        /\ pc'[q] = "unpin" => pc'[q] = pc[q] \/ (write[q] /\ want[q] = "install" /\ pc[q] \in Asking)
        /\ pc'[q] \in Asking => pc[q] \in Asking
  BY DEF Locked, Asking, Finished
<1>4. \A q \in Proc : at[q] # 0 => at[q] \in Buf
  BY DEF IInv, TypeOK
<1>5. PlaceInv'
  BY <1>3, <1>4 DEF IInv, PlaceInv
<1>6. LockInv'
  BY <1>3 DEF IInv, LockInv
<1>7. PinInv'
  BY <1>3 DEF IInv, PinInv
<1> QED
  BY <1>1, <1>2, <1>5, <1>6, <1>7

(* A chain none of whose descriptors is changed                            *)
LEMMA ChainSame ==
  ASSUME NEW h \in Desc, \A x \in Chain(h) : next'[x] = next[x]
  PROVE  Chain(h)' = Chain(h)
BY DEF Chain

(* Buffers of which one has a flag set or cleared                          *)
LEMMA FlagUpdated ==
  ASSUME TypeOK, NEW b \in Buf, NEW d \in BOOLEAN,
         buf' = [buf EXCEPT ![b].disk = d] \/ buf' = [buf EXCEPT ![b].valid = d]
  PROVE  /\ buf' \in [Buf -> Buffer]
         /\ buf' = [buf EXCEPT ![b].disk = d] => buf'[b].disk = d /\ buf'[b].valid = buf[b].valid
         /\ buf' = [buf EXCEPT ![b].valid = d] => buf'[b].valid = d /\ buf'[b].disk = buf[b].disk
         /\ \A c \in Buf : buf'[c].blockno = buf[c].blockno /\ buf'[c].data = buf[c].data
         /\ \A c \in Buf : buf'[c].refcnt = buf[c].refcnt
         /\ \A c \in Buf : c # b => buf'[c] = buf[c]
<1>1. buf \in [Buf -> Buffer] /\ buf[b] \in Buffer
  BY DEF TypeOK
<1>2. buf[b].disk \in BOOLEAN /\ buf[b].valid \in BOOLEAN
  BY <1>1 DEF Buffer
<1>3. CASE buf' = [buf EXCEPT ![b].disk = d]
  <2>1. buf'[b] = [buf[b] EXCEPT !.disk = d] /\ \A c \in Buf : c # b => buf'[c] = buf[c]
    BY <1>1, <1>3
  <2>2. buf'[b] \in Buffer /\ buf' \in [Buf -> Buffer]
    <3>1. buf'[b] \in Buffer
      BY <1>1, <2>1 DEF Buffer
    <3> QED
      BY <1>1, <1>3, <2>1, <3>1
  <2>3. /\ buf'[b].disk = d /\ buf'[b].valid = buf[b].valid
        /\ buf'[b].blockno = buf[b].blockno /\ buf'[b].data = buf[b].data
        /\ buf'[b].refcnt = buf[b].refcnt
    BY <1>1, <2>1 DEF Buffer
  <2>4. buf' = [buf EXCEPT ![b].valid = d] => buf'[b].valid = d /\ buf'[b].disk = buf[b].disk
    BY <1>1 DEF Buffer
  <2> QED
    BY <2>1, <2>2, <2>3, <2>4
<1>4. CASE buf' = [buf EXCEPT ![b].valid = d]
  <2>1. buf'[b] = [buf[b] EXCEPT !.valid = d] /\ \A c \in Buf : c # b => buf'[c] = buf[c]
    BY <1>1, <1>4
  <2>2. buf'[b] \in Buffer /\ buf' \in [Buf -> Buffer]
    <3>1. buf'[b] \in Buffer
      BY <1>1, <2>1 DEF Buffer
    <3> QED
      BY <1>1, <1>4, <2>1, <3>1
  <2>3. /\ buf'[b].valid = d /\ buf'[b].disk = buf[b].disk
        /\ buf'[b].blockno = buf[b].blockno /\ buf'[b].data = buf[b].data
        /\ buf'[b].refcnt = buf[b].refcnt
    BY <1>1, <2>1 DEF Buffer
  <2>4. buf' = [buf EXCEPT ![b].disk = d] => buf'[b].disk = d /\ buf'[b].valid = buf[b].valid
    BY <1>1 DEF Buffer
  <2> QED
    BY <2>1, <2>2, <2>3, <2>4
<1> QED
  BY <1>3, <1>4

(* What is free is part of nobody's request.                               *)
LEMMA FreeFacts ==
  ASSUME IInv, NEW q \in Proc, pc[q] \in Active
  PROVE  /\ head[q] \in Desc /\ head[q] \in Chain(head[q]) /\ head[q] \notin free
         /\ at[q] \in Buf /\ pc[q] \in Locked /\ pc[q] \in Asking
<1>1. head[q] \in Desc /\ Chain(head[q]) \cap free = {} /\ head[q] \in Chain(head[q])
  BY DEF IInv, ChainInv, Chain
<1> QED
  BY <1>1 DEF IInv, TypeOK, PlaceInv, Active, Locked, Asking

(* virtio_disk_rw() submits a request.                                     *)
LEMMA SubmitIInv ==
  ASSUME IInv, NEW p \in Proc, Submit(p)
  PROVE  IInv'
<1>1. pc[p] = "request" /\ pc' = [pc EXCEPT ![p] = "io"]
  BY DEF Submit, Goto
<1>2. PICK b \in Buf : b = at[p]
  BY <1>1 DEF IInv, TypeOK, PlaceInv
<1>3. /\ buf' = [buf EXCEPT ![b].disk = TRUE]
      /\ UNCHANGED <<lru, lock, pinned, at, want, write, used, handler, platter, panicked>>
  BY <1>2 DEF Submit, ringvars
<1>4. PICK i \in free, j \in free, k \in free :
        /\ alloc3_desc(i, j, k)
        /\ free' = free \ {i, j, k}
        /\ next' = [next EXCEPT ![i] = j, ![j] = k, ![k] = Null]
        /\ req' = [req EXCEPT ![i] = [b |-> at[p], write |-> write[p],
                                      sector |-> buf[at[p]].blockno]]
        /\ head' = [head EXCEPT ![p] = i]
        /\ inflight' = inflight \cup {i}
  BY DEF Submit
<1>5. /\ i # j /\ i # k /\ j # k
      /\ i \in Desc /\ j \in Desc /\ k \in Desc /\ Null \notin Desc
  <2>1. Null \notin Desc
    BY DiskAssumption DEF Desc, Null
  <2> QED
    BY <1>4, <2>1 DEF alloc3_desc, alloc_desc, IInv, TypeOK
<1>6. /\ buf' \in [Buf -> Buffer] /\ buf'[b].disk
      /\ \A c \in Buf : /\ buf'[c].blockno = buf[c].blockno /\ buf'[c].data = buf[c].data
                        /\ buf'[c].valid = buf[c].valid /\ buf'[c].refcnt = buf[c].refcnt
      /\ \A c \in Buf : c # b => buf'[c] = buf[c]
  BY <1>3, FlagUpdated DEF IInv
<1>7. /\ pc' \in [Proc -> Label] /\ pc'[p] = "io" /\ head'[p] = i
      /\ \A q \in Proc : q # p => pc'[q] = pc[q] /\ head'[q] = head[q]
  BY <1>1, <1>4 DEF IInv, TypeOK, Label
<1>8. /\ next' \in [Desc -> Desc \cup {Null}]
      /\ next'[i] = j /\ next'[j] = k /\ next'[k] = Null
      /\ \A x \in Desc : x \notin {i, j, k} => next'[x] = next[x]
  <2>1. next \in [Desc -> Desc \cup {Null}]
    BY DEF IInv, TypeOK
  <2> QED
    BY <1>4, <1>5, <2>1
<1>9. /\ req' \in [Desc -> [b : Buf \cup {0}, write : BOOLEAN, sector : Block \cup {NoBlock}]]
      /\ req'[i] = [b |-> at[p], write |-> write[p], sector |-> buf[at[p]].blockno]
      /\ \A x \in Desc : x # i => req'[x] = req[x]
  <2> DEFINE r == [b |-> at[p], write |-> write[p], sector |-> buf[at[p]].blockno]
  <2>1. r \in [b : Buf \cup {0}, write : BOOLEAN, sector : Block \cup {NoBlock}]
    <3>1. at[p] \in Buf \cup {0} /\ write[p] \in BOOLEAN /\ buf[at[p]].blockno \in Block \cup {NoBlock}
      BY <1>2 DEF IInv, TypeOK, Buffer
    <3> QED
      BY <3>1
  <2>2. req' = [req EXCEPT ![i] = r]
    BY <1>4
  <2>3. req \in [Desc -> [b : Buf \cup {0}, write : BOOLEAN, sector : Block \cup {NoBlock}]]
    BY DEF IInv, TypeOK
  <2>4. r = [b |-> at[p], write |-> write[p], sector |-> buf[at[p]].blockno]
    OBVIOUS
  <2> HIDE DEF r
  <2>5. req'[i] = r /\ \A x \in Desc : x # i => req'[x] = req[x]
    BY <1>5, <2>2, <2>3
  <2>6. req' \in [Desc -> [b : Buf \cup {0}, write : BOOLEAN, sector : Block \cup {NoBlock}]]
    BY <1>5, <2>1, <2>2, <2>3
  <2> QED
    BY <2>4, <2>5, <2>6
<1>10. TypeOK'
  <2>1. head' \in [Proc -> Desc \cup {Null}] /\ free' \subseteq Desc /\ inflight' \subseteq Desc
    BY <1>4, <1>5 DEF IInv, TypeOK
  <2> QED
    BY <1>3, <1>6, <1>7, <1>8, <1>9, <2>1 DEF IInv, TypeOK
<1>11. OneBuffer' /\ CountInv' /\ PlaceInv' /\ LockInv' /\ PinInv'
  <2>1. \A q \in Proc : pc'[q] = pc[q] \/ (pc[q] \in Asking /\ pc'[q] \in Asking)
    BY <1>1, <1>7 DEF Asking
  <2> QED
    BY <1>3, <1>6, <1>7, <2>1, DriverKeeps
<1>12. \A q \in Proc : q # p /\ pc[q] \in Locked => at[q] # b
  BY <1>1, <1>2, OneHolder DEF Locked
<1>13. \A q \in Proc : q # p /\ pc'[q] \in Active =>
         /\ pc[q] \in Active /\ head'[q] = head[q] /\ head[q] \in Desc /\ head[q] # i
         /\ Chain(head[q]) \cap free = {} /\ at[q] \in Buf /\ at[q] # b
  BY <1>4, <1>7, <1>12, FreeFacts DEF IInv, ChainInv
<1>14. ChainInv'
  <2>1. \A q \in Proc : q # p /\ pc'[q] \in Active => Chain(head[q])' = Chain(head[q])
    <3>1. SUFFICES ASSUME NEW h \in Desc, Chain(h) \cap free = {}
                   PROVE  Chain(h)' = Chain(h)
      BY <1>13 DEF Chain
    <3>2. \A x \in Chain(h) : x \in Desc
      BY DEF Chain, IInv, TypeOK
    <3> QED
      BY <1>8, <3>1, <3>2, ChainSame
  <2>2. Chain(head[p])' = {i, j, k}
    BY <1>5, <1>7, <1>8 DEF Chain
  <2>3. ASSUME NEW q \in Proc, pc'[q] \in Active
        PROVE  head'[q] \in Desc /\ Chain(head[q])' \cap free' = {}
    <3>1. CASE q = p
      BY <1>4, <1>5, <1>7, <2>2, <3>1
    <3>2. CASE q # p
      BY <1>4, <1>13, <2>1, <2>3, <3>2
    <3> QED
      BY <3>1, <3>2
  <2>4. ASSUME NEW q \in Proc, NEW r \in Proc, pc'[q] \in Active, pc'[r] \in Active, q # r
        PROVE  Chain(head[q])' \cap Chain(head[r])' = {}
    <3>1. CASE q = p
      BY <1>13, <2>1, <2>2, <2>4, <3>1
    <3>2. CASE r = p
      BY <1>13, <2>1, <2>2, <2>4, <3>2
    <3>3. CASE q # p /\ r # p
      BY <1>13, <2>1, <2>4, <3>3 DEF IInv, ChainInv
    <3> QED
      BY <3>1, <3>2, <3>3
  <2> QED
    BY <2>3, <2>4 DEF ChainInv
<1>15. Pending' = Pending \cup {i} /\ i \notin Pending
  BY <1>3, <1>4, FreeFacts DEF Pending, IInv, RequestInv
<1>16. RequestInv'
  <2>1. \A x \in Pending' : \E q \in Proc : pc'[q] \in Active /\ head'[q] = x
    <3>1. SUFFICES ASSUME NEW x \in Pending'
                   PROVE  \E q \in Proc : pc'[q] \in Active /\ head'[q] = x
      OBVIOUS
    <3>2. CASE x = i
      BY <1>7, <3>2 DEF Active
    <3>3. CASE x \in Pending
      BY <1>1, <1>7, <3>3 DEF IInv, RequestInv, Active
    <3> QED
      BY <1>15, <3>2, <3>3
  <2>2. ASSUME NEW q \in Proc, pc'[q] \in Active
        PROVE  /\ req'[head'[q]] = [b |-> at'[q], write |-> write'[q], sector |-> buf'[at'[q]].blockno]
               /\ buf'[at'[q]].disk <=> head'[q] \in Pending'
    <3>1. CASE q = p
      BY <1>2, <1>3, <1>6, <1>7, <1>9, <1>15, <3>1
    <3>2. CASE q # p
      <4>1. /\ pc[q] \in Active /\ head'[q] = head[q] /\ head[q] # i /\ head[q] \in Desc
            /\ at'[q] = at[q] /\ write'[q] = write[q] /\ buf'[at[q]] = buf[at[q]]
        BY <1>3, <1>6, <1>13, <2>2, <3>2
      <4>2. req'[head[q]] = req[head[q]] /\ (head[q] \in Pending' <=> head[q] \in Pending)
        BY <1>9, <1>15, <4>1
      <4> QED
        BY <4>1, <4>2 DEF IInv, RequestInv
    <3> QED
      BY <3>1, <3>2
  <2>3. /\ \A x \in 1 .. Len(used) : used[x] \notin inflight'
        /\ \A x, y \in 1 .. Len(used) : used[x] = used[y] => x = y
        /\ handler' => used # <<>>
    BY <1>3, <1>4, <1>15 DEF Pending, IInv, RequestInv
  <2> QED
    BY <1>3, <2>1, <2>2, <2>3 DEF RequestInv
<1>17. ValidInv'
  <2>1. \A q \in Proc : pc[q] \in Asking \cup {"have", "unpin", "done"} => at[q] \in Buf
    BY DEF IInv, TypeOK, PlaceInv, Asking
  <2>2. \A c \in pinned' : buf'[c].valid
    BY <1>3, <1>6 DEF IInv, ValidInv, TypeOK
  <2> QED
    BY <1>1, <1>3, <1>6, <1>7, <2>1, <2>2 DEF IInv, ValidInv, Asking
<1>18. SyncInv'
  <2>1. \A c \in Buf : Synced(c)' <=> Synced(c)
    BY <1>3, <1>6 DEF Synced
  <2>2. \A q \in Proc : Dirty(q) => Dirty(q)'
    BY <1>1, <1>3, <1>4, <1>7 DEF Dirty, Active
  <2>3. ASSUME NEW q \in Proc, Past(q)' PROVE Synced(at[q])'
    <3>1. q # p
      BY <1>4, <1>7, <2>3 DEF Past
    <3>2. Past(q) /\ at'[q] = at[q] /\ at[q] \in Buf
      BY <1>3, <1>4, <1>7, <1>13, <2>3, <3>1 DEF Past, IInv, TypeOK, PlaceInv
    <3> QED
      BY <2>1, <3>2 DEF IInv, SyncInv, Synced
  <2>4. \A c \in Buf : buf'[c].valid /\ c \notin pinned' /\ ~(\E q \in Proc : at'[q] = c /\ Dirty(q)')
          => Synced(c)'
    BY <1>3, <1>6, <2>1, <2>2 DEF IInv, SyncInv
  <2> QED
    BY <2>3, <2>4 DEF SyncInv
<1> QED
  BY <1>3, <1>10, <1>11, <1>14, <1>16, <1>17, <1>18 DEF IInv, NoDoubleFree

(* virtio_disk_rw() finds its request finished and frees the chain.        *)
LEMMA AwakeIInv ==
  ASSUME IInv, NEW p \in Proc, Awake(p), ~buf[at[p]].disk
  PROVE  IInv'
<1>1. pc[p] = "awake" /\ pc[p] \in Active
  BY DEF Awake, Active
<1>2. PICK b \in Buf, h \in Desc : b = at[p] /\ h = head[p]
  BY <1>1, FreeFacts
<1>3. /\ buf' = [buf EXCEPT ![b].valid = TRUE] /\ head' = [head EXCEPT ![p] = Null]
      /\ req' = [req EXCEPT ![h] = NoReq] /\ free' = free \cup Chain(h)
      /\ next' = [x \in Desc |-> IF x \in Chain(h) THEN Null ELSE next[x]]
      /\ panicked' = (IF Chain(h) \cap free = {} THEN "no" ELSE "free_desc 2")
      /\ pc' = [q \in Proc |-> IF q = p THEN Finished(p)
                               ELSE IF pc[q] = "nodesc" THEN "request" ELSE pc[q]]
  BY <1>2 DEF Awake, WakeWaiters
<1>4. UNCHANGED <<lru, lock, pinned, at, want, write, used, handler, platter, inflight>>
  BY DEF Awake, ringvars, devicevars
<1>5. Chain(h) \cap free = {} /\ h \in Chain(h) /\ Chain(h) \subseteq Desc
  BY <1>1, <1>2 DEF IInv, ChainInv, Chain, TypeOK
<1>6. h \notin Pending /\ Synced(b)
  <2>1. h \notin Pending
    BY <1>1, <1>2 DEF IInv, RequestInv
  <2> QED
    BY <1>1, <1>2, <2>1 DEF Pending, Past, IInv, SyncInv
<1>7. /\ buf' \in [Buf -> Buffer] /\ buf'[b].valid /\ buf'[b].disk = buf[b].disk
      /\ \A c \in Buf : /\ buf'[c].blockno = buf[c].blockno /\ buf'[c].data = buf[c].data
                        /\ buf'[c].refcnt = buf[c].refcnt
      /\ \A c \in Buf : c # b => buf'[c] = buf[c]
  BY <1>3, FlagUpdated DEF IInv
<1>8. /\ pc' \in [Proc -> Label] /\ pc'[p] = Finished(p) /\ pc'[p] \in {"have", "unpin", "done"}
      /\ \A q \in Proc : q # p => pc'[q] = pc[q] \/ (pc[q] = "nodesc" /\ pc'[q] = "request")
      /\ \A q \in Proc : q # p => head'[q] = head[q]
  BY <1>3 DEF IInv, TypeOK, Label, Finished
<1>9. \A x \in Desc : x # h => req'[x] = req[x]
  BY <1>3 DEF IInv, TypeOK
<1>10. TypeOK'
  <2>1. head' \in [Proc -> Desc \cup {Null}] /\ free' \subseteq Desc
        /\ next' \in [Desc -> Desc \cup {Null}]
    BY <1>3, <1>5 DEF IInv, TypeOK
  <2>2. req' \in [Desc -> [b : Buf \cup {0}, write : BOOLEAN, sector : Block \cup {NoBlock}]]
    <3>1. NoReq \in [b : Buf \cup {0}, write : BOOLEAN, sector : Block \cup {NoBlock}]
      BY DEF NoReq
    <3> QED
      BY <1>3, <3>1 DEF IInv, TypeOK
  <2> QED
    BY <1>4, <1>7, <1>8, <2>1, <2>2 DEF IInv, TypeOK
<1>11. OneBuffer' /\ CountInv' /\ PlaceInv' /\ LockInv' /\ PinInv'
  <2>1. \A q \in Proc : pc'[q] = pc[q] \/ (pc[q] \in Asking /\ pc'[q] \in Asking \cup {Finished(q)})
    BY <1>1, <1>8 DEF Asking
  <2> QED
    BY <1>4, <1>7, <1>8, <2>1, DriverKeeps
<1>12. \A q \in Proc : q # p /\ pc[q] \in Locked => at[q] # b
  BY <1>1, <1>2, OneHolder DEF Locked
<1>13. \A q \in Proc : pc'[q] \in Active =>
         /\ q # p /\ pc[q] \in Active /\ head'[q] = head[q] /\ head[q] \in Desc /\ head[q] # h
         /\ Chain(head[q]) \cap free' = {} /\ Chain(head[q]) \cap Chain(h) = {}
         /\ at[q] \in Buf /\ at[q] # b
  <2>1. SUFFICES ASSUME NEW q \in Proc, pc'[q] \in Active
                 PROVE  /\ q # p /\ pc[q] \in Active /\ head'[q] = head[q] /\ head[q] \in Desc
                        /\ head[q] # h /\ Chain(head[q]) \cap free' = {}
                        /\ Chain(head[q]) \cap Chain(h) = {} /\ at[q] \in Buf /\ at[q] # b
    OBVIOUS
  <2>2. q # p /\ pc[q] \in Active /\ head'[q] = head[q]
    BY <1>8, <2>1 DEF Active
  <2>3. /\ head[q] \in Desc /\ head[q] \in Chain(head[q]) /\ at[q] \in Buf /\ at[q] # b
        /\ Chain(head[q]) \cap free = {} /\ Chain(head[q]) \cap Chain(h) = {}
    BY <1>1, <1>2, <1>12, <2>2, FreeFacts DEF IInv, ChainInv
  <2> QED
    BY <1>3, <1>5, <2>2, <2>3
<1>14. ChainInv'
  <2>1. ASSUME NEW q \in Proc, pc'[q] \in Active
        PROVE  Chain(head[q])' = Chain(head[q])
    <3>1. PICK g \in Desc : g = head[q]
      BY <1>13, <2>1
    <3>2. Chain(g) \cap Chain(h) = {} /\ head'[q] = g
      BY <1>13, <2>1, <3>1
    <3>3. \A x \in Chain(g) : x \in Desc
      BY DEF Chain, IInv, TypeOK
    <3>4. \A x \in Chain(g) : next'[x] = next[x]
      BY <1>3, <3>2, <3>3
    <3>5. Chain(g)' = Chain(g)
      BY <3>4, ChainSame
    <3> QED
      BY <3>1, <3>2, <3>5 DEF Chain
  <2>2. \A q \in Proc : pc'[q] \in Active => head'[q] \in Desc /\ Chain(head[q])' \cap free' = {}
    BY <1>13, <2>1
  <2>3. ASSUME NEW q \in Proc, NEW r \in Proc, pc'[q] \in Active, pc'[r] \in Active, q # r
        PROVE  Chain(head[q])' \cap Chain(head[r])' = {}
    BY <1>13, <2>1, <2>3 DEF IInv, ChainInv
  <2> QED
    BY <2>2, <2>3 DEF ChainInv
<1>15. RequestInv'
  <2>1. Pending' = Pending
    BY <1>4 DEF Pending
  <2>2. \A x \in Pending : \E q \in Proc : pc'[q] \in Active /\ head'[q] = x
    <3>1. SUFFICES ASSUME NEW x \in Pending
                   PROVE  \E q \in Proc : pc'[q] \in Active /\ head'[q] = x
      OBVIOUS
    <3>2. PICK q \in Proc : pc[q] \in Active /\ head[q] = x
      BY DEF IInv, RequestInv
    <3> QED
      BY <1>2, <1>6, <1>8, <3>2 DEF Active
  <2>3. ASSUME NEW q \in Proc, pc'[q] \in Active
        PROVE  /\ req'[head'[q]] = [b |-> at'[q], write |-> write'[q], sector |-> buf'[at'[q]].blockno]
               /\ buf'[at'[q]].disk <=> head'[q] \in Pending
    <3>1. /\ pc[q] \in Active /\ head'[q] = head[q] /\ at'[q] = at[q] /\ write'[q] = write[q]
          /\ buf'[at[q]] = buf[at[q]] /\ req'[head[q]] = req[head[q]]
      BY <1>4, <1>7, <1>9, <1>13, <2>3
    <3> QED
      BY <3>1 DEF IInv, RequestInv
  <2> QED
    BY <1>4, <2>1, <2>2, <2>3 DEF IInv, RequestInv
<1>16. ValidInv'
  <2>1. \A q \in Proc : pc[q] \in Asking \cup {"have", "unpin", "done"} => at[q] \in Buf
    BY DEF IInv, TypeOK, PlaceInv, Asking
  <2>2. \A c \in pinned' : buf'[c].valid
    BY <1>4, <1>7 DEF IInv, ValidInv, TypeOK
  <2>3. \A c \in Buf : buf'[c].valid => buf'[c].blockno \in Block
    BY <1>1, <1>2, <1>7 DEF IInv, ValidInv, PlaceInv, Buf
  <2>4. \A q \in Proc : q # p /\ pc'[q] \in Asking \cup {"have", "unpin", "done"} =>
          /\ buf'[at[q]] = buf[at[q]]
          /\ pc[q] \in Asking <=> pc'[q] \in Asking
          /\ pc[q] \in {"have", "unpin", "done"} <=> pc'[q] \in {"have", "unpin", "done"}
    BY <1>7, <1>8, <1>12, <2>1 DEF Asking, Locked
  <2>5. \A q \in Proc : /\ pc'[q] \in Asking => (buf'[at[q]].valid <=> write[q])
                        /\ pc'[q] \in {"have", "unpin", "done"} => buf'[at[q]].valid
    BY <1>2, <1>7, <1>8, <2>4 DEF IInv, ValidInv, Asking
  <2> QED
    BY <1>4, <2>2, <2>3, <2>5 DEF ValidInv
<1>17. SyncInv'
  <2>1. \A c \in Buf : Synced(c)' <=> Synced(c)
    BY <1>4, <1>7 DEF Synced
  <2>2. \A q \in Proc : Dirty(q) /\ q # p => Dirty(q)'
    BY <1>4, <1>8 DEF Dirty, Active
  <2>3. ASSUME NEW q \in Proc, Past(q)' PROVE Synced(at[q])'
    <3>1. CASE q = p
      BY <1>2, <1>4, <1>6, <2>1, <3>1 DEF Synced
    <3>2. CASE q # p
      <4>1. Past(q) /\ at'[q] = at[q] /\ at[q] \in Buf
        BY <1>4, <1>8, <1>13, <2>3, <3>2 DEF Past, IInv, TypeOK, PlaceInv
      <4> QED
        BY <2>1, <4>1 DEF IInv, SyncInv, Synced
    <3> QED
      BY <3>1, <3>2
  <2>4. \A c \in Buf : buf'[c].valid /\ c \notin pinned' /\ ~(\E q \in Proc : at'[q] = c /\ Dirty(q)')
          => Synced(c)'
    BY <1>2, <1>4, <1>6, <1>7, <2>1, <2>2 DEF IInv, SyncInv
  <2> QED
    BY <2>3, <2>4 DEF SyncInv
<1>18. NoDoubleFree'
  BY <1>3, <1>5 DEF NoDoubleFree
<1> QED
  BY <1>10, <1>11, <1>14, <1>15, <1>16, <1>17, <1>18 DEF IInv

(* A pending descriptor is the head of one process's request.              *)
LEMMA OneOwner ==
  ASSUME IInv, NEW p \in Proc, NEW q \in Proc, pc[p] \in Active, pc[q] \in Active,
         head[p] = head[q] \/ at[p] = at[q]
  PROVE  p = q
<1>1. CASE head[p] = head[q]
  BY <1>1, FreeFacts DEF IInv, ChainInv
<1>2. CASE at[p] = at[q]
  BY <1>2, FreeFacts, OneHolder
<1> QED
  BY <1>1, <1>2

(* virtio_disk_intr() takes an entry of the used ring.                     *)
LEMMA IntrEntryIInv ==
  ASSUME IInv, IntrEntry
  PROVE  IInv'
<1>1. used \in Seq(Desc) /\ used # <<>>
  BY DEF IntrEntry, IInv, TypeOK, RequestInv
<1>2. PICK i \in Desc : i = Head(used)
  BY <1>1
<1>3. i = used[1] /\ 1 \in 1 .. Len(used) /\ i \in Pending
  BY <1>1, <1>2 DEF Pending
<1>4. PICK p \in Proc : pc[p] \in Active /\ head[p] = i
  BY <1>3 DEF IInv, RequestInv
<1>5. PICK b \in Buf : b = at[p]
  BY <1>4, FreeFacts
<1>6. req[Head(used)].b = b
  <2>1. req[head[p]] = [b |-> at[p], write |-> write[p], sector |-> buf[at[p]].blockno]
    BY <1>4 DEF IInv, RequestInv
  <2> QED
    BY <1>2, <1>4, <1>5, <2>1
<1>7. /\ buf' = [buf EXCEPT ![b].disk = FALSE] /\ used' = Tail(used) /\ handler' = (used' # <<>>)
      /\ pc' = [q \in Proc |-> IF pc[q] = "io" /\ at[q] = b THEN "awake" ELSE pc[q]]
  BY <1>6 DEF IntrEntry, More
<1>8. /\ UNCHANGED <<lru, lock, pinned, at, want, write, head, free, next, req>>
      /\ UNCHANGED <<platter, inflight, panicked>>
  BY DEF IntrEntry, drivervars, devicevars
<1>9. /\ buf' \in [Buf -> Buffer] /\ ~buf'[b].disk
      /\ \A c \in Buf : /\ buf'[c].blockno = buf[c].blockno /\ buf'[c].data = buf[c].data
                        /\ buf'[c].valid = buf[c].valid /\ buf'[c].refcnt = buf[c].refcnt
      /\ \A c \in Buf : c # b => buf'[c] = buf[c]
  BY <1>7, FlagUpdated DEF IInv
<1>10. /\ pc' \in [Proc -> Label]
       /\ \A q \in Proc : /\ pc'[q] = pc[q] \/ (pc[q] = "io" /\ pc'[q] = "awake")
                          /\ pc'[q] \in Active <=> pc[q] \in Active
                          /\ pc'[q] \in Asking <=> pc[q] \in Asking
  BY <1>7 DEF IInv, TypeOK, Label, Active, Asking
<1>11. /\ used' \in Seq(Desc) /\ Len(used') = Len(used) - 1 /\ Len(used) \in Nat
       /\ \A x \in 1 .. Len(used') : used'[x] = used[x + 1] /\ x + 1 \in 1 .. Len(used) /\ x + 1 # 1
  BY <1>1, <1>7
<1>12. TypeOK'
  BY <1>8, <1>9, <1>10, <1>11 DEF IInv, TypeOK
<1>13. OneBuffer' /\ CountInv' /\ PlaceInv' /\ LockInv' /\ PinInv'
  <2>1. \A q \in Proc : pc'[q] = pc[q] \/ (pc[q] \in Asking /\ pc'[q] \in Asking)
    BY <1>10 DEF Asking
  <2> QED
    BY <1>8, <1>9, <1>10, <2>1, DriverKeeps
<1>14. ChainInv'
  <2>1. \A x : Chain(x)' = Chain(x)
    BY <1>8 DEF Chain
  <2> QED
    BY <1>8, <1>10, <2>1 DEF IInv, ChainInv
<1>15. Pending' = Pending \ {i}
  <2>1. \A x \in 1 .. Len(used) : x # 1 => used[x] # i
    BY <1>3 DEF IInv, RequestInv
  <2>2. i \notin inflight
    BY <1>3 DEF IInv, RequestInv
  <2>3. {used'[x] : x \in 1 .. Len(used')} \subseteq {used[x] : x \in 1 .. Len(used)} \ {i}
    BY <1>11, <2>1
  <2>4. {used[x] : x \in 1 .. Len(used)} \ {i} \subseteq {used'[x] : x \in 1 .. Len(used')}
    <3>1. SUFFICES ASSUME NEW y \in 1 .. Len(used), used[y] # i
                   PROVE  \E x \in 1 .. Len(used') : used[y] = used'[x]
      OBVIOUS
    <3>2. y - 1 \in 1 .. Len(used')
      BY <1>3, <1>11, <3>1
    <3>3. used[y] = used'[y - 1]
      BY <1>11, <3>2
    <3> QED
      BY <3>2, <3>3
  <2> QED
    BY <1>8, <2>2, <2>3, <2>4 DEF Pending
<1>16. RequestInv'
  <2>1. \A x \in Pending' : \E q \in Proc : pc'[q] \in Active /\ head'[q] = x
    BY <1>8, <1>10, <1>15 DEF IInv, RequestInv
  <2>2. ASSUME NEW q \in Proc, pc'[q] \in Active
        PROVE  /\ req'[head'[q]] = [b |-> at'[q], write |-> write'[q], sector |-> buf'[at'[q]].blockno]
               /\ buf'[at'[q]].disk <=> head'[q] \in Pending'
    <3>1. pc[q] \in Active /\ at[q] \in Buf
      BY <1>10, <2>2, FreeFacts
    <3>2. req[head[q]] = [b |-> at[q], write |-> write[q], sector |-> buf'[at[q]].blockno]
      <4>1. buf'[at[q]].blockno = buf[at[q]].blockno
        BY <1>9, <3>1
      <4> QED
        BY <3>1, <4>1 DEF IInv, RequestInv
    <3>3. buf'[at[q]].disk <=> head[q] \in Pending'
      <4>1. CASE q = p
        BY <1>4, <1>5, <1>9, <1>15, <4>1
      <4>2. CASE q # p
        <5>1. head[q] # i /\ at[q] # b
          BY <1>4, <1>5, <3>1, <4>2, OneOwner
        <5> QED
          BY <1>9, <1>15, <3>1, <5>1 DEF IInv, RequestInv
      <4> QED
        BY <4>1, <4>2
    <3> QED
      BY <1>8, <3>2, <3>3
  <2>3. \A x \in 1 .. Len(used') : used'[x] \notin inflight'
    BY <1>8, <1>11 DEF IInv, RequestInv
  <2>4. \A x, y \in 1 .. Len(used') : used'[x] = used'[y] => x = y
    <3>1. \A x, y \in 1 .. Len(used') : used'[x] = used'[y] => x + 1 = y + 1
      BY <1>11 DEF IInv, RequestInv
    <3> QED
      BY <1>11, <3>1
  <2> QED
    BY <1>7, <2>1, <2>2, <2>3, <2>4 DEF RequestInv
<1>17. ValidInv'
  <2>1. \A q \in Proc : pc[q] \in Asking \cup {"have", "unpin", "done"} => at[q] \in Buf
    BY DEF IInv, TypeOK, PlaceInv, Asking
  <2>2. \A c \in pinned' : buf'[c].valid
    BY <1>8, <1>9 DEF IInv, ValidInv, TypeOK
  <2> QED
    BY <1>8, <1>9, <1>10, <2>1, <2>2 DEF IInv, ValidInv, Asking
<1>18. SyncInv'
  <2>1. \A c \in Buf : Synced(c)' <=> Synced(c)
    BY <1>8, <1>9 DEF Synced
  <2>2. \A q \in Proc : (Dirty(q)' <=> Dirty(q)) /\ (Past(q)' <=> Past(q))
    BY <1>8, <1>10 DEF Dirty, Past, Active
  <2>3. ASSUME NEW q \in Proc, Past(q)' PROVE Synced(at[q])'
    <3>1. Past(q) /\ at'[q] = at[q] /\ at[q] \in Buf
      BY <1>8, <2>2, <2>3, FreeFacts DEF Past, IInv, TypeOK, PlaceInv
    <3> QED
      BY <2>1, <3>1 DEF IInv, SyncInv, Synced
  <2>4. \A c \in Buf : buf'[c].valid /\ c \notin pinned' /\ ~(\E q \in Proc : at'[q] = c /\ Dirty(q)')
          => Synced(c)'
    BY <1>8, <1>9, <2>1, <2>2 DEF IInv, SyncInv
  <2> QED
    BY <2>3, <2>4 DEF SyncInv
<1> QED
  BY <1>8, <1>12, <1>13, <1>14, <1>16, <1>17, <1>18 DEF IInv, NoDoubleFree

(* What the device does with a request: the buffer and the disk have the   *)
(* same content then, and nothing else changes.                            *)
LEMMA Transferred ==
  ASSUME IInv, NEW p \in Proc, NEW i \in Desc, NEW b \in Buf, b = at[p], i = head[p],
         pc[p] \in Active, i \in inflight, Complete(i)
  PROVE  /\ buf' \in [Buf -> Buffer] /\ platter' \in [Block -> Val]
         /\ \A c \in Buf : /\ buf'[c].blockno = buf[c].blockno /\ buf'[c].disk = buf[c].disk
                           /\ buf'[c].valid = buf[c].valid /\ buf'[c].refcnt = buf[c].refcnt
         /\ Synced(b)'
         /\ \A c \in Buf : c # b /\ buf[c].blockno \in Block => (Synced(c)' <=> Synced(c))
         /\ write[p] => buf' = buf
         /\ ~write[p] => platter' = platter /\ \A c \in Buf : c # b => buf'[c] = buf[c]
         /\ \A blk \in Block : blk # buf[b].blockno => platter'[blk] = platter[blk]
<1>1. buf \in [Buf -> Buffer] /\ platter \in [Block -> Val] /\ buf[b] \in Buffer
  BY DEF IInv, TypeOK
<1>2. PICK blk \in Block : blk = buf[b].blockno
  BY FreeFacts, DiskAssumption DEF IInv, PlaceInv, Buf
<1>3. req[i].b = b /\ req[i].write = write[p] /\ req[i].sector = blk
  <2>1. req[head[p]] = [b |-> at[p], write |-> write[p], sector |-> buf[at[p]].blockno]
    BY DEF IInv, RequestInv
  <2> QED
    BY <1>2, <2>1
<1>4. \A c \in Buf : c # b => buf[c].blockno # blk
  BY <1>2, DiskAssumption DEF IInv, OneBuffer
<1>5. CASE write[p]
  <2>1. platter' = [platter EXCEPT ![blk] = buf[b].data] /\ buf' = buf
    BY <1>3, <1>5 DEF Complete
  <2>2. buf[b].data \in Val
    BY <1>1 DEF Buffer
  <2>3. /\ platter' \in [Block -> Val] /\ platter'[blk] = buf[b].data
        /\ \A x \in Block : x # blk => platter'[x] = platter[x]
    BY <1>1, <2>1, <2>2
  <2> QED
    BY <1>1, <1>2, <1>4, <1>5, <2>1, <2>3 DEF Synced
<1>6. CASE ~write[p]
  <2>1. PICK v \in Val : v = platter[blk]
    BY <1>1
  <2>2. buf' = [buf EXCEPT ![b].data = v] /\ platter' = platter
    BY <1>3, <1>6, <2>1 DEF Complete
  <2>3. buf'[b] = [buf[b] EXCEPT !.data = v] /\ \A c \in Buf : c # b => buf'[c] = buf[c]
    BY <1>1, <2>2
  <2>4. /\ buf'[b] \in Buffer /\ buf'[b].data = v /\ buf'[b].refcnt = buf[b].refcnt
        /\ buf'[b].blockno = buf[b].blockno /\ buf'[b].valid = buf[b].valid
        /\ buf'[b].disk = buf[b].disk
    BY <1>1, <2>3 DEF Buffer
  <2>5. buf' \in [Buf -> Buffer]
    BY <1>1, <2>2, <2>3, <2>4
  <2> QED
    BY <1>1, <1>2, <1>6, <2>1, <2>2, <2>3, <2>4, <2>5 DEF Synced
<1> QED
  BY <1>5, <1>6

(* The device finishes a request.                                          *)
LEMMA CompleteIInv ==
  ASSUME IInv, NEW i \in Desc, Complete(i)
  PROVE  IInv'
<1>1. /\ i \in inflight /\ inflight' = inflight \ {i} /\ used' = Append(used, i)
      /\ UNCHANGED <<lru, lock, pinned, free, next, req, handler, pc, at, want, write, head>>
      /\ UNCHANGED panicked
  BY DEF Complete, drivervars, procvars
<1>2. PICK p \in Proc : pc[p] \in Active /\ head[p] = i
  BY <1>1 DEF Pending, IInv, RequestInv
<1>3. PICK b \in Buf : b = at[p]
  BY <1>2, FreeFacts
<1>4. /\ buf' \in [Buf -> Buffer] /\ platter' \in [Block -> Val]
      /\ \A c \in Buf : /\ buf'[c].blockno = buf[c].blockno /\ buf'[c].disk = buf[c].disk
                        /\ buf'[c].valid = buf[c].valid /\ buf'[c].refcnt = buf[c].refcnt
      /\ Synced(b)'
      /\ \A c \in Buf : c # b /\ buf[c].blockno \in Block => (Synced(c)' <=> Synced(c))
  BY <1>1, <1>2, <1>3, Transferred
<1>5. /\ used \in Seq(Desc) /\ used' \in Seq(Desc) /\ Len(used') = Len(used) + 1 /\ Len(used) \in Nat
      /\ used'[Len(used) + 1] = i /\ used' # <<>>
      /\ \A x \in 1 .. Len(used) : used'[x] = used[x]
  BY <1>1 DEF IInv, TypeOK
<1>6. TypeOK'
  BY <1>1, <1>4, <1>5 DEF IInv, TypeOK
<1>7. OneBuffer' /\ CountInv' /\ PlaceInv' /\ LockInv' /\ PinInv'
  <2>1. pc' \in [Proc -> Label]
    BY <1>1 DEF IInv, TypeOK
  <2> QED
    BY <1>1, <1>4, <2>1, DriverKeeps
<1>8. ChainInv'
  <2>1. \A x : Chain(x)' = Chain(x)
    BY <1>1 DEF Chain
  <2> QED
    BY <1>1, <2>1 DEF IInv, ChainInv
<1>9. Pending' = Pending
  <2>1. {used'[x] : x \in 1 .. Len(used')} = {used[x] : x \in 1 .. Len(used)} \cup {i}
    <3>1. \A x \in 1 .. Len(used') : x \in 1 .. Len(used) \/ x = Len(used) + 1
      BY <1>5
    <3>2. 1 .. Len(used) \subseteq 1 .. Len(used') /\ Len(used) + 1 \in 1 .. Len(used')
      BY <1>5
    <3> QED
      BY <1>5, <3>1, <3>2
  <2> QED
    BY <1>1, <2>1 DEF Pending
<1>10. RequestInv'
  <2>1. \A x \in Pending : \E q \in Proc : pc[q] \in Active /\ head[q] = x
    BY DEF IInv, RequestInv
  <2>2. ASSUME NEW q \in Proc, pc[q] \in Active
        PROVE  /\ req[head[q]] = [b |-> at[q], write |-> write[q], sector |-> buf'[at[q]].blockno]
               /\ buf'[at[q]].disk <=> head[q] \in Pending
    BY <1>4, <2>2, FreeFacts DEF IInv, RequestInv
  <2>3. \A x \in 1 .. Len(used') : x \in 1 .. Len(used) \/ x = Len(used) + 1
    BY <1>5
  <2>4. \A x \in 1 .. Len(used') : used'[x] \notin inflight'
    BY <1>1, <1>5, <2>3 DEF IInv, RequestInv
  <2>5. \A x, y \in 1 .. Len(used') : used'[x] = used'[y] => x = y
    BY <1>1, <1>5, <2>3 DEF IInv, RequestInv
  <2> QED
    BY <1>1, <1>5, <1>9, <2>1, <2>2, <2>4, <2>5 DEF RequestInv
<1>11. ValidInv'
  <2>1. \A q \in Proc : pc[q] \in Asking \cup {"have", "unpin", "done"} => at[q] \in Buf
    BY DEF IInv, TypeOK, PlaceInv, Asking
  <2>2. \A c \in pinned' : buf'[c].valid
    BY <1>1, <1>4 DEF IInv, ValidInv, TypeOK
  <2> QED
    BY <1>1, <1>4, <2>1, <2>2 DEF IInv, ValidInv
<1>12. SyncInv'
  <2>1. \A q \in Proc : q # p /\ pc[q] \in Active => head[q] # i
    BY <1>2, OneOwner
  <2>2. \A q \in Proc : q # p => (Dirty(q)' <=> Dirty(q)) /\ (Past(q)' <=> Past(q))
    BY <1>1, <2>1 DEF Dirty, Past
  <2>3. ASSUME NEW q \in Proc, Past(q)' PROVE Synced(at[q])'
    <3>1. CASE at[q] = b
      BY <1>1, <1>4, <3>1 DEF Synced
    <3>2. CASE at[q] # b
      <4>1. q # p /\ Past(q) /\ at'[q] = at[q]
        BY <1>1, <1>3, <2>2, <2>3, <3>2
      <4>2. at[q] \in Buf /\ buf[at[q]].blockno \in Block
        BY <4>1 DEF Past, Active, IInv, TypeOK, PlaceInv
      <4> QED
        BY <1>4, <3>2, <4>1, <4>2 DEF IInv, SyncInv, Synced
    <3> QED
      BY <3>1, <3>2
  <2>4. ASSUME NEW c \in Buf, buf'[c].valid, c \notin pinned',
               ~(\E q \in Proc : at'[q] = c /\ Dirty(q)')
        PROVE  Synced(c)'
    <3>1. CASE c = b
      BY <1>4, <3>1
    <3>2. CASE c # b
      <4>1. buf[c].valid /\ c \notin pinned /\ buf[c].blockno \in Block
        BY <1>1, <1>4, <2>4 DEF IInv, ValidInv
      <4>2. ~(\E q \in Proc : at[q] = c /\ Dirty(q))
        BY <1>1, <1>3, <2>2, <2>4, <3>2
      <4> QED
        BY <1>4, <3>2, <4>1, <4>2 DEF IInv, SyncInv
    <3> QED
      BY <3>1, <3>2
  <2> QED
    BY <2>3, <2>4 DEF SyncInv
<1> QED
  BY <1>1, <1>6, <1>7, <1>8, <1>10, <1>11, <1>12 DEF IInv, NoDoubleFree

---------------------------------------------------------------------------
(* The inductive invariant                                                 *)

(* binit() and virtio_disk_init() establish it.                            *)
LEMMA InitIInv == Init => IInv
<1> SUFFICES ASSUME Init PROVE IInv
  OBVIOUS
<1>1. 0 \notin Buf
  BY DEF Buf
<1>2. /\ \A b \in Buf : /\ buf[b].blockno = NoBlock /\ buf[b].valid = FALSE
                        /\ buf[b].refcnt = 0 /\ lock[b] = NoOne
      /\ \A p \in Proc : pc[p] = "idle" /\ at[p] = 0 /\ write[p] = FALSE /\ head[p] = Null
      /\ pinned = {} /\ used = <<>> /\ inflight = {} /\ handler = FALSE /\ panicked = "no"
  BY DEF Init
<1>3. TypeOK
  <2>1. buf \in [Buf -> Buffer]
    <3>1. [blockno |-> NoBlock, valid |-> FALSE, refcnt |-> 0, data |-> Blank, disk |-> FALSE] \in Buffer
      BY DiskAssumption DEF Buffer
    <3> QED
      BY <3>1 DEF Init
  <2>2. lru \in [Buf -> Buf]
    <3>1. \A i \in Buf : NBUF + 1 - i \in Buf
      BY DiskAssumption DEF Buf
    <3> QED
      BY <3>1 DEF Init
  <2>3. free \subseteq Desc
    BY DEF Init, Desc
  <2>4. req \in [Desc -> [b : Buf \cup {0}, write : BOOLEAN, sector : Block \cup {NoBlock}]]
    <3>1. NoReq \in [b : Buf \cup {0}, write : BOOLEAN, sector : Block \cup {NoBlock}]
      BY DEF NoReq
    <3> QED
      BY <3>1 DEF Init
  <2>5. used \in Seq(Desc)
    BY <1>2
  <2>6. platter \in [Block -> Val]
    BY DiskAssumption DEF Init
  <2>7. /\ lock \in [Buf -> Proc \cup {NoOne}] /\ pc \in [Proc -> Label]
        /\ at \in [Proc -> Buf \cup {0}]
        /\ want \in [Proc -> {"read", "write", "log", "install"}] /\ write \in [Proc -> BOOLEAN]
        /\ head \in [Proc -> Desc \cup {Null}] /\ next \in [Desc -> Desc \cup {Null}]
    BY DEF Init, Label
  <2> QED
    BY <1>2, <2>1, <2>2, <2>3, <2>4, <2>5, <2>6, <2>7 DEF TypeOK
<1>4. OneBuffer /\ PlaceInv /\ PinInv /\ NoDoubleFree
  BY <1>2 DEF OneBuffer, PlaceInv, PinInv, NoDoubleFree, Asking
<1>5. LockInv
  BY <1>2, DiskAssumption DEF LockInv, Locked
<1>6. ValidInv /\ ChainInv /\ SyncInv
  BY <1>2 DEF ValidInv, ChainInv, SyncInv, Past, Asking, Active
<1>7. CountInv
  <2>1. \A b \in Buf : Refs(b) = {}
    BY <1>1, <1>2 DEF Refs
  <2> QED
    BY <1>2, <2>1, FS_EmptySet DEF CountInv
<1>8. RequestInv
  <2>1. Len(used) = 0
    BY <1>2
  <2>2. 1 .. Len(used) = {}
    BY <2>1
  <2> QED
    BY <1>2, <2>2 DEF RequestInv, Pending, Active
<1> QED
  BY <1>3, <1>4, <1>5, <1>6, <1>7, <1>8 DEF IInv

(* Every step keeps it.                                                    *)
LEMMA NextIInv == IInv /\ [Next]_vars => IInv'
<1> SUFFICES ASSUME IInv, [Next]_vars PROVE IInv'
  OBVIOUS
<1>1. ASSUME NEW p \in Proc, Step(p) PROVE IInv'
  <2>1. CASE Awake(p)
    BY <2>1, AwakeIInv, WokenIInv
  <2>2. CASE \E v \in Writes : LogWrite(p, v) \/ Bwrite(p, v)
    BY <2>2, LogWriteIInv, BwriteIInv
  <2> QED
    BY <1>1, <2>1, <2>2, LockIInv, InstallIInv, BunpinIInv, BrelseIInv, BrelseDropIInv,
       SubmitIInv, SubmitWaitsIInv DEF Step
<1>2. ASSUME NEW u \in Uses, Bget(u[1], u[2], u[3]) PROVE IInv'
  BY <1>2, BgetIInv
<1>3. ASSUME NEW p \in Victims, Kill(p) PROVE IInv'
  BY <1>3, WokenIInv, DiskAssumption
<1>4. CASE Device
  BY <1>4, CompleteIInv DEF Device
<1>5. CASE Intr
  BY <1>5, IntrAckIInv, IntrEntryIInv DEF Intr
<1>6. CASE UNCHANGED vars
  <2>1. /\ UNCHANGED <<cachevars, drivervars, used, devicevars, at, want, write, head, panicked>>
        /\ pc' = pc /\ handler' = handler
    BY <1>6 DEF vars, procvars, ringvars
  <2>2. pc' \in [Proc -> Label] /\ (handler' => used # <<>>)
    BY <2>1 DEF IInv, TypeOK, RequestInv
  <2> QED
    BY <2>1, <2>2, WaitingIInv
<1> QED
  BY <1>1, <1>2, <1>3, <1>4, <1>5, <1>6 DEF Next

(* References and pins are counted, a block has one buffer and a chain of  *)
(* descriptors one request, b->disk and info[] follow the device, and what *)
(* is not to be written is on the disk.                                    *)
THEOREM Invariance == Spec => []IInv
<1>1. Init => IInv
  BY InitIInv
<1>2. IInv /\ [Next]_vars => IInv'
  BY NextIInv
<1> QED
  BY <1>1, <1>2, PTL DEF Spec

(* free_desc()'s panics on a free descriptor are unreachable: free_chain() *)
(* frees the three descriptors of its own request, once.                   *)
THEOREM DescriptorsFreedOnce == Spec => []NoDoubleFree
<1>1. IInv => NoDoubleFree
  BY DEF IInv
<1> QED
  BY <1>1, Invariance, PTL

(* bget() never puts a block in two buffers.                               *)
THEOREM CachedOnce == Spec => []OneBuffer
<1>1. IInv => OneBuffer
  BY DEF IInv
<1> QED
  BY <1>1, Invariance, PTL

---------------------------------------------------------------------------
(* The refinement                                                          *)

(* The content of a block is its valid buffer's, otherwise the disk's.     *)
ContentIs ==
  \A blk \in Block :
    /\ \A b \in Buf : buf[b].blockno = blk /\ buf[b].valid => Content(blk) = buf[b].data
    /\ (\A b \in Buf : buf[b].blockno = blk => ~buf[b].valid) => Content(blk) = platter[blk]

(* So it is in every state that is reached: a block has one buffer.        *)
LEMMA ContentFacts == IInv => ContentIs
<1> SUFFICES ASSUME IInv, NEW blk \in Block
             PROVE  /\ \A b \in Buf : buf[b].blockno = blk /\ buf[b].valid => Content(blk) = buf[b].data
                    /\ (\A b \in Buf : buf[b].blockno = blk => ~buf[b].valid)
                         => Content(blk) = platter[blk]
  BY DEF ContentIs
<1> DEFINE V == {b \in Cached(blk) : buf[b].valid}
<1>1. Content(blk) = IF V = {} THEN platter[blk] ELSE buf[CHOOSE b \in V : TRUE].data
  BY DEF Content
<1>2. \A b : b \in V <=> b \in Buf /\ buf[b].blockno = blk /\ buf[b].valid
  BY DEF Cached
<1>3. \A b \in V : V = {b}
  BY <1>2, DiskAssumption DEF IInv, OneBuffer
<1> HIDE DEF V
<1>4. ASSUME NEW b \in V PROVE Content(blk) = buf[b].data
  <2>1. (CHOOSE c \in V : TRUE) \in V
    BY <1>4
  <2>2. (CHOOSE c \in V : TRUE) = b
    BY <1>3, <2>1
  <2> QED
    BY <1>1, <1>4, <2>2
<1>5. (\A b : b \notin V) => Content(blk) = platter[blk]
  BY <1>1
<1> QED
  BY <1>2, <1>4, <1>5

(* ... after a step as well.                                               *)
LEMMA ContentFactsAfter == IInv' => ContentIs'
BY ContentFacts, PTL

(* A process that has a block is the only one.                             *)
LEMMA OneHas ==
  ASSUME IInv, NEW p \in Proc, NEW q \in Proc, NEW blk \in Block, Has(p, blk),
         pc[q] \in Locked, at[q] \in Buf, buf[at[q]].blockno = blk
  PROVE  p = q
<1>1. at[p] \in Buf /\ buf[at[p]].blockno = blk /\ pc[p] \in Locked
  BY DEF Has, IInv, TypeOK, Locked
<1>2. at[p] = at[q]
  BY <1>1, DiskAssumption DEF IInv, OneBuffer
<1> QED
  BY <1>1, <1>2, OneHolder

SameContent == \A blk \in Block : Content(blk)' = Content(blk)
SameHolders == \A q \in Proc, blk \in Block : Has(q, blk)' <=> Has(q, blk)

(* A step that BlockStore does not see                                     *)
LEMMA SilentStep ==
  ASSUME SameContent, SameHolders
  PROVE  UNCHANGED Blocks!vars
<1>1. \A blk \in Block : {q \in Proc : Has(q, blk)'} = {q \in Proc : Has(q, blk)}
  BY DEF SameHolders
<1>2. Holders' = Holders
  BY <1>1 DEF Holders
<1>3. Contents' = Contents
  BY DEF Contents, SameContent
<1> QED
  BY <1>2, <1>3 DEF Blocks!vars

(* A step after which one block has other holders                          *)
LEMMA HoldersAfter ==
  ASSUME NEW blk \in Block, NEW S, NEW T,
         \A q \in Proc : Has(q, blk) <=> q \in S, \A q \in Proc : Has(q, blk)' <=> q \in T,
         S \subseteq Proc, T \subseteq Proc,
         \A q \in Proc, x \in Block : x # blk => (Has(q, x)' <=> Has(q, x))
  PROVE  Holders[blk] = S /\ Holders' = [Holders EXCEPT ![blk] = T]
<1>1. \A x \in Block : {q \in Proc : Has(q, x)'} = IF x = blk THEN T ELSE {q \in Proc : Has(q, x)}
  OBVIOUS
<1>2. Holders' = [x \in Block |-> IF x = blk THEN T ELSE {q \in Proc : Has(q, x)}]
  BY <1>1 DEF Holders
<1>3. {q \in Proc : Has(q, blk)} = S
  OBVIOUS
<1> QED
  BY <1>2, <1>3 DEF Holders

(* A step by which a process gets a block that nobody has                  *)
LEMMA AcquireStep ==
  ASSUME SameContent, NEW p \in Proc, NEW blk \in Block, \A q \in Proc : ~Has(q, blk),
         \A q \in Proc, x \in Block : Has(q, x)' <=> Has(q, x) \/ (q = p /\ x = blk)
  PROVE  Blocks!Next
<1>1. Holders[blk] = {} /\ Holders' = [Holders EXCEPT ![blk] = {p}]
  <2> DEFINE S == {}
             T == {p}
  <2>1. /\ S \subseteq Proc /\ T \subseteq Proc /\ S = {} /\ T = {p}
        /\ \A q \in Proc : (Has(q, blk) <=> q \in S) /\ (Has(q, blk)' <=> q \in T)
        /\ \A q \in Proc, x \in Block : x # blk => (Has(q, x)' <=> Has(q, x))
    OBVIOUS
  <2> HIDE DEF S, T
  <2>2. Holders[blk] = S /\ Holders' = [Holders EXCEPT ![blk] = T]
    BY <2>1, HoldersAfter
  <2> QED
    BY <2>1, <2>2
<1>2. Contents' = Contents
  BY DEF Contents, SameContent
<1> QED
  BY <1>1, <1>2 DEF Blocks!Next, Blocks!Acquire

(* A step by which the holder of a block gives it back                     *)
LEMMA ReleaseStep ==
  ASSUME SameContent, NEW p \in Proc, NEW blk \in Block, \A q \in Proc : Has(q, blk) <=> q = p,
         \A q \in Proc, x \in Block : Has(q, x)' <=> Has(q, x) /\ ~(q = p /\ x = blk)
  PROVE  Blocks!Next
<1>1. Holders[blk] = {p} /\ Holders' = [Holders EXCEPT ![blk] = {}]
  <2> DEFINE S == {p}
             T == {}
  <2>1. /\ S \subseteq Proc /\ T \subseteq Proc /\ S = {p} /\ T = {}
        /\ \A q \in Proc : (Has(q, blk) <=> q \in S) /\ (Has(q, blk)' <=> q \in T)
        /\ \A q \in Proc, x \in Block : x # blk => (Has(q, x)' <=> Has(q, x))
    OBVIOUS
  <2> HIDE DEF S, T
  <2>2. Holders[blk] = S /\ Holders' = [Holders EXCEPT ![blk] = T]
    BY <2>1, HoldersAfter
  <2> QED
    BY <2>1, <2>2
<1>2. Contents' = Contents
  BY DEF Contents, SameContent
<1> QED
  BY <1>1, <1>2 DEF Blocks!Next, Blocks!Release

(* A step by which the holder of a block changes its content               *)
LEMMA ChangeStep ==
  ASSUME SameHolders, NEW p \in Proc, NEW blk \in Block, NEW v \in Val,
         \A q \in Proc : Has(q, blk) <=> q = p,
         \A x \in Block : Content(x)' = IF x = blk THEN v ELSE Content(x)
  PROVE  Blocks!Next
<1>1. Holders[blk] = {p} /\ Holders' = [Holders EXCEPT ![blk] = {p}]
  <2> DEFINE S == {p}
             T == {p}
  <2>1. /\ S \subseteq Proc /\ T \subseteq Proc /\ S = {p} /\ T = {p}
        /\ \A q \in Proc : (Has(q, blk) <=> q \in S) /\ (Has(q, blk)' <=> q \in T)
        /\ \A q \in Proc, x \in Block : x # blk => (Has(q, x)' <=> Has(q, x))
    BY DEF SameHolders
  <2> HIDE DEF S, T
  <2>2. Holders[blk] = S /\ Holders' = [Holders EXCEPT ![blk] = T]
    BY <2>1, HoldersAfter
  <2> QED
    BY <2>1, <2>2
<1>2. Holders' = Holders
  BY <1>1 DEF Holders
<1>3. Contents' = [Contents EXCEPT ![blk] = v]
  <2>1. Contents' = [x \in Block |-> IF x = blk THEN v ELSE Content(x)]
    BY DEF Contents
  <2> QED
    BY <2>1 DEF Contents
<1> QED
  BY <1>1, <1>2, <1>3 DEF Blocks!Next, Blocks!Change

(* Where a process has a block                                             *)
Holding(q) == pc[q] \in {"have", "unpin", "done"} \/ (write[q] /\ pc[q] \in Asking)

SameData ==
  /\ platter' = platter
  /\ \A b \in Buf : /\ buf'[b].blockno = buf[b].blockno /\ buf'[b].valid = buf[b].valid
                    /\ buf'[b].data = buf[b].data

(* Blocks are kept by the buffers that processes refer to.                 *)
LEMMA HoldersKept ==
  ASSUME IInv, \A q \in Proc : (Holding(q)' <=> Holding(q)) /\ (Holding(q) => at'[q] = at[q]),
         \A q \in Proc : at[q] \in Buf => buf'[at[q]].blockno = buf[at[q]].blockno
  PROVE  SameHolders
<1>1. SUFFICES ASSUME NEW q \in Proc, NEW blk \in Block
               PROVE  Has(q, blk)' <=> Has(q, blk)
  BY DEF SameHolders
<1>2. Has(q, blk) <=> at[q] # 0 /\ buf[at[q]].blockno = blk /\ Holding(q)
  BY DEF Has, Holding, Asking
<1>3. Has(q, blk)' <=> at'[q] # 0 /\ buf'[at'[q]].blockno = blk /\ Holding(q)'
  BY DEF Has, Holding, Asking
<1>4. at[q] \in Buf \cup {0}
  BY DEF IInv, TypeOK
<1> QED
  BY <1>2, <1>3, <1>4

(* A step that changes neither buffers nor disk, nor who holds what        *)
LEMMA QuietStep ==
  ASSUME IInv, IInv', SameData,
         \A q \in Proc : (Holding(q)' <=> Holding(q)) /\ (Holding(q) => at'[q] = at[q])
  PROVE  UNCHANGED Blocks!vars
<1>1. SameContent
  BY ContentFacts, ContentFactsAfter DEF ContentIs, SameData, SameContent
<1>2. SameHolders
  BY HoldersKept DEF SameData
<1> QED
  BY <1>1, <1>2, SilentStep

(* Silent steps of the buffer cache                                        *)
LEMMA CacheSilent ==
  ASSUME IInv, IInv', NEW p \in Proc,
         Install(p) \/ Bunpin(p) \/ BrelseDrop(p) \/ (Lock(p) /\ ~buf[at[p]].valid)
  PROVE  UNCHANGED Blocks!vars
<1>1. SameData
  <2>1. CASE Install(p) \/ Lock(p)
    BY <2>1 DEF Install, Lock, cachevars, devicevars, SameData
  <2>2. CASE Bunpin(p) \/ BrelseDrop(p)
    <3>1. platter' = platter /\ buf' = [buf EXCEPT ![at[p]].refcnt = @ - 1]
      BY <2>2 DEF Bunpin, BrelseDrop, devicevars
    <3>2. buf \in [Buf -> Buffer]
      BY DEF IInv, TypeOK
    <3>3. \A b \in Buf : buf'[b] = IF b = at[p] THEN [buf[b] EXCEPT !.refcnt = buf[b].refcnt - 1] ELSE buf[b]
      BY <3>1, <3>2
    <3>4. ASSUME NEW b \in Buf
          PROVE  /\ buf'[b].blockno = buf[b].blockno /\ buf'[b].valid = buf[b].valid
                 /\ buf'[b].data = buf[b].data
      <4>1. buf[b] \in Buffer
        BY <3>2
      <4> QED
        BY <3>3, <4>1 DEF Buffer
    <3> QED
      BY <3>1, <3>4 DEF SameData
  <2> QED
    BY <2>1, <2>2
<1>2. /\ pc \in [Proc -> Label] /\ at \in [Proc -> Buf \cup {0}] /\ write \in [Proc -> BOOLEAN]
      /\ pc[p] = "lock" => ~write[p]
  BY DEF IInv, TypeOK, PlaceInv
<1>3. \A q \in Proc : q # p => pc'[q] = pc[q] /\ at'[q] = at[q] /\ write'[q] = write[q]
  BY <1>2 DEF Install, Bunpin, BrelseDrop, Lock, Goto
<1>4. (Holding(p)' <=> Holding(p)) /\ (Holding(p) => at'[p] = at[p])
  BY <1>2 DEF Install, Bunpin, BrelseDrop, Lock, Goto, Holding, Asking
<1>5. \A q \in Proc : (Holding(q)' <=> Holding(q)) /\ (Holding(q) => at'[q] = at[q])
  BY <1>3, <1>4 DEF Holding
<1> QED
  BY <1>1, <1>5, QuietStep

(* Silent steps of the driver and its handler                              *)
LEMMA DriverSilent ==
  ASSUME IInv, IInv', UNCHANGED <<at, write, platter>>, pc' \in [Proc -> Label],
         buf' = buf \/ \E b \in Buf, d \in BOOLEAN : buf' = [buf EXCEPT ![b].disk = d],
         \A q \in Proc : pc'[q] = pc[q] \/ (pc[q] \in Asking /\ pc'[q] \in Asking)
  PROVE  UNCHANGED Blocks!vars
<1>1. SameData
  BY FlagUpdated DEF SameData, IInv
<1>2. \A q \in Proc : (Holding(q)' <=> Holding(q)) /\ (Holding(q) => at'[q] = at[q])
  BY DEF Holding, Asking
<1> QED
  BY <1>1, <1>2, QuietStep

(* ... which are these                                                     *)
LEMMA DriverSteps ==
  ASSUME IInv, IInv',
         \/ \E p \in Proc : Submit(p) \/ SubmitWaits(p) \/ Kill(p) \/ (Awake(p) /\ buf[at[p]].disk)
         \/ IntrAck \/ IntrEntry
  PROVE  UNCHANGED Blocks!vars
<1>1. pc \in [Proc -> Label] /\ pc' \in [Proc -> Label]
  BY DEF IInv, TypeOK
<1>2. ASSUME NEW p \in Proc, Submit(p) PROVE UNCHANGED Blocks!vars
  <2>1. PICK b \in Buf : b = at[p]
    BY <1>2 DEF Submit, IInv, TypeOK, PlaceInv
  <2>2. buf' = [buf EXCEPT ![b].disk = TRUE] /\ UNCHANGED <<at, write, platter>>
    BY <1>2, <2>1 DEF Submit
  <2>3. \A q \in Proc : pc'[q] = pc[q] \/ (pc[q] \in Asking /\ pc'[q] \in Asking)
    BY <1>1, <1>2 DEF Submit, Goto, Asking
  <2> QED
    BY <1>1, <2>2, <2>3, DriverSilent
<1>3. ASSUME NEW p \in Proc, SubmitWaits(p) \/ Kill(p) \/ (Awake(p) /\ buf[at[p]].disk)
      PROVE  UNCHANGED Blocks!vars
  <2>1. UNCHANGED <<buf, at, write, platter>>
    BY <1>3 DEF SubmitWaits, Kill, Awake, cachevars, devicevars
  <2>2. \A q \in Proc : pc'[q] = pc[q] \/ (pc[q] \in Asking /\ pc'[q] \in Asking)
    BY <1>1, <1>3 DEF SubmitWaits, Kill, Awake, Goto, WakeWaiters, Asking
  <2> QED
    BY <1>1, <2>1, <2>2, DriverSilent
<1>4. CASE IntrAck
  <2>1. UNCHANGED <<buf, pc, at, write, platter>>
    BY <1>4 DEF IntrAck, cachevars, devicevars, procvars
  <2> QED
    BY <1>1, <2>1, DriverSilent
<1>5. CASE IntrEntry
  <2>1. UNCHANGED <<at, write, platter>>
    BY <1>5 DEF IntrEntry, devicevars
  <2>2. \A q \in Proc : pc'[q] = pc[q] \/ (pc[q] \in Asking /\ pc'[q] \in Asking)
    BY <1>1, <1>5 DEF IntrEntry, Asking
  <2>3. PICK b \in Buf \cup {0} : b = req[Head(used)].b
    <3>1. used \in Seq(Desc) /\ used # <<>>
      BY <1>5 DEF IntrEntry, IInv, TypeOK, RequestInv
    <3> QED
      BY <3>1 DEF IInv, TypeOK
  <2>4. buf' = [buf EXCEPT ![b].disk = FALSE]
    BY <1>5, <2>3 DEF IntrEntry
  <2>5. b \notin Buf => buf' = buf
    BY <2>4 DEF IInv, TypeOK
  <2> QED
    BY <1>1, <2>1, <2>2, <2>4, <2>5, DriverSilent
<1> QED
  BY <1>2, <1>3, <1>4, <1>5

(* bget() is silent: a buffer that is recycled has what the disk has.      *)
LEMMA BgetRefines ==
  ASSUME IInv, IInv', NEW u \in Uses, Bget(u[1], u[2], u[3])
  PROVE  UNCHANGED Blocks!vars
<1> DEFINE p == u[1]
           blk == u[2]
           w == u[3]
<1>1. p \in Proc /\ blk \in Block
  BY DiskAssumption
<1>2. Bget(p, blk, w)
  OBVIOUS
<1> HIDE DEF p, blk, w
<1>3. pc[p] = "idle" /\ ~write[p] /\ write' = write /\ platter' = platter /\ pinned' = pinned
  BY <1>1, <1>2 DEF Bget, devicevars, IInv, PlaceInv
<1>4. \/ pc' = [pc EXCEPT ![p] = "lock"] /\ \E b : at' = [at EXCEPT ![p] = b]
      \/ pc' = pc /\ at' = at
  BY <1>2 DEF Bget, Goto
<1>5. \A q \in Proc : (Holding(q)' <=> Holding(q)) /\ (Holding(q) => at'[q] = at[q])
  BY <1>1, <1>3, <1>4 DEF Holding, Asking, IInv, TypeOK
<1>6. CASE \E b \in Cached(blk) : buf' = [buf EXCEPT ![b].refcnt = @ + 1]
  <2>1. PICK b \in Buf : buf' = [buf EXCEPT ![b].refcnt = buf[b].refcnt + 1]
    BY <1>6 DEF Cached
  <2> DEFINE n == buf[b].refcnt + 1
  <2>2. n \in Nat /\ TypeOK /\ buf' = [buf EXCEPT ![b].refcnt = n]
    BY <2>1 DEF IInv, TypeOK, Buffer
  <2> HIDE DEF n
  <2>3. SameBuffers
    BY <2>2, RefUpdated
  <2>4. SameData
    BY <1>3, <2>3 DEF SameBuffers, SameData
  <2> QED
    BY <1>5, <2>4, QuietStep
<1>7. CASE Cached(blk) = {} /\ \E i \in Unreferenced : Recycle(lru[i], blk)
  <2>1. PICK b \in Buf : buf[b].refcnt = 0 /\ Recycle(b, blk)
    BY <1>7 DEF Unreferenced, IInv, TypeOK
  <2>2. b \notin pinned /\ \A q \in Proc : at[q] # b
    BY <2>1, Nobodys
  <2>3. buf \in [Buf -> Buffer] /\ buf[b] \in Buffer
    BY DEF IInv, TypeOK
  <2>4. /\ buf'[b].blockno = blk /\ ~buf'[b].valid
        /\ \A c \in Buf : c # b => buf'[c] = buf[c]
    <3>1. buf' = [buf EXCEPT ![b] = [buf[b] EXCEPT !.blockno = blk, !.valid = FALSE, !.refcnt = 1]]
      BY <2>1, <2>3 DEF Recycle
    <3>2. /\ buf'[b] = [buf[b] EXCEPT !.blockno = blk, !.valid = FALSE, !.refcnt = 1]
          /\ \A c \in Buf : c # b => buf'[c] = buf[c]
      BY <2>3, <3>1
    <3> QED
      BY <2>3, <3>2 DEF Buffer
  <2>5. buf[b].valid => Synced(b)
    BY <2>2 DEF IInv, SyncInv
  <2>6. \A c \in Buf : buf[c].blockno # blk
    BY <1>7 DEF Cached
  <2>7. ContentIs /\ ContentIs'
    BY ContentFacts, ContentFactsAfter
  <2>8. SameContent
    <3>1. SUFFICES ASSUME NEW x \in Block PROVE Content(x)' = Content(x)
      BY DEF SameContent
    <3>2. CASE \E c \in Buf : c # b /\ buf[c].blockno = x /\ buf[c].valid
      BY <2>4, <2>7, <3>2 DEF ContentIs
    <3>3. CASE \A c \in Buf : c # b /\ buf[c].blockno = x => ~buf[c].valid
      <4>1. Content(x) = platter[x]
        BY <2>5, <2>7, <3>3 DEF ContentIs, Synced
      <4>2. \A c \in Buf : buf'[c].blockno = x => ~buf'[c].valid
        BY <2>4, <3>3
      <4>3. Content(x)' = platter'[x]
        BY <2>7, <4>2 DEF ContentIs
      <4> QED
        BY <1>3, <4>1, <4>3
    <3> QED
      BY <3>2, <3>3
  <2>9. SameHolders
    BY <1>5, <2>2, <2>4, HoldersKept
  <2> QED
    BY <2>8, <2>9, SilentStep
<1>8. CASE buf' = buf
  <2>1. SameData
    BY <1>3, <1>8 DEF SameData
  <2> QED
    BY <1>5, <2>1, QuietStep
<1> QED
  BY <1>2, <1>6, <1>7, <1>8 DEF Bget

(* acquiresleep() of a valid buffer is Acquire.                            *)
LEMMA LockRefines ==
  ASSUME IInv, IInv', NEW p \in Proc, Lock(p), buf[at[p]].valid
  PROVE  Blocks!Next
<1>1. /\ pc[p] = "lock" /\ lock[at[p]] = NoOne /\ pc' = [pc EXCEPT ![p] = "have"]
      /\ UNCHANGED <<buf, at, write, platter>>
  BY DEF Lock, Goto, devicevars
<1>2. at[p] \in Buf /\ at[p] # 0
  BY <1>1 DEF IInv, TypeOK, PlaceInv, Buf
<1>3. PICK blk \in Block : blk = buf[at[p]].blockno
  BY <1>2 DEF IInv, PlaceInv
<1>4. \A q \in Proc : ~Has(q, blk)
  <2>1. SUFFICES ASSUME NEW q \in Proc, Has(q, blk) PROVE FALSE
    OBVIOUS
  <2>2. at[q] \in Buf /\ buf[at[q]].blockno = blk /\ pc[q] \in Locked
    BY <2>1 DEF Has, IInv, TypeOK, Locked
  <2>3. at[q] = at[p]
    BY <1>2, <1>3, <2>2, DiskAssumption DEF IInv, OneBuffer
  <2> QED
    BY <1>1, <1>2, <2>2, <2>3, DiskAssumption DEF IInv, LockInv
<1>5. /\ pc'[p] = "have" /\ \A q \in Proc : q # p => pc'[q] = pc[q]
  BY <1>1 DEF IInv, TypeOK
<1>6. \A q \in Proc, x \in Block : Has(q, x)' <=> Has(q, x) \/ (q = p /\ x = blk)
  BY <1>1, <1>2, <1>3, <1>4, <1>5 DEF Has
<1>7. SameContent
  BY <1>1, ContentFacts, ContentFactsAfter DEF ContentIs, SameContent
<1> QED
  BY <1>4, <1>6, <1>7, AcquireStep

(* The end of a read is Acquire, the end of a write is silent.             *)
LEMMA AwakeRefines ==
  ASSUME IInv, IInv', NEW p \in Proc, Awake(p), ~buf[at[p]].disk
  PROVE  Blocks!Next \/ UNCHANGED Blocks!vars
<1>1. /\ pc[p] = "awake" /\ pc[p] \in Active
      /\ UNCHANGED <<at, want, write, platter>>
  BY DEF Awake, Active, devicevars
<1>2. PICK b \in Buf : b = at[p]
  BY <1>1, FreeFacts
<1>3. /\ buf' = [buf EXCEPT ![b].valid = TRUE]
      /\ pc' = [q \in Proc |-> IF q = p THEN Finished(p)
                               ELSE IF pc[q] = "nodesc" THEN "request" ELSE pc[q]]
  BY <1>2 DEF Awake, WakeWaiters
<1>4. /\ buf'[b].valid
      /\ \A c \in Buf : buf'[c].blockno = buf[c].blockno /\ buf'[c].data = buf[c].data
      /\ \A c \in Buf : c # b => buf'[c] = buf[c]
  BY <1>3, FlagUpdated DEF IInv
<1>5. PICK blk \in Block : blk = buf[b].blockno
  BY <1>1, <1>2 DEF IInv, PlaceInv, Active
<1>6. Synced(b)
  <2>1. head[p] \notin Pending
    BY <1>1 DEF IInv, RequestInv
  <2> QED
    BY <1>1, <1>2, <2>1 DEF Pending, Past, IInv, SyncInv
<1>7. SameContent
  <2>1. SUFFICES ASSUME NEW x \in Block PROVE Content(x)' = Content(x)
    BY DEF SameContent
  <2>2. ContentIs /\ ContentIs'
    BY ContentFacts, ContentFactsAfter
  <2>3. CASE x = blk
    <3>1. Content(x)' = buf[b].data
      BY <1>4, <1>5, <2>2, <2>3 DEF ContentIs
    <3>2. CASE buf[b].valid
      BY <1>5, <2>2, <2>3, <3>1, <3>2 DEF ContentIs
    <3>3. CASE ~buf[b].valid
      <4>1. \A c \in Buf : buf[c].blockno = x => c = b
        BY <1>5, <2>3, DiskAssumption DEF IInv, OneBuffer
      <4>2. Content(x) = platter[x]
        BY <2>2, <3>3, <4>1 DEF ContentIs
      <4> QED
        BY <1>5, <1>6, <2>3, <3>1, <4>2 DEF Synced
    <3> QED
      BY <3>2, <3>3
  <2>4. CASE x # blk
    <3>1. \A c \in Buf : buf[c].blockno = x => c # b
      BY <1>5, <2>4
    <3>2. \A c \in Buf : buf[c].blockno = x => buf'[c] = buf[c]
      BY <1>4, <3>1
    <3>3. \A c \in Buf : buf'[c].blockno = x <=> buf[c].blockno = x
      BY <1>4
    <3>4. CASE \E c \in Buf : buf[c].blockno = x /\ buf[c].valid
      BY <2>2, <3>2, <3>4 DEF ContentIs
    <3>5. CASE \A c \in Buf : buf[c].blockno = x => ~buf[c].valid
      <4>1. \A c \in Buf : buf'[c].blockno = x => ~buf'[c].valid
        BY <3>2, <3>3, <3>5
      <4> QED
        BY <1>1, <2>2, <3>5, <4>1 DEF ContentIs
    <3> QED
      BY <3>4, <3>5
  <2> QED
    BY <2>3, <2>4
<1>8. pc'[p] = Finished(p) /\ \A q \in Proc : q # p => (Holding(q)' <=> Holding(q))
  BY <1>1, <1>3 DEF Holding, Asking
<1>9. CASE write[p]
  <2>1. Holding(p) /\ Holding(p)'
    BY <1>1, <1>8, <1>9 DEF Holding, Asking, Finished
  <2>2. \A q \in Proc : (Holding(q)' <=> Holding(q)) /\ (Holding(q) => at'[q] = at[q])
    BY <1>1, <1>8, <2>1
  <2>3. SameHolders
    BY <1>4, <2>2, HoldersKept
  <2> QED
    BY <1>7, <2>3, SilentStep
<1>10. CASE ~write[p]
  <2>1. ~Holding(p) /\ Holding(p)'
    BY <1>1, <1>8, <1>10 DEF Holding, Asking, Finished
  <2>2. \A x : \A q \in Proc : Has(q, x) <=> at[q] # 0 /\ buf[at[q]].blockno = x /\ Holding(q)
    BY DEF Has, Holding, Asking
  <2>3. \A x : \A q \in Proc : Has(q, x)' <=> at'[q] # 0 /\ buf'[at'[q]].blockno = x /\ Holding(q)'
    BY DEF Has, Holding, Asking
  <2>4. \A q \in Proc : at'[q] = at[q] /\ (at[q] # 0 => buf'[at[q]].blockno = buf[at[q]].blockno)
    BY <1>1, <1>4 DEF IInv, TypeOK
  <2>5. \A q \in Proc : ~Has(q, blk)
    <3>1. \A q \in Proc : Has(q, blk) => q = p
      BY <1>1, <1>2, <1>5, OneHas DEF Active, Locked
    <3> QED
      BY <2>1, <2>2, <3>1
  <2>6. at[p] # 0
    BY <1>2 DEF Buf
  <2>7. \A q \in Proc, x \in Block : Has(q, x)' <=> Has(q, x) \/ (q = p /\ x = blk)
    BY <1>2, <1>5, <1>8, <2>1, <2>2, <2>3, <2>4, <2>6
  <2> QED
    BY <1>7, <2>5, <2>7, AcquireStep
<1> QED
  BY <1>9, <1>10

(* A process between bread() and brelse() is its block's only holder.      *)
LEMMA HolderFacts ==
  ASSUME IInv, NEW p \in Proc, pc[p] \in {"have", "done"}
  PROVE  /\ at[p] \in Buf /\ buf[at[p]].valid /\ buf[at[p]].blockno \in Block
         /\ \A q \in Proc : Has(q, buf[at[p]].blockno) <=> q = p
<1>1. /\ at[p] \in Buf /\ at[p] # 0 /\ buf[at[p]].valid /\ buf[at[p]].blockno \in Block
      /\ pc[p] \in Locked
  BY DEF IInv, TypeOK, PlaceInv, ValidInv, Buf, Locked
<1>2. \A q \in Proc : Has(q, buf[at[p]].blockno) => q = p
  BY <1>1, OneHas
<1>3. Has(p, buf[at[p]].blockno)
  BY <1>1 DEF Has
<1> QED
  BY <1>1, <1>2, <1>3

(* brelse() is Release.                                                    *)
LEMMA BrelseRefines ==
  ASSUME IInv, IInv', NEW p \in Proc, Brelse(p)
  PROVE  Blocks!Next
<1>1. /\ pc[p] \in {"have", "done"} /\ pc' = [pc EXCEPT ![p] = "drop"]
      /\ UNCHANGED <<buf, at, write, platter>>
  BY DEF Brelse, Goto, devicevars
<1>2. PICK blk \in Block : blk = buf[at[p]].blockno
  BY <1>1, HolderFacts
<1>3. \A q \in Proc : Has(q, blk) <=> q = p
  BY <1>1, <1>2, HolderFacts
<1>4. pc'[p] = "drop" /\ \A q \in Proc : q # p => pc'[q] = pc[q]
  BY <1>1 DEF IInv, TypeOK
<1>5. \A q \in Proc, x \in Block : Has(q, x)' <=> Has(q, x) /\ ~(q = p /\ x = blk)
  BY <1>1, <1>2, <1>4 DEF Has
<1>6. SameContent
  BY <1>1, ContentFacts, ContentFactsAfter DEF ContentIs, SameContent
<1> QED
  BY <1>3, <1>5, <1>6, ReleaseStep

(* A change of the data, to be logged or written, is Change.               *)
LEMMA WriteRefines ==
  ASSUME IInv, IInv', NEW p \in Proc, NEW v \in Writes, LogWrite(p, v) \/ Bwrite(p, v)
  PROVE  Blocks!Next
<1>1. pc[p] = "have" /\ UNCHANGED <<at, platter>>
  BY DEF LogWrite, Bwrite, devicevars
<1>2. PICK b \in Buf, blk \in Block : b = at[p] /\ blk = buf[b].blockno
  BY <1>1, HolderFacts
<1>3. buf[b].valid /\ v \in Val /\ \A q \in Proc : Has(q, blk) <=> q = p
  BY <1>1, <1>2, HolderFacts, DiskAssumption
<1>4. /\ buf'[b].data = v
      /\ \A c \in Buf : buf'[c].blockno = buf[c].blockno /\ buf'[c].valid = buf[c].valid
      /\ \A c \in Buf : c # b => buf'[c] = buf[c]
  <2>1. buf \in [Buf -> Buffer] /\ buf[b] \in Buffer
    BY DEF IInv, TypeOK
  <2>2. /\ \A c \in Buf : c # b => buf'[c] = buf[c]
        /\ buf'[b].data = v /\ buf'[b].blockno = buf[b].blockno /\ buf'[b].valid = buf[b].valid
    <3>1. CASE LogWrite(p, v)
      <4> DEFINE n == IF b \in pinned THEN buf[b].refcnt ELSE buf[b].refcnt + 1
      <4>1. buf' = [buf EXCEPT ![b].data = v, ![b].refcnt = n]
        BY <1>2, <3>1 DEF LogWrite
      <4>2. n \in Nat /\ TypeOK
        BY <2>1 DEF Buffer, IInv
      <4> HIDE DEF n
      <4> QED
        BY <1>3, <4>1, <4>2, DataUpdated
    <3>2. CASE Bwrite(p, v)
      <4>1. buf' = [buf EXCEPT ![b].data = v]
        BY <1>2, <3>2 DEF Bwrite
      <4>2. buf'[b] = [buf[b] EXCEPT !.data = v] /\ \A c \in Buf : c # b => buf'[c] = buf[c]
        BY <2>1, <4>1
      <4> QED
        BY <2>1, <4>2 DEF Buffer
    <3> QED
      BY <3>1, <3>2
  <2> QED
    BY <2>2
<1>5. \A x \in Block : Content(x)' = IF x = blk THEN v ELSE Content(x)
  <2>1. ContentIs /\ ContentIs'
    BY ContentFacts, ContentFactsAfter
  <2>2. Content(blk)' = v
    BY <1>2, <1>3, <1>4, <2>1 DEF ContentIs
  <2>3. ASSUME NEW x \in Block, x # blk PROVE Content(x)' = Content(x)
    <3>1. \A c \in Buf : buf[c].blockno = x => buf'[c] = buf[c]
      BY <1>2, <1>4, <2>3
    <3>2. CASE \E c \in Buf : buf[c].blockno = x /\ buf[c].valid
      BY <2>1, <3>1, <3>2 DEF ContentIs
    <3>3. CASE \A c \in Buf : buf[c].blockno = x => ~buf[c].valid
      BY <1>1, <1>4, <2>1, <3>3 DEF ContentIs
    <3> QED
      BY <3>2, <3>3
  <2> QED
    BY <2>2, <2>3
<1>6. SameHolders
  <2>1. /\ pc \in [Proc -> Label] /\ write \in [Proc -> BOOLEAN]
    BY DEF IInv, TypeOK
  <2>2. \A q \in Proc : q # p => pc'[q] = pc[q] /\ write'[q] = write[q]
    BY <2>1 DEF LogWrite, Bwrite, Goto
  <2>3. Holding(p) /\ Holding(p)'
    BY <1>1, <2>1 DEF LogWrite, Bwrite, Goto, Holding, Asking
  <2>4. \A q \in Proc : (Holding(q)' <=> Holding(q)) /\ (Holding(q) => at'[q] = at[q])
    BY <1>1, <2>2, <2>3 DEF Holding
  <2> QED
    BY <1>4, <2>4, HoldersKept
<1> QED
  BY <1>3, <1>5, <1>6, ChangeStep

(* The device is silent: it writes what a valid buffer has, and reads into *)
(* a buffer that is not valid yet.                                         *)
LEMMA CompleteRefines ==
  ASSUME IInv, IInv', NEW i \in Desc, Complete(i)
  PROVE  UNCHANGED Blocks!vars
<1>1. i \in inflight /\ UNCHANGED <<pc, at, write>>
  BY DEF Complete, procvars
<1>2. PICK p \in Proc : pc[p] \in Active /\ head[p] = i
  BY <1>1 DEF Pending, IInv, RequestInv
<1>3. PICK b \in Buf : b = at[p]
  BY <1>2, FreeFacts
<1>4. /\ \A c \in Buf : buf'[c].blockno = buf[c].blockno /\ buf'[c].valid = buf[c].valid
      /\ write[p] => buf' = buf
      /\ ~write[p] => platter' = platter /\ \A c \in Buf : c # b => buf'[c] = buf[c]
      /\ \A blk \in Block : blk # buf[b].blockno => platter'[blk] = platter[blk]
  BY <1>1, <1>2, <1>3, Transferred
<1>5. buf[b].valid <=> write[p]
  BY <1>2, <1>3 DEF IInv, ValidInv, Active, Asking
<1>6. SameContent
  <2>1. SUFFICES ASSUME NEW x \in Block PROVE Content(x)' = Content(x)
    BY DEF SameContent
  <2>2. ContentIs /\ ContentIs'
    BY ContentFacts, ContentFactsAfter
  <2>3. CASE \E c \in Buf : buf[c].blockno = x /\ buf[c].valid
    <3>1. PICK c \in Buf : buf[c].blockno = x /\ buf[c].valid
      BY <2>3
    <3>2. buf'[c].data = buf[c].data
      BY <1>4, <1>5, <3>1
    <3>3. Content(x) = buf[c].data
      BY <2>2, <3>1 DEF ContentIs
    <3>4. Content(x)' = buf'[c].data
      BY <1>4, <2>2, <3>1 DEF ContentIs
    <3> QED
      BY <3>2, <3>3, <3>4
  <2>4. CASE \A c \in Buf : buf[c].blockno = x => ~buf[c].valid
    <3>1. platter'[x] = platter[x]
      BY <1>4, <1>5, <2>4
    <3> QED
      BY <1>4, <2>2, <2>4, <3>1 DEF ContentIs
  <2> QED
    BY <2>3, <2>4
<1>7. SameHolders
  <2>1. \A q \in Proc : (Holding(q)' <=> Holding(q)) /\ (Holding(q) => at'[q] = at[q])
    BY <1>1 DEF Holding
  <2> QED
    BY <1>4, <2>1, HoldersKept
<1> QED
  BY <1>6, <1>7, SilentStep

(* bread(), bwrite() and brelse() over the buffer cache, the driver and    *)
(* the device that finishes requests in any order implement BlockStore.    *)
THEOREM Refinement == Spec => ImplementsBlocks
<1>1. Init => Blocks!Init
  <2> SUFFICES ASSUME Init PROVE Blocks!Init
    OBVIOUS
  <2>1. \A b \in Buf : ~buf[b].valid
    BY DEF Init
  <2>2. ContentIs
    BY InitIInv, ContentFacts
  <2>3. \A blk \in Block : Content(blk) = Blank
    BY <2>1, <2>2 DEF ContentIs, Init
  <2>4. \A blk \in Block : {q \in Proc : Has(q, blk)} = {}
    BY DEF Has, Init
  <2> QED
    BY <2>3, <2>4 DEF Blocks!Init, Contents, Holders
<1>2. IInv /\ IInv' /\ [Next]_vars => [Blocks!Next]_(Blocks!vars)
  <2> SUFFICES ASSUME IInv, IInv', [Next]_vars PROVE [Blocks!Next]_(Blocks!vars)
    OBVIOUS
  <2>1. ASSUME NEW p \in Proc, Step(p) PROVE [Blocks!Next]_(Blocks!vars)
    <3>1. CASE Lock(p) \/ Install(p) \/ Bunpin(p) \/ BrelseDrop(p)
      BY <3>1, LockRefines, CacheSilent
    <3>2. CASE Brelse(p) \/ \E v \in Writes : LogWrite(p, v) \/ Bwrite(p, v)
      BY <3>2, BrelseRefines, WriteRefines
    <3>3. CASE Submit(p) \/ SubmitWaits(p)
      BY <3>3, DriverSteps
    <3>4. CASE Awake(p)
      BY <3>4, AwakeRefines, DriverSteps
    <3> QED
      BY <2>1, <3>1, <3>2, <3>3, <3>4 DEF Step
  <2>2. ASSUME NEW u \in Uses, Bget(u[1], u[2], u[3]) PROVE [Blocks!Next]_(Blocks!vars)
    BY <2>2, BgetRefines
  <2>3. ASSUME NEW p \in Victims, Kill(p) PROVE [Blocks!Next]_(Blocks!vars)
    BY <2>3, DriverSteps, DiskAssumption
  <2>4. CASE Device
    BY <2>4, CompleteRefines DEF Device
  <2>5. CASE Intr
    BY <2>5, DriverSteps DEF Intr
  <2>6. CASE UNCHANGED vars
    <3>1. UNCHANGED <<buf, pc, at, write, platter>>
      BY <2>6 DEF vars, cachevars, procvars, devicevars
    <3>2. SameData /\ \A q \in Proc : Holding(q)' <=> Holding(q)
      BY <3>1 DEF SameData, Holding
    <3> QED
      BY <3>1, <3>2, QuietStep
  <2> QED
    BY <2>1, <2>2, <2>3, <2>4, <2>5, <2>6 DEF Next
<1> QED
  BY <1>1, <1>2, Invariance, PTL DEF Spec, ImplementsBlocks, Blocks!Spec
=============================================================================
