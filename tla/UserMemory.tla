----------------------------- MODULE UserMemory -----------------------------
(***************************************************************************)
(* User memory and the per-process quota: growproc(), sys_sbrk(),          *)
(* sys_setquota(), vmfault(), and what fork(), exec() and freeproc() do to *)
(* page frames (kernel/proc.c, sysproc.c, vm.c, exec.c).                   *)
(*                                                                         *)
(* A page table is touched by its own process only, or by whoever holds    *)
(* the lock of an entry that does not run, so a system call is one step.   *)
(* What processes share is the pool of frames: other calls in progress may *)
(* have emptied it for a while, so kalloc() may fail at any page.  Frames  *)
(* for the inner nodes of a page table are not counted; mappages() failing *)
(* for want of one has the effect of kalloc() failing at that page.        *)
(***************************************************************************)
EXTENDS Naturals, FiniteSets

CONSTANTS
  Slot,       \* entries of the process table
  initproc,   \* the one that runs first
  Frame,      \* physical pages
  PGSIZE,     \* bytes in a page
  MAXPAGES,   \* pages below TRAPFRAME
  USERSTACK,  \* pages of a user stack
  Quotas,     \* the arguments of setquota()
  SbrkSizes,  \* the numbers of bytes sbrk() is asked for
  ImageSizes, \* the sizes of the programs exec() loads
  Null        \* no frame

ASSUME MemAssumption ==
  /\ initproc \in Slot
  /\ PGSIZE \in Nat \ {0} /\ MAXPAGES \in Nat \ {0} /\ USERSTACK \in Nat \ {0}
  /\ Quotas \subseteq Nat /\ SbrkSizes \subseteq Nat \ {0} /\ ImageSizes \subseteq Nat \ {0}
  /\ Null \notin Frame

Page == 0 .. MAXPAGES - 1
TRAPFRAME == MAXPAGES * PGSIZE

VARIABLES
  free,      \* kmem.freelist
  used,      \* the entries that are not UNUSED
  trapframe, \* p->trapframe
  root,      \* p->pagetable: its root frame ...
  pt,        \* ... and its user mappings
  sz,        \* p->sz
  mem_quota, \* p->mem_quota
  capped,    \* history: p set the quota when within it, and keeps its image
  lazy,      \* history: p has called sbrk() with SBRK_LAZY
  panicked   \* "mappages: remap" or "freewalk: leaf"

memvars == <<free, used, trapframe, root, pt, sz, mem_quota, capped, lazy, panicked>>

PGROUNDUP(n) == ((n + PGSIZE - 1) \div PGSIZE) * PGSIZE

Pages(n) == PGROUNDUP(n) \div PGSIZE

Mapped(t) == {i \in Page : t[i] # Null}

NoPages == [i \in Page |-> Null]

---------------------------------------------------------------------------
(* Operations on a page table and the pool: m = [t |-> table, free |-> pool] *)

(* Mutant: kalloc() leaves the frames on the free list. *)
StickyMapPages(m, pages, g) ==
  [t |-> [i \in Page |-> IF i \in pages THEN g[i] ELSE m.t[i]], free |-> m.free]

(* kalloc() and mappages() for the given pages. *)
MapPages(m, pages, g) ==
  [t |-> [i \in Page |-> IF i \in pages THEN g[i] ELSE m.t[i]],
   free |-> m.free \ {g[i] : i \in pages}]

(* The ways kalloc() may serve these pages from the pool. *)
Placements(pages, pool) ==
  {g \in [pages -> pool] : \A i, j \in pages : g[i] = g[j] => i = j}

(* uvmunmap() of the pages from .. to - 1, with do_free. *)
uvmunmap(m, from, to) ==
  [t |-> [i \in Page |-> IF from <= i /\ i < to THEN Null ELSE m.t[i]],
   free |-> m.free \cup {m.t[i] : i \in {j \in Mapped(m.t) : from <= j /\ j < to}}]

uvmdealloc(m, oldsz, newsz) ==
  IF newsz >= oldsz THEN m ELSE uvmunmap(m, Pages(newsz), Pages(oldsz))

(* The pages uvmalloc()'s loop goes through. *)
Grown(oldsz, newsz) == {i \in Page : PGROUNDUP(oldsz) <= i * PGSIZE /\ i * PGSIZE < newsz}

(* The outcomes of uvmalloc(): all of the pages, or a failure at page k    *)
(* and what was mapped below it taken back.                                *)
uvmalloc(m, oldsz, newsz) ==
  LET pages == Grown(oldsz, newsz) IN
  {[ok |-> TRUE, m |-> MapPages(m, pages, g)] : g \in Placements(pages, m.free)}
  \cup
  UNION {LET below == {i \in pages : i < k} IN
         {[ok |-> FALSE,
           m |-> uvmdealloc(MapPages(m, below, g), k * PGSIZE, PGROUNDUP(oldsz))] :
             g \in Placements(below, m.free)} : k \in pages}

(* mappages() panics on a page that is mapped already. *)
Remap(m, oldsz, newsz) == Grown(oldsz, newsz) \cap Mapped(m.t) # {}

(* Mutant: the last, partial page is forgotten. *)
ShortUvmfree(m, size) == uvmunmap(m, 0, size \div PGSIZE)

(* uvmfree(): the user pages; freewalk() then panics if a leaf is left. *)
uvmfree(m, size) == uvmunmap(m, 0, Pages(size))

---------------------------------------------------------------------------
MemInit ==
  /\ used = {initproc}
  /\ \E f, g \in Frame :
       /\ f # g
       /\ trapframe = [p \in Slot |-> IF p = initproc THEN f ELSE Null]
       /\ root = [p \in Slot |-> IF p = initproc THEN g ELSE Null]
       /\ free = Frame \ {f, g}
  /\ pt = [p \in Slot |-> NoPages]
  /\ sz = [p \in Slot |-> 0]
  /\ mem_quota = [p \in Slot |-> 0]
  /\ capped = [p \in Slot |-> FALSE]
  /\ lazy = [p \in Slot |-> FALSE]
  /\ panicked = FALSE

Mem(p) == [t |-> pt[p], free |-> free]

SetMem(p, m) == pt' = [pt EXCEPT ![p] = m.t] /\ free' = m.free

(* sys_setquota(): nothing is taken from a process above its new quota. *)
SetQuota(p, q) ==
  /\ mem_quota' = [mem_quota EXCEPT ![p] = q]
  /\ capped' = [capped EXCEPT ![p] = q > 0 /\ Pages(sz[p]) <= q]
  /\ UNCHANGED <<free, used, trapframe, root, pt, sz, lazy, panicked>>

(* Mutant: the quota is compared with the size before the call. *)
LateAllows(p, n) == mem_quota[p] = 0 \/ Pages(sz[p]) <= mem_quota[p]

(* growproc()'s test of the quota. *)
QuotaAllows(p, n) == mem_quota[p] = 0 \/ Pages(sz[p] + n) <= mem_quota[p]

(* sys_sbrk(n, SBRK_EAGER), n > 0. *)
SbrkEager(p, n) ==
  /\ sz[p] + n <= TRAPFRAME
  /\ QuotaAllows(p, n)
  /\ panicked' = Remap(Mem(p), sz[p], sz[p] + n)
  /\ \E r \in uvmalloc(Mem(p), sz[p], sz[p] + n) :
       /\ SetMem(p, r.m)
       /\ sz' = IF r.ok THEN [sz EXCEPT ![p] = @ + n] ELSE sz
  /\ UNCHANGED <<used, trapframe, root, mem_quota, capped, lazy>>

(* sys_sbrk(n, SBRK_LAZY): the size alone; growproc() is not asked. *)
SbrkLazy(p, n) ==
  /\ sz[p] + n <= TRAPFRAME
  /\ sz' = [sz EXCEPT ![p] = @ + n]
  /\ lazy' = [lazy EXCEPT ![p] = TRUE]
  /\ UNCHANGED <<free, used, trapframe, root, pt, mem_quota, capped, panicked>>

(* sys_sbrk(-n): sz - n wraps around below 0, and uvmdealloc() then does   *)
(* nothing and succeeds.                                                   *)
SbrkShrink(p, n) ==
  /\ n <= sz[p]
  /\ SetMem(p, uvmdealloc(Mem(p), sz[p], sz[p] - n))
  /\ sz' = [sz EXCEPT ![p] = @ - n]
  /\ UNCHANGED <<used, trapframe, root, mem_quota, capped, lazy, panicked>>

(* vmfault(): a page below the size that has no frame yet. *)
VmFault(p) ==
  /\ \E i \in Page \ Mapped(pt[p]), f \in free :
       /\ i * PGSIZE < sz[p]
       /\ SetMem(p, MapPages(Mem(p), {i}, [j \in {i} |-> f]))
  /\ UNCHANGED <<used, trapframe, root, sz, mem_quota, capped, lazy, panicked>>

---------------------------------------------------------------------------
(* kfork() *)

(* allocproc()'s two frames. *)
TwoFrames == {fg \in free \X free : fg[1] # fg[2]}

(* uvmcopy() has the child's pages in place. *)
Fork(p) ==
  \E np \in Slot \ used, fg \in TwoFrames :
    LET pages == {i \in Mapped(pt[p]) : i * PGSIZE < sz[p]}
        m == [t |-> NoPages, free |-> free \ {fg[1], fg[2]}]
    IN /\ \E g \in Placements(pages, m.free) : SetMem(np, MapPages(m, pages, g))
       /\ used' = used \cup {np}
       /\ trapframe' = [trapframe EXCEPT ![np] = fg[1]]
       /\ root' = [root EXCEPT ![np] = fg[2]]
       /\ sz' = [sz EXCEPT ![np] = sz[p]]
       /\ mem_quota' = [mem_quota EXCEPT ![np] = mem_quota[p]]
       /\ capped' = [capped EXCEPT ![np] = capped[p]]
       /\ lazy' = [lazy EXCEPT ![np] = lazy[p]]
       /\ UNCHANGED panicked

(* uvmcopy()'s error path, for a failure at page k. *)
CopyUndo(m, k) == uvmunmap(m, 0, k)

(* uvmcopy() fails at page k: its error path, then freeproc() of the child,*)
(* whose size is still 0.                                                  *)
ForkFails(p) ==
  \E np \in Slot \ used, fg \in TwoFrames :
    LET pages == {i \in Mapped(pt[p]) : i * PGSIZE < sz[p]}
        m == [t |-> NoPages, free |-> free \ {fg[1], fg[2]}]
    IN \E k \in pages :
       \E g \in Placements({i \in pages : i < k}, m.free) :
       LET u == uvmfree(CopyUndo(MapPages(m, {i \in pages : i < k}, g), k), 0)
       IN /\ free' = u.free \cup {fg[1], fg[2]}
          /\ panicked' = (Mapped(u.t) # {})
          /\ UNCHANGED <<used, trapframe, root, pt, sz, mem_quota, capped, lazy>>

(* freeproc() *)
FreeProc(p) ==
  /\ p # initproc
  /\ LET u == uvmfree(Mem(p), sz[p]) IN
       /\ free' = u.free \cup {trapframe[p], root[p]}
       /\ panicked' = (Mapped(u.t) # {})
  /\ used' = used \ {p}
  /\ trapframe' = [trapframe EXCEPT ![p] = Null]
  /\ root' = [root EXCEPT ![p] = Null]
  /\ pt' = [pt EXCEPT ![p] = NoPages]
  /\ sz' = [sz EXCEPT ![p] = 0]
  /\ mem_quota' = [mem_quota EXCEPT ![p] = 0]
  /\ capped' = [capped EXCEPT ![p] = FALSE]
  /\ lazy' = [lazy EXCEPT ![p] = FALSE]

---------------------------------------------------------------------------
(* kexec() *)

(* The size of an image with its stack and the stack's guard page. *)
Image(s) == PGROUNDUP(s) + (USERSTACK + 1) * PGSIZE

(* There is far less RAM than there are addresses: kalloc() fails long     *)
(* before an image comes near TRAPFRAME.                                   *)
ASSUME ImageAssumption == \A s \in ImageSizes : Image(s) <= TRAPFRAME

(* Building a new table in root frame f: the program, then the stack.      *)
(* An outcome is the table, the pool and the size so far.                  *)
Built(f, s) ==
  LET m == [t |-> NoPages, free |-> free \ {f}] IN
  UNION {IF ~r.ok THEN {[ok |-> FALSE, m |-> r.m, sz |-> 0]}
         ELSE {[ok |-> q.ok, m |-> q.m, sz |-> IF q.ok THEN Image(s) ELSE PGROUNDUP(s)] :
                 q \in uvmalloc(r.m, PGROUNDUP(s), Image(s))} :
           r \in uvmalloc(m, 0, s)}

(* The new image takes the place of the old one, which is freed. *)
Exec(p, s) ==
  /\ \E f \in free : \E b \in Built(f, s) :
       LET old == uvmfree([t |-> pt[p], free |-> b.m.free], sz[p]) IN
       /\ b.ok
       /\ pt' = [pt EXCEPT ![p] = b.m.t]
       /\ free' = old.free \cup {root[p]}
       /\ panicked' = (Mapped(old.t) # {})
       /\ root' = [root EXCEPT ![p] = f]
       /\ sz' = [sz EXCEPT ![p] = b.sz]
  /\ capped' = [capped EXCEPT ![p] = FALSE]
  /\ lazy' = [lazy EXCEPT ![p] = FALSE]
  /\ UNCHANGED <<used, trapframe, mem_quota>>

(* goto bad: no frame for the program or the stack, a segment that cannot  *)
(* be read or arguments that do not fit.  The process keeps its old image. *)
ExecBad(p, s) ==
  /\ \E f \in free : \E b \in Built(f, s) :
       LET new == uvmfree(b.m, b.sz) IN
       /\ free' = new.free \cup {f}
       /\ panicked' = (Mapped(new.t) # {})
  /\ UNCHANGED <<used, trapframe, root, pt, sz, mem_quota, capped, lazy>>

---------------------------------------------------------------------------
Step(p) ==
  \/ \E q \in Quotas : SetQuota(p, q)
  \/ \E n \in SbrkSizes : SbrkEager(p, n) \/ SbrkLazy(p, n) \/ SbrkShrink(p, n)
  \/ VmFault(p)
  \/ Fork(p) \/ ForkFails(p) \/ FreeProc(p)
  \/ \E s \in ImageSizes : Exec(p, s) \/ ExecBad(p, s)

MemNext == ~panicked /\ \E p \in used : Step(p)

MemSpec == MemInit /\ [][MemNext]_memvars

---------------------------------------------------------------------------
MemTypeOK ==
  /\ free \subseteq Frame
  /\ used \subseteq Slot
  /\ trapframe \in [Slot -> Frame \cup {Null}]
  /\ root \in [Slot -> Frame \cup {Null}]
  /\ pt \in [Slot -> [Page -> Frame \cup {Null}]]
  /\ sz \in [Slot -> 0 .. TRAPFRAME]
  /\ mem_quota \in [Slot -> Quotas \cup {0}]
  /\ capped \in [Slot -> BOOLEAN]
  /\ lazy \in [Slot -> BOOLEAN]
  /\ panicked \in BOOLEAN

(* The frames an entry holds. *)
Held(p) == ({trapframe[p], root[p]} \cup {pt[p][i] : i \in Page}) \ {Null}

(* kalloc(), kfree(): no frame is free and in use, none serves two         *)
(* purposes: nobody reads or writes another process's memory.              *)
NoSharing ==
  \A p \in Slot :
    /\ Held(p) \cap free = {}
    /\ \A q \in Slot \ {p} : Held(p) \cap Held(q) = {}
    /\ trapframe[p] # Null => trapframe[p] # root[p]
    /\ \A i \in Mapped(pt[p]) :
         /\ pt[p][i] \notin {trapframe[p], root[p]}
         /\ \A j \in Mapped(pt[p]) : pt[p][i] = pt[p][j] => i = j

(* uvmalloc(), uvmcopy(), kexec(): whichever step of a call fails, no      *)
(* frame is lost.                                                          *)
NoLeak == Frame \subseteq free \cup UNION {Held(p) : p \in Slot}

(* uvmalloc(), uvmdealloc(), vmfault(): a process maps nothing past its    *)
(* size, rounded up; an UNUSED entry nothing at all.  This is why          *)
(* freewalk() and mappages() never panic.                                  *)
WithinSize ==
  \A p \in Slot : /\ \A i \in Mapped(pt[p]) : i < Pages(sz[p])
                  /\ p \notin used => sz[p] = 0 /\ trapframe[p] = Null /\ root[p] = Null

(* allocproc(): an entry in use has a trapframe and a page table, so what  *)
(* freeproc() and exec() give back are frames.                             *)
UsedHasFrames == \A p \in used : trapframe[p] # Null /\ root[p] # Null

(* "mappages: remap", "freewalk: leaf" *)
NoPanic == ~panicked

(* growproc()'s quota test: a process that was within its quota when it    *)
(* set it, or that inherited it, stays within it while it keeps its image  *)
(* and grows with SBRK_EAGER only, whatever it shrinks, forks or fails at. *)
EagerWithinQuota ==
  \A p \in used : capped[p] /\ ~lazy[p] => Pages(sz[p]) <= mem_quota[p]

(* A quota of 0 is no quota.                                               *)
CappedHasQuota == \A p \in Slot : capped[p] => mem_quota[p] > 0

(* The inductive invariant. *)
MemIInv ==
  /\ MemTypeOK /\ NoSharing /\ NoLeak /\ WithinSize /\ UsedHasFrames
  /\ NoPanic /\ CappedHasQuota /\ EagerWithinQuota

(* sys_setquota(): "cap the calling process's resident heap": the same for *)
(* the resident pages of every such process, lazy or not.                  *)
ResidentWithinQuota ==
  \A p \in used : capped[p] => Cardinality(Mapped(pt[p])) <= mem_quota[p]
=============================================================================
