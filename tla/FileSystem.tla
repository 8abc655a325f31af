----------------------------- MODULE FileSystem -----------------------------
(***************************************************************************)
(* Inodes, directories, the block bitmap (kernel/fs.c), the file table     *)
(* (kernel/file.c) and the system calls on them (kernel/sysfile.c), with   *)
(* what kfork() and kexit() (kernel/proc.c) do to open files.              *)
(*                                                                         *)
(* A step ends where a process has to wait for an inode's lock or goes     *)
(* through itable.lock again.  What a process does under one inode's lock  *)
(* is one step when nobody else can see it in between.  disk is the file   *)
(* system as bread() shows it, durable what the log has committed: a group *)
(* of transactions, when the last of them ends.                            *)
(***************************************************************************)
EXTENDS Integers, FiniteSets, SequencesExt

CONSTANTS
  Proc,       \* processes
  First,      \* the process that exists at first
  NINODES,    \* inodes on the disk
  FSSIZE,     \* data blocks of the disk
  Names,      \* file names
  Requests,   \* the calls that are made: <<call, path>>, a path being
              \* [abs |-> BOOLEAN, elems |-> sequence of names]
  Nested,     \* the directories there may be at first: sequences of names
  NewPaths,   \* the new names link() is called with
  Modes,      \* modes of open(): among "rdonly", "wronly" and "trunc"
  NFILE,      \* entries of ftable
  NOFILE,     \* descriptors of a process
  NINODE,     \* entries of itable
  NDIRECT, NINDIRECT,
  MAXCALLS    \* bound: system calls in a behaviour, close() and exit() not counted

ROOTINO == 1
Inum == 1 .. NINODES
Block == 1 .. FSSIZE
File == 1 .. NFILE
Fd == 1 .. NOFILE
None == 0
NoProc == "nobody"
MAXFILE == NDIRECT + NINDIRECT
DirNames == Names \cup {".", ".."}
Path == [abs : BOOLEAN, elems : Seq(DirNames)]

(* Where a call goes on when namei() or nameiparent() has found its inode. *)
Stage == [open |-> "open", creat |-> "create", mkdir |-> "create", mknod |-> "create",
          unlink |-> "unlink", link |-> "link1", chdir |-> "chdir"]

ASSUME FsAssumption ==
  /\ First \in Proc /\ NoProc \notin Proc /\ IsFiniteSet(Proc)
  /\ {".", ".."} \cap Names = {} /\ IsFiniteSet(Names)
  /\ {NINODES, FSSIZE, NINODE, NDIRECT} \subseteq Nat \ {0}
  /\ {NFILE, NOFILE, NINDIRECT, MAXCALLS} \subseteq Nat
  /\ \A r \in Requests : r[1] \in DOMAIN Stage /\ r[2] \in Path
  /\ \A new \in NewPaths : new \in Path
  /\ \A dirs \in Nested : dirs \in Seq(Names) /\ Len(dirs) < NINODES /\ Len(dirs) < FSSIZE

VARIABLES
  disk,     \* [ino, dir, used, ind]: dinodes, entries, bitmap, indirect blocks
  durable,  \* the same as committed
  mem,      \* itable: [ref, valid, c] for each inode number, c the copy of its dinode
  lock,     \* holder of each inode's sleep lock
  file,     \* ftable: [ref, ip, off, writable]
  ofile,    \* p->ofile
  cwd,      \* p->cwd
  alive,    \* processes that exist
  op,       \* the call each process is in; its up is history: the inode was found
            \* by the ".." of a removed directory
  puts,     \* inodes it still has to iput(), with TRUE for iunlockput()
  freeing,  \* how far iput() is in freeing the first of them
  out,      \* processes between begin_op() and end_op()
  boot,     \* the inode ireclaim() looks at next, or None when it is done
  panic,    \* the message the kernel has stopped with
  stray,    \* history: an entry was made in a directory that had been removed, or
            \* link() found, by a stale "..", an inode that create() is making
  calls     \* system calls so far

vars == <<disk, durable, mem, lock, file, ofile, cwd, alive, op, puts, freeing,
          out, boot, panic, stray, calls>>
procvars == <<ofile, cwd, alive>>

Zero == [type |-> "free", nlink |-> 0, size |-> 0, addrs |-> [n \in 0 .. NDIRECT |-> 0]]
NoEntries == [n \in DirNames |-> None]
Absent == [ref |-> 0, valid |-> FALSE, c |-> Zero]
Idle == [call |-> "none", pc |-> "idle", then |-> "idle", path |-> <<>>, ip |-> None, tgt |-> None,
         up |-> FALSE]
NoFile == [ref |-> 0, ip |-> None, off |-> 0, writable |-> FALSE]

(* A disk of zeroes. *)
Blank ==
  [ino  |-> [i \in Inum |-> Zero],
   dir  |-> [i \in Inum |-> NoEntries],
   used |-> {},
   ind  |-> [b \in Block |-> [n \in 0 .. NINDIRECT - 1 |-> 0]]]

(* mkfs: ialloc(), and iappend() of an entry to a directory, which has its
   block from freeblock, the blocks in use so far.                         *)
MkInode(D, i, type) == [D EXCEPT !.ino[i] = [Zero EXCEPT !.type = type, !.nlink = 1]]
iappend(D, dp, name, i) ==
  LET b == IF D.ino[dp].addrs[0] = 0 THEN Cardinality(D.used) + 1 ELSE D.ino[dp].addrs[0] IN
  [D EXCEPT !.dir[dp][name] = i, !.ino[dp].addrs[0] = b, !.used = @ \cup {b}]

(* main() of mkfs, without a file; the size of the root is rounded up to a
   block in the end.                                                       *)
Image ==
  LET root == MkInode(Blank, ROOTINO, "dir") IN
  [iappend(iappend(root, ROOTINO, ".", ROOTINO), ROOTINO, "..", ROOTINO) EXCEPT !.ino[ROOTINO].size = 1]

---------------------------------------------------------------------------
(* Blocks and the contents of inodes.  D is a disk, c a copy of an inode.  *)

(* bzero(): a block comes without old pointers in it. *)
bzero(D, b) == [D EXCEPT !.ind[b] = [n \in 0 .. NINDIRECT - 1 |-> 0]]

(* balloc(): the first free block, or None. *)
Unused(D) == IF Block \subseteq D.used THEN None ELSE Min(Block \ D.used)
balloc(D) == IF Unused(D) = None THEN D
             ELSE bzero([D EXCEPT !.used = @ \cup {Unused(D)}], Unused(D))

(* bmap(): the block of c's nth block, allocated if need be, and what changed. *)
bmapDirect(D, c, bn) ==
  IF c.addrs[bn] # None THEN [addr |-> c.addrs[bn], D |-> D, c |-> c]
  ELSE [addr |-> Unused(D), D |-> balloc(D), c |-> [c EXCEPT !.addrs[bn] = Unused(D)]]

bmapEntry(D, c, k) ==
  LET a == c.addrs[NDIRECT] IN
  IF a = None THEN [addr |-> None, D |-> D, c |-> c]
  ELSE IF D.ind[a][k] # None THEN [addr |-> D.ind[a][k], D |-> D, c |-> c]
  ELSE [addr |-> Unused(D), D |-> [balloc(D) EXCEPT !.ind[a][k] = Unused(D)], c |-> c]

bmap(D, c, bn) ==
  IF bn < NDIRECT THEN bmapDirect(D, c, bn)
  ELSE LET i == bmapDirect(D, c, NDIRECT) IN bmapEntry(i.D, i.c, bn - NDIRECT)

(* The blocks that c's pointers lead to. *)
Reached(D, c) ==
  {c.addrs[n] : n \in 0 .. NDIRECT} \cup
  (IF c.addrs[NDIRECT] = None THEN {} ELSE {D.ind[c.addrs[NDIRECT]][k] : k \in 0 .. NINDIRECT - 1})

BlocksOf(D, c) == Reached(D, c) \ {None}

(* bfree() of b panics when b is free. *)
bfree(D, S) == [D EXCEPT !.used = @ \ S]

(* Mutant: the blocks behind the indirect block are not freed. *)
TruncDirect(D, i, c) ==
  [bfree(D, {c.addrs[n] : n \in 0 .. NDIRECT}) EXCEPT
    !.ino[i] = [c EXCEPT !.size = 0, !.addrs = Zero.addrs], !.dir[i] = NoEntries]

(* itrunc() of inode i with the copy c, and its iupdate(). *)
itrunc(D, i, c) ==
  [bfree(D, BlocksOf(D, c)) EXCEPT
    !.ino[i] = [c EXCEPT !.size = 0, !.addrs = Zero.addrs], !.dir[i] = NoEntries]

(* iupdate() *)
iupdate(D, i, c) == [D EXCEPT !.ino[i] = c]

(* writei() of the block at off; copied is what either_copyin() says.  The
   inode is written back also when one of the two failed, for bmap() may have
   allocated blocks.                                                       *)
writei(D, i, c, off, copied) ==
  IF off > c.size \/ off >= MAXFILE THEN [ok |-> FALSE, D |-> D, c |-> c]
  ELSE LET m == bmap(D, c, off)
           ok == m.addr # None /\ copied
           n == IF ~ok THEN m.c ELSE [m.c EXCEPT !.size = IF off + 1 > @ THEN off + 1 ELSE @]
       IN  [ok |-> ok, D |-> iupdate(m.D, i, n), c |-> n]

(* dirlookup(): None, also for a directory that has been truncated. *)
dirlookup(D, i, name) == D.dir[i][name]

(* dirlink(): fails if the name is there or no block can be had for it.  All
   of a directory's entries fit in its first block.                        *)
dirlink(D, i, c, name, inum) ==
  IF dirlookup(D, i, name) # None THEN [ok |-> FALSE, D |-> D, c |-> c]
  ELSE LET w == writei(D, i, c, 0, TRUE) IN
       IF w.ok THEN [w EXCEPT !.D.dir[i][name] = inum] ELSE w

(* isdirempty() *)
isdirempty(D, i) == \A n \in Names : dirlookup(D, i, n) = None

---------------------------------------------------------------------------
(* The inode table.                                                        *)

(* iget() and idup() on the table m. *)
iget(m, i) ==
  [m EXCEPT ![i] = IF m[i].ref > 0 THEN [m[i] EXCEPT !.ref = @ + 1] ELSE [Absent EXCEPT !.ref = 1]]

Fits(i) == mem[i].ref > 0 \/ Cardinality({j \in Inum : mem[j].ref > 0}) < NINODE

(* What ilock() shows of the inode: it reads the disk unless the copy is valid. *)
Copy(i) == IF mem[i].valid THEN mem[i].c ELSE disk.ino[i]

(* ilock() returns: the lock is free and the inode has a type. *)
ilock(i) == lock[i] = NoProc /\ Copy(i).type # "free"

(* The table with i's copy valid and equal to c. *)
Known(m, i, c) == [m EXCEPT ![i].valid = TRUE, ![i].c = c]

At(p, l) == panic = "no" /\ boot = None /\ puts[p] = <<>> /\ op[p].pc = l

(* end_op() is next, and nothing else of the call is needed any more. *)
Ending(o) == [Idle EXCEPT !.pc = "end", !.call = IF o.call = "exit" THEN "exit" ELSE "none"]

Goto(p, l) == op' = [op EXCEPT ![p] = IF l = "end" THEN Ending(@) ELSE [@ EXCEPT !.pc = l]]

(* Left to do: iput() of each inode of s, then on at label l. *)
Put(i) == [i |-> i, unlock |-> FALSE]
UnlockPut(i) == [i |-> i, unlock |-> TRUE]
PutAll(p, s, l) == puts' = [puts EXCEPT ![p] = s] /\ Goto(p, l)

(* The inode whose lock p needs next, None if it needs none. *)
LockTarget(p) ==
  IF puts[p] # <<>> \/ (op[p].pc = "walk" /\ op[p].path = <<>>) THEN None
  ELSE IF op[p].pc \in {"walk", "create", "unlink", "open", "link1", "link2", "chdir"} THEN op[p].ip
  ELSE IF op[p].pc \in {"exists", "fill", "unlink2", "linkbad"} THEN op[p].tgt
  ELSE None

(* ilock() of an inode that is free on the disk. *)
IlockPanic(p) ==
  /\ panic = "no"
  /\ LockTarget(p) # None
  /\ lock[LockTarget(p)] = NoProc
  /\ Copy(LockTarget(p)).type = "free"
  /\ panic' = "ilock: no type"
  /\ UNCHANGED <<disk, durable, mem, lock, file, procvars, op, puts, freeing, out, boot, stray, calls>>

(* An entry of itable with a reference less. *)
Unref(e) == IF e.ref = 1 THEN Absent ELSE [e EXCEPT !.ref = @ - 1]

(* iput(): the last reference to an inode without links frees it.  To sleep
   for the inode's lock here, with itable.lock held, would be a panic.     *)
Iput(p) ==
  /\ panic = "no" /\ puts[p] # <<>> /\ freeing[p] = "no"
  /\ LET i == Head(puts[p]).i
         unlocked == IF Head(puts[p]).unlock THEN [lock EXCEPT ![i] = NoProc] ELSE lock
     IN IF mem[i].ref = 1 /\ mem[i].valid /\ mem[i].c.nlink = 0
        THEN /\ lock' = [unlocked EXCEPT ![i] = p]
             /\ panic' = IF unlocked[i] = NoProc THEN panic ELSE "sched locks"
             /\ freeing' = [freeing EXCEPT ![p] = "trunc"]
             /\ UNCHANGED <<mem, puts>>
        ELSE /\ lock' = unlocked
             /\ mem' = [mem EXCEPT ![i] = Unref(@)]
             /\ puts' = [puts EXCEPT ![p] = Tail(@)]
             /\ UNCHANGED <<panic, freeing>>
  /\ UNCHANGED <<disk, durable, file, procvars, op, out, boot, stray, calls>>

(* Mutant: the copy stays valid, and whoever gets the inode next believes it. *)
StaysValid(p) ==
  /\ panic = "no" /\ freeing[p] = "trunc"
  /\ LET i == Head(puts[p]).i IN
     /\ disk' = iupdate(itrunc(disk, i, mem[i].c), i, Zero)
     /\ lock' = [lock EXCEPT ![i] = NoProc]
  /\ freeing' = [freeing EXCEPT ![p] = "drop"]
  /\ UNCHANGED <<durable, mem, file, procvars, op, puts, out, boot, panic, stray, calls>>

(* itrunc(), type 0 and valid 0, then the inode's lock is given back. *)
IputFree(p) ==
  /\ panic = "no" /\ freeing[p] = "trunc"
  /\ LET i == Head(puts[p]).i IN
     /\ disk' = iupdate(itrunc(disk, i, mem[i].c), i, Zero)
     /\ mem' = [mem EXCEPT ![i].valid = FALSE, ![i].c = Zero]
     /\ lock' = [lock EXCEPT ![i] = NoProc]
     /\ panic' = IF BlocksOf(disk, mem[i].c) \subseteq disk.used THEN panic ELSE "freeing free block"
  /\ freeing' = [freeing EXCEPT ![p] = "drop"]
  /\ UNCHANGED <<durable, file, procvars, op, puts, out, boot, stray, calls>>

(* ... and only then the reference. *)
IputDrop(p) ==
  /\ panic = "no" /\ freeing[p] = "drop"
  /\ LET i == Head(puts[p]).i IN
     mem' = [mem EXCEPT ![i] = Unref(@)]
  /\ puts' = [puts EXCEPT ![p] = Tail(@)]
  /\ freeing' = [freeing EXCEPT ![p] = "no"]
  /\ UNCHANGED <<disk, durable, lock, file, procvars, op, out, boot, panic, stray, calls>>

---------------------------------------------------------------------------
(* Path names.                                                             *)

(* Bound: a call is counted. *)
Count == calls < MAXCALLS /\ calls' = calls + 1

(* The start of a call: begin_op(), and namex()'s first inode. *)
Call(p) ==
  /\ Count
  /\ At(p, "idle") /\ p \in alive
  /\ \E r \in Requests :
       LET call == r[1]
           path == r[2]
           start == IF path.abs THEN ROOTINO ELSE cwd[p] IN
       /\ op' = [op EXCEPT ![p] = [call |-> call, pc |-> "walk", then |-> Stage[call],
                                   path |-> path.elems, ip |-> start, tgt |-> None, up |-> FALSE]]
       /\ mem' = iget(mem, start)
       /\ panic' = IF Fits(start) THEN panic ELSE "iget: no inodes"
  /\ out' = out \cup {p}
  /\ UNCHANGED <<disk, durable, lock, file, procvars, puts, freeing, boot, stray>>

nameiparent(p) == op[p].then \in {"create", "unlink", "link2"}

(* Where a call goes on when namex() returns 0. *)
NotFound(p) == IF op[p].then = "link2" THEN "linkbad" ELSE "end"

(* One turn of namex()'s loop.  The last element of a path stays in it for
   the calls that want the parent.                                         *)
Namex(p) ==
  /\ At(p, "walk") /\ op[p].path # <<>>
  /\ ilock(op[p].ip)
  /\ LET i == op[p].ip
         m == Known(mem, i, Copy(i))
         name == Head(op[p].path)
         next == dirlookup(disk, i, name)
     IN IF Copy(i).type = "dir" /\ nameiparent(p) /\ Len(op[p].path) = 1
        THEN mem' = m /\ Goto(p, op[p].then) /\ UNCHANGED <<puts, panic>>
        ELSE IF Copy(i).type # "dir" \/ next = None
        THEN mem' = m /\ PutAll(p, <<Put(i)>>, NotFound(p)) /\ UNCHANGED panic
        ELSE /\ mem' = iget(m, next)
             /\ panic' = IF Fits(next) THEN panic ELSE "iget: no inodes"
             /\ puts' = [puts EXCEPT ![p] = <<Put(i)>>]
             /\ op' = [op EXCEPT ![p] = [@ EXCEPT !.ip = next, !.path = Tail(op[p].path),
                                                  !.pc = IF Len(op[p].path) = 1 THEN op[p].then ELSE "walk",
                                                  !.up = name = ".." /\ Copy(i).nlink = 0]]
  /\ UNCHANGED <<disk, durable, lock, file, procvars, freeing, out, boot, stray, calls>>

(* The path was "/". *)
NamexDone(p) ==
  /\ At(p, "walk") /\ op[p].path = <<>>
  /\ IF nameiparent(p) THEN PutAll(p, <<Put(op[p].ip)>>, NotFound(p))
     ELSE Goto(p, op[p].then) /\ UNCHANGED puts
  /\ UNCHANGED <<disk, durable, mem, lock, file, procvars, freeing, out, boot, panic, stray, calls>>

---------------------------------------------------------------------------
(* create(): for open(O_CREATE), mkdir() and mknod().  op[p].ip is dp.      *)

TypeOf == [creat |-> "file", mkdir |-> "dir", mknod |-> "device"]

FreeInums == {i \in Inum : disk.ino[i].type = "free"}

(* ialloc() *)
ialloc(i, type) == [disk EXCEPT !.ino[i] = [Zero EXCEPT !.type = type]]

(* The lookup under dp's lock: the name is there, or an inode is allocated
   and dp stays locked.                                                    *)
Create(p) ==
  /\ At(p, "create")
  /\ ilock(op[p].ip)
  /\ LET dp == op[p].ip
         ip == dirlookup(disk, dp, Head(op[p].path))
         m == Known(mem, dp, Copy(dp))
     IN IF ip # None
        THEN /\ mem' = iget(m, ip)
             /\ panic' = IF Fits(ip) THEN panic ELSE "iget: no inodes"
             /\ puts' = [puts EXCEPT ![p] = <<Put(dp)>>]
             /\ op' = [op EXCEPT ![p].pc = "exists", ![p].tgt = ip,
                                 ![p].up = Head(op[p].path) = ".." /\ Copy(dp).nlink = 0]
             /\ UNCHANGED <<disk, lock>>
        ELSE IF FreeInums = {}
        THEN mem' = m /\ PutAll(p, <<Put(dp)>>, "end") /\ UNCHANGED <<disk, lock, panic>>
        ELSE LET new == Min(FreeInums) IN
             /\ disk' = ialloc(new, TypeOf[op[p].call])
             /\ mem' = iget(m, new)
             /\ panic' = IF Fits(new) THEN panic ELSE "iget: no inodes"
             /\ lock' = [lock EXCEPT ![dp] = p]
             /\ op' = [op EXCEPT ![p].pc = "fill", ![p].tgt = new]
             /\ UNCHANGED puts
  /\ UNCHANGED <<durable, file, procvars, freeing, out, boot, stray, calls>>

(* The name exists: only open(O_CREATE) of a file or a device succeeds. *)
CreateExists(p) ==
  /\ At(p, "exists")
  /\ ilock(op[p].tgt)
  /\ mem' = Known(mem, op[p].tgt, Copy(op[p].tgt))
  /\ IF op[p].call = "creat" /\ Copy(op[p].tgt).type \in {"file", "device"}
     THEN lock' = [lock EXCEPT ![op[p].tgt] = p] /\ Goto(p, "opened") /\ UNCHANGED puts
     ELSE PutAll(p, <<Put(op[p].tgt)>>, "end") /\ UNCHANGED lock
  /\ UNCHANGED <<disk, durable, file, procvars, freeing, out, boot, panic, stray, calls>>

(* The entries "." and ".." of a new directory. *)
Dots(D, ip, c, dp) ==
  LET dot == dirlink(D, ip, c, ".", ip)
  IN  IF dot.ok THEN dirlink(dot.D, ip, dot.c, "..", dp) ELSE dot

(* The new inode is filled in and linked into dp, or given up. *)
CreateFill(p) ==
  /\ At(p, "fill")
  /\ ilock(op[p].tgt)
  /\ LET dp == op[p].ip
         ip == op[p].tgt
         c1 == [Copy(ip) EXCEPT !.nlink = 1]
         isdir == op[p].call = "mkdir"
     IN \E made \in {IF isdir THEN Dots(iupdate(disk, ip, c1), ip, c1, dp)
                     ELSE [ok |-> TRUE, D |-> iupdate(disk, ip, c1), c |-> c1]} :
        \E linked \in {IF made.ok THEN dirlink(made.D, dp, Copy(dp), Head(op[p].path), ip) ELSE made} :
        /\ lock' = [lock EXCEPT ![ip] = p]
        /\ \/ /\ linked.ok
              /\ LET d == [linked.c EXCEPT !.nlink = IF isdir THEN @ + 1 ELSE @] IN
                 /\ disk' = iupdate(linked.D, dp, d)
                 /\ mem' = Known(Known(mem, ip, made.c), dp, d)
              /\ stray' = (stray \/ Copy(dp).nlink = 0)
              /\ IF op[p].call = "creat" THEN PutAll(p, <<UnlockPut(dp)>>, "opened")
                 ELSE PutAll(p, <<UnlockPut(dp), UnlockPut(ip)>>, "end")
           \/ /\ ~linked.ok
              /\ LET f == [made.c EXCEPT !.nlink = 0] IN
                 disk' = iupdate(linked.D, ip, f) /\ mem' = Known(mem, ip, f)
              /\ PutAll(p, <<UnlockPut(ip), UnlockPut(dp)>>, "end")
              /\ UNCHANGED stray
  /\ UNCHANGED <<durable, file, procvars, freeing, out, boot, panic, calls>>

---------------------------------------------------------------------------
(* The file table.                                                         *)

(* filealloc() and fdalloc(): the first free entry, or None. *)
filealloc == LET free == {f \in File : file[f].ref = 0} IN IF free = {} THEN None ELSE Min(free)
fdalloc(p) == LET free == {d \in Fd : ofile[p][d] = None} IN IF free = {} THEN None ELSE Min(free)

(* The second half of sys_open(), on an inode that p has locked.  mknod() takes
   any major number; valid says whether a device's is in range.            *)
OpenFile(p, i, mode, valid) ==
  LET c == Copy(i)
      D == itrunc(disk, i, c)
      bad == \/ mode # "rdonly" /\ c.type = "dir"
             \/ ~valid /\ c.type = "device"
  IN IF bad \/ filealloc = None \/ fdalloc(p) = None
     THEN /\ PutAll(p, <<Put(i)>>, "end")
          /\ mem' = Known(mem, i, c)
          /\ UNCHANGED <<disk, file, ofile>>
     ELSE /\ file' = [file EXCEPT ![filealloc] =
                        [ref |-> 1, ip |-> i, off |-> 0, writable |-> mode # "rdonly"]]
          /\ ofile' = [ofile EXCEPT ![p][fdalloc(p)] = filealloc]
          /\ IF mode = "trunc" /\ c.type = "file"
             THEN disk' = D /\ mem' = Known(mem, i, D.ino[i])
             ELSE mem' = Known(mem, i, c) /\ UNCHANGED disk
          /\ Goto(p, "end")
          /\ UNCHANGED puts

(* sys_open() without O_CREATE. *)
Open(p) ==
  /\ At(p, "open") /\ ilock(op[p].ip)
  /\ \E mode \in Modes, valid \in BOOLEAN : OpenFile(p, op[p].ip, mode, valid)
  /\ UNCHANGED <<durable, lock, cwd, alive, freeing, out, boot, panic, stray, calls>>

(* sys_open() of what create() has returned locked. *)
OpenCreated(p) ==
  /\ At(p, "opened")
  /\ \E mode \in Modes, valid \in BOOLEAN : OpenFile(p, op[p].tgt, mode, valid)
  /\ lock' = [lock EXCEPT ![op[p].tgt] = NoProc]
  /\ UNCHANGED <<durable, cwd, alive, freeing, out, boot, panic, stray, calls>>

(* argfd(): the descriptors that are open. *)
argfd(p) == {d \in Fd : ofile[p][d] # None}

filedup(f) == [file EXCEPT ![f].ref = @ + 1]

(* sys_dup() *)
Dup(p) ==
  /\ Count
  /\ At(p, "idle") /\ fdalloc(p) # None
  /\ \E d \in argfd(p) :
       /\ ofile' = [ofile EXCEPT ![p][fdalloc(p)] = ofile[p][d]]
       /\ file' = filedup(ofile[p][d])
  /\ UNCHANGED <<disk, durable, mem, lock, cwd, alive, op, puts, freeing, out, boot, panic, stray>>

(* Mutant: the last reference is not told from the others. *)
CloseKeeps(p, d, l) ==
  LET f == ofile[p][d] IN
  /\ ofile' = [ofile EXCEPT ![p][d] = None]
  /\ file' = [file EXCEPT ![f] = IF @.ref = 1 THEN NoFile ELSE [file[f] EXCEPT !.ref = file[f].ref - 1]]
  /\ out' = out \cup {p} /\ PutAll(p, <<Put(file[f].ip)>>, "end")

(* fileclose() of descriptor d: the last one to close gives the inode back, in
   a transaction of its own.  Then on at label l.                          *)
fileclose(p, d, l) ==
  LET f == ofile[p][d] IN
  /\ ofile' = [ofile EXCEPT ![p][d] = None]
  /\ file' = [file EXCEPT ![f] = IF @.ref = 1 THEN NoFile ELSE [file[f] EXCEPT !.ref = file[f].ref - 1]]
  /\ IF file[f].ref = 1
     THEN out' = out \cup {p} /\ PutAll(p, <<Put(file[f].ip)>>, "end")
     ELSE Goto(p, l) /\ UNCHANGED <<out, puts>>

Close(p) ==
  /\ At(p, "idle")
  /\ \E d \in argfd(p) : fileclose(p, d, "idle")
  /\ UNCHANGED <<disk, durable, mem, lock, cwd, alive, freeing, boot, panic, stray, calls>>

(* filewrite() of one block: a transaction of its own.  A failure may still
   have changed the inode.                                                 *)
Write(p) ==
  /\ Count
  /\ At(p, "idle")
  /\ \E d \in argfd(p), copied \in BOOLEAN :
       LET f == ofile[p][d] IN
       /\ file[f].writable
       /\ ilock(file[f].ip)
       /\ Copy(file[f].ip).type = "file"
       /\ LET i == file[f].ip
              w == writei(disk, i, Copy(i), file[f].off, copied)
          IN /\ disk' = w.D
             /\ mem' = Known(mem, i, w.c)
             /\ file' = [file EXCEPT ![f].off = IF w.ok THEN @ + 1 ELSE @]
  /\ durable' = IF out = {} THEN disk' ELSE durable
  /\ UNCHANGED <<lock, procvars, op, puts, freeing, out, boot, panic, stray>>

(* readi() has something to give. *)
readi(c, off) == off < c.size

(* fileread() of one block. *)
Read(p) ==
  /\ Count
  /\ At(p, "idle")
  /\ \E d \in argfd(p) :
       LET f == ofile[p][d] IN
       /\ ~file[f].writable
       /\ ilock(file[f].ip)
       /\ Copy(file[f].ip).type # "device"
       /\ readi(Copy(file[f].ip), file[f].off)
       /\ mem' = Known(mem, file[f].ip, Copy(file[f].ip))
       /\ file' = [file EXCEPT ![f].off = @ + 1]
  /\ UNCHANGED <<disk, durable, lock, procvars, op, puts, freeing, out, boot, panic, stray>>

(* sys_fstat(): the inode is read for what it says. *)
Fstat(p) ==
  /\ Count
  /\ At(p, "idle")
  /\ \E d \in argfd(p) :
       LET i == file[ofile[p][d]].ip IN
       /\ ilock(i)
       /\ mem' = Known(mem, i, Copy(i))
  /\ UNCHANGED <<disk, durable, lock, file, procvars, op, puts, freeing, out, boot, panic, stray>>

---------------------------------------------------------------------------
(* sys_link(): the link is counted before it is made, for the lock of the
   inode is not held while the new name is looked up.                      *)

(* Mutant: the link is not counted until it is made. *)
LinkUncounted(p) ==
  /\ At(p, "link1") /\ ilock(op[p].ip)
  /\ LET i == op[p].ip IN
     IF Copy(i).type = "dir"
        THEN mem' = Known(mem, i, Copy(i)) /\ PutAll(p, <<Put(i)>>, "end")
        ELSE \E new \in NewPaths :
               LET start == IF new.abs THEN ROOTINO ELSE cwd[p] IN
               /\ mem' = iget(Known(mem, i, Copy(i)), start)
               /\ op' = [op EXCEPT ![p] = [@ EXCEPT !.pc = "walk", !.then = "link2",
                                                    !.path = new.elems, !.ip = start, !.tgt = i,
                                                    !.up = FALSE]]
               /\ UNCHANGED puts
  /\ UNCHANGED <<disk, durable, lock, file, procvars, freeing, out, boot, panic, stray, calls>>

(* Inode i has been allocated by a create() that has not locked it yet. *)
HalfMade(i) == \E p \in Proc : op[p].pc = "fill" /\ op[p].tgt = i

LinkCount(p) ==
  /\ At(p, "link1") /\ ilock(op[p].ip)
  /\ LET i == op[p].ip
         c == [Copy(i) EXCEPT !.nlink = @ + 1]
     IN IF c.type = "dir"
        THEN /\ mem' = Known(mem, i, Copy(i)) /\ PutAll(p, <<Put(i)>>, "end")
             /\ UNCHANGED <<disk, panic, stray>>
        ELSE \E new \in NewPaths :
               LET start == IF new.abs THEN ROOTINO ELSE cwd[p] IN
               /\ disk' = iupdate(disk, i, c)
               /\ mem' = iget(Known(mem, i, c), start)
               /\ panic' = IF Fits(start) THEN panic ELSE "iget: no inodes"
               /\ op' = [op EXCEPT ![p] = [@ EXCEPT !.pc = "walk", !.then = "link2",
                                                    !.path = new.elems, !.ip = start, !.tgt = i,
                                                    !.up = FALSE]]
               /\ stray' = (stray \/ HalfMade(i))
               /\ UNCHANGED puts
  /\ UNCHANGED <<durable, lock, file, procvars, freeing, out, boot, calls>>

LinkEnter(p) ==
  /\ At(p, "link2") /\ ilock(op[p].ip)
  /\ LET dp == op[p].ip
         l == dirlink(disk, dp, Copy(dp), Head(op[p].path), op[p].tgt)
     IN /\ disk' = l.D
        /\ mem' = Known(mem, dp, l.c)
        /\ stray' = (stray \/ (l.ok /\ Copy(dp).nlink = 0))
        /\ IF l.ok THEN PutAll(p, <<Put(dp), Put(op[p].tgt)>>, "end")
           ELSE PutAll(p, <<Put(dp)>>, "linkbad")
  /\ UNCHANGED <<durable, lock, file, procvars, freeing, out, boot, panic, calls>>

(* Mutant: the count is not taken back. *)
LinkBadForgets(p) ==
  /\ At(p, "linkbad") /\ ilock(op[p].tgt)
  /\ mem' = Known(mem, op[p].tgt, Copy(op[p].tgt))
  /\ PutAll(p, <<Put(op[p].tgt)>>, "end")
  /\ UNCHANGED <<disk, durable, lock, file, procvars, freeing, out, boot, panic, stray, calls>>

LinkBad(p) ==
  /\ At(p, "linkbad") /\ ilock(op[p].tgt)
  /\ LET i == op[p].tgt
         c == [Copy(i) EXCEPT !.nlink = @ - 1]
     IN disk' = iupdate(disk, i, c) /\ mem' = Known(mem, i, c) /\ PutAll(p, <<Put(i)>>, "end")
  /\ UNCHANGED <<durable, lock, file, procvars, freeing, out, boot, panic, stray, calls>>

(* Mutant: unlink() of "." is not refused. *)
AnyName(name) == FALSE

(* sys_unlink(): dp is locked, then the inode that the name stands for. *)
Dot(name) == name \in {".", ".."}

Unlink(p) ==
  /\ At(p, "unlink") /\ ilock(op[p].ip)
  /\ LET dp == op[p].ip
         name == Head(op[p].path)
         ip == dirlookup(disk, dp, name)
         m == Known(mem, dp, Copy(dp))
     IN IF Dot(name) \/ ip = None
        THEN mem' = m /\ PutAll(p, <<Put(dp)>>, "end") /\ UNCHANGED <<lock, panic>>
        ELSE /\ mem' = iget(m, ip)
             /\ panic' = IF Fits(ip) THEN panic ELSE "iget: no inodes"
             /\ lock' = [lock EXCEPT ![dp] = p]
             /\ op' = [op EXCEPT ![p].pc = "unlink2", ![p].tgt = ip]
             /\ UNCHANGED puts
  /\ UNCHANGED <<disk, durable, file, procvars, freeing, out, boot, stray, calls>>

(* The entry is cleared under both locks, dp's lock given back. *)
UnlinkEntry(p) ==
  /\ At(p, "unlink2") /\ ilock(op[p].tgt)
  /\ LET dp == op[p].ip
         ip == op[p].tgt
         c == Copy(ip)
         d == [Copy(dp) EXCEPT !.nlink = IF c.type = "dir" THEN @ - 1 ELSE @]
     IN /\ panic' = IF c.nlink < 1 THEN "unlink: nlink < 1" ELSE panic
        /\ lock' = [lock EXCEPT ![ip] = p]
        /\ IF c.type = "dir" /\ ~isdirempty(disk, ip)
           THEN /\ mem' = Known(mem, ip, c)
                /\ PutAll(p, <<UnlockPut(ip), UnlockPut(dp)>>, "end")
                /\ UNCHANGED disk
           ELSE /\ disk' = iupdate([disk EXCEPT !.dir[dp][Head(op[p].path)] = None], dp, d)
                /\ mem' = Known(Known(mem, ip, c), dp, d)
                /\ PutAll(p, <<UnlockPut(dp)>>, "unlink3")
  /\ UNCHANGED <<durable, file, procvars, freeing, out, boot, stray, calls>>

UnlinkCount(p) ==
  /\ At(p, "unlink3")
  /\ LET ip == op[p].tgt
         c == [mem[ip].c EXCEPT !.nlink = @ - 1]
     IN disk' = iupdate(disk, ip, c) /\ mem' = Known(mem, ip, c)
  /\ PutAll(p, <<UnlockPut(op[p].tgt)>>, "end")
  /\ UNCHANGED <<durable, lock, file, procvars, freeing, out, boot, panic, stray, calls>>

(* sys_chdir() *)
Chdir(p) ==
  /\ At(p, "chdir") /\ ilock(op[p].ip)
  /\ mem' = Known(mem, op[p].ip, Copy(op[p].ip))
  /\ IF Copy(op[p].ip).type = "dir"
     THEN PutAll(p, <<Put(cwd[p])>>, "end") /\ cwd' = [cwd EXCEPT ![p] = op[p].ip]
     ELSE PutAll(p, <<Put(op[p].ip)>>, "end") /\ UNCHANGED cwd
  /\ UNCHANGED <<disk, durable, lock, file, ofile, alive, freeing, out, boot, panic, stray, calls>>

---------------------------------------------------------------------------
(* kfork(): the child shares the files and the directory. *)
Fork(p) ==
  /\ Count
  /\ At(p, "idle") /\ p \in alive
  /\ \E q \in Proc \ alive :
       /\ alive' = alive \cup {q}
       /\ ofile' = [ofile EXCEPT ![q] = ofile[p]]
       /\ cwd' = [cwd EXCEPT ![q] = cwd[p]]
  /\ file' = [f \in File |-> [file[f] EXCEPT !.ref = @ + Cardinality({d \in Fd : ofile[p][d] = f})]]
  /\ mem' = iget(mem, cwd[p])
  /\ UNCHANGED <<disk, durable, lock, op, puts, freeing, out, boot, panic, stray>>

(* kexit(): every descriptor is closed, then the directory given back. *)
Exit(p) ==
  /\ At(p, "idle") /\ p \in alive \ {First}
  /\ op' = [op EXCEPT ![p] = [Idle EXCEPT !.call = "exit", !.pc = "exit"]]
  /\ UNCHANGED <<disk, durable, mem, lock, file, procvars, puts, freeing, out, boot, panic, stray, calls>>

ExitClose(p) ==
  /\ At(p, "exit")
  /\ argfd(p) # {}
  /\ fileclose(p, Min(argfd(p)), "exit")
  /\ UNCHANGED <<disk, durable, mem, lock, cwd, alive, freeing, boot, panic, stray, calls>>

ExitCwd(p) ==
  /\ At(p, "exit")
  /\ argfd(p) = {}
  /\ out' = out \cup {p}
  /\ puts' = [puts EXCEPT ![p] = <<Put(cwd[p])>>]
  /\ cwd' = [cwd EXCEPT ![p] = None]
  /\ op' = [op EXCEPT ![p].pc = "end", ![p].call = "gone"]
  /\ UNCHANGED <<disk, durable, mem, lock, file, ofile, alive, freeing, boot, panic, stray, calls>>

(* end_op(): the last transaction of a group commits it. *)
End(p) ==
  /\ At(p, "end")
  /\ out' = out \ {p}
  /\ durable' = IF out' = {} THEN disk ELSE durable
  /\ op' = [op EXCEPT ![p] = IF @.call = "exit" THEN [Idle EXCEPT !.call = "exit", !.pc = "exit"] ELSE Idle]
  /\ alive' = IF op[p].call = "gone" THEN alive \ {p} ELSE alive
  /\ UNCHANGED <<disk, mem, lock, file, ofile, cwd, puts, freeing, boot, panic, stray, calls>>

(* The machine stops and comes up with what was committed. *)
Crash ==
  /\ disk' = durable
  /\ mem' = [i \in Inum |-> Absent]
  /\ lock' = [i \in Inum |-> NoProc]
  /\ file' = [f \in File |-> NoFile]
  /\ ofile' = [p \in Proc |-> [d \in Fd |-> None]]
  /\ cwd' = [p \in Proc |-> None]
  /\ alive' = {}
  /\ op' = [p \in Proc |-> Idle]
  /\ puts' = [p \in Proc |-> <<>>]
  /\ freeing' = [p \in Proc |-> "no"]
  /\ out' = {}
  /\ boot' = 1
  /\ UNCHANGED <<durable, panic, stray, calls>>
  /\ panic = "no"

(* Mutant: orphans are left alone. *)
NoReclaim ==
  /\ panic = "no" /\ boot \in Inum
  /\ boot' = boot + 1
  /\ UNCHANGED <<disk, durable, mem, lock, file, procvars, op, puts, freeing, out, panic, stray, calls>>

(* ireclaim(), one inode at a time: an inode without links is freed by the
   iput() that follows iget(), ilock() and iunlock().                      *)
Reclaim ==
  /\ panic = "no" /\ boot \in Inum
  /\ LET c == disk.ino[boot] IN
     IF c.type # "free" /\ c.nlink = 0
     THEN /\ disk' = iupdate(itrunc(disk, boot, c), boot, Zero)
          /\ panic' = IF BlocksOf(disk, c) \subseteq disk.used THEN panic ELSE "freeing free block"
     ELSE UNCHANGED <<disk, panic>>
  /\ durable' = disk'
  /\ boot' = boot + 1
  /\ UNCHANGED <<mem, lock, file, procvars, op, puts, freeing, out, stray, calls>>

(* The first process starts when fsinit() is done. *)
Booted ==
  /\ panic = "no" /\ boot = NINODES + 1
  /\ boot' = None
  /\ alive' = {First}
  /\ mem' = iget(mem, ROOTINO)
  /\ cwd' = [cwd EXCEPT ![First] = ROOTINO]
  /\ UNCHANGED <<disk, durable, lock, file, ofile, op, puts, freeing, out, panic, stray, calls>>

---------------------------------------------------------------------------
(* The image with the directories of dirs, each in the one before: what
   mkdir() leaves.                                                         *)
Nest(dirs) ==
  LET n == Len(dirs) IN
  [Image EXCEPT
     !.ino = [i \in Inum |-> IF i > n + 1 THEN Zero
                             ELSE [type |-> "dir", nlink |-> IF i > n THEN 1 ELSE 2, size |-> 1,
                                   addrs |-> [Zero.addrs EXCEPT ![0] = i]]],
     !.dir = [i \in Inum |-> IF i > n + 1 THEN NoEntries
                             ELSE [m \in DirNames |->
                                     IF m = "." THEN i
                                     ELSE IF m = ".." THEN (IF i = ROOTINO THEN i ELSE i - 1)
                                     ELSE IF i <= n /\ m = dirs[i] THEN i + 1 ELSE None]],
     !.used = 1 .. n + 1]

(* iinit(), fileinit() and userinit(), whose process has "/" as its directory;
   or later, when mkdir() has made some of the directories of Nested, each in
   the one before, and the process has gone to the last.                   *)
Init ==
  /\ \E dirs \in Nested :
       LET last == Len(dirs) + ROOTINO IN
       /\ disk = IF dirs = <<>> THEN Image ELSE Nest(dirs)
       /\ mem = [i \in Inum |-> IF i = last THEN [Absent EXCEPT !.ref = 1] ELSE Absent]
       /\ cwd = [p \in Proc |-> IF p = First THEN last ELSE None]
  /\ durable = disk
  /\ lock = [i \in Inum |-> NoProc]
  /\ file = [f \in File |-> NoFile]
  /\ ofile = [p \in Proc |-> [d \in Fd |-> None]]
  /\ alive = {First}
  /\ op = [p \in Proc |-> Idle]
  /\ puts = [p \in Proc |-> <<>>]
  /\ freeing = [p \in Proc |-> "no"]
  /\ out = {}
  /\ boot = None
  /\ panic = "no"
  /\ stray = FALSE
  /\ calls = 0

Next ==
  \/ \E p \in Proc :
       \/ Call(p) \/ Namex(p) \/ NamexDone(p)
       \/ Iput(p) \/ IputFree(p) \/ IputDrop(p) \/ IlockPanic(p)
       \/ Create(p) \/ CreateExists(p) \/ CreateFill(p) \/ Open(p) \/ OpenCreated(p)
       \/ Dup(p) \/ Close(p) \/ Write(p) \/ Read(p) \/ Fstat(p)
       \/ LinkCount(p) \/ LinkEnter(p) \/ LinkBad(p)
       \/ Unlink(p) \/ UnlinkEntry(p) \/ UnlinkCount(p) \/ Chdir(p)
       \/ Fork(p) \/ Exit(p) \/ ExitClose(p) \/ ExitCwd(p) \/ End(p)
  \/ Crash \/ Reclaim \/ Booted

Spec == Init /\ [][Next]_vars

---------------------------------------------------------------------------
(* Properties.                                                             *)

(* The names that lead to i, and the names in i of directories. *)
NamesOf(D, i) == {e \in Inum \X Names : D.dir[e[1]][e[2]] = i}
SubdirsOf(D, i) == {n \in Names : D.dir[i][n] # None /\ D.ino[D.dir[i][n]].type = "dir"}

(* What a crash leaves has exact link counts (ip->nlink), whatever calls were
   under way, and the ".." of a directory leads to where its name is; as long
   as nobody made an entry in a removed directory, or used an inode that
   create() has just allocated: create() and sys_link() do not look whether
   dp still has links, and ialloc() returns the inode without its lock.    *)
LinkCounts ==
  ~stray => \A i \in Inum :
    /\ durable.ino[i].nlink = Cardinality(NamesOf(durable, i)) + Cardinality(SubdirsOf(durable, i))
                              + (IF i = ROOTINO THEN 1 ELSE 0)
    /\ \A n \in SubdirsOf(durable, i) : durable.dir[durable.dir[i][n]][".."] = i

(* No entry that a crash leaves names a free inode: there is no link to an
   inode that iput() freed.                                                *)
NoDanglingName ==
  ~stray => \A d \in Inum, n \in Names :
    durable.dir[d][n] # None => durable.ino[durable.dir[d][n]].type # "free"

(* balloc() and bfree(): after a crash every block that is in use belongs to
   exactly one inode, and every inode's blocks are in use.                 *)
BlocksOwned ==
  /\ \A i, j \in Inum : i # j => BlocksOf(durable, durable.ino[i]) \cap BlocksOf(durable, durable.ino[j]) = {}
  /\ durable.used = UNION {BlocksOf(durable, durable.ino[i]) : i \in Inum}

(* An inode that an open file or a current directory refers to is not freed
   under it, also when its last name is removed.  (A wrong link count may
   have cost the root its inode before the machine came up.)               *)
HeldIsAlive ==
  /\ \A f \in File : file[f].ref > 0 => disk.ino[file[f].ip].type # "free"
  /\ ~stray => \A p \in alive : cwd[p] # None => disk.ino[cwd[p]].type # "free"

(* When ireclaim() is done no inode without links is left: what a crash or a
   race lost is found again.                                               *)
Reclaimed ==
  boot = NINODES + 1 =>
    \A i \in Inum : disk.ino[i].type # "free" => disk.ino[i].nlink # 0 /\ (~stray => disk.ino[i].nlink > 0)

(* "If that was the last reference and the inode has no links to it, free the
   inode (and its content) on disk" (iput()).  So an inode without links has
   a reference, until a crash.  VIOLATED: iput() gives the inode's lock back
   before it gives up its reference; who allocates, uses and unlinks the
   inode in between is not the last to put it, and the freeing iput() only
   counts down.                                                            *)
LastPutFrees ==
  boot = None =>
    \A i \in Inum : disk.ino[i].type # "free" /\ disk.ino[i].nlink = 0 => mem[i].ref > 0

(* No processes wait for each other's inode locks in a circle, nor one for
   its own: locks are taken from the directory to what is in it.           *)
NoLockCycle ==
  \A S \in (SUBSET Proc) \ {{}} :
    \E p \in S : LockTarget(p) = None \/ lock[LockTarget(p)] \notin S

(* The assertions of fs.c and sysfile.c hold, but for a full inode table and
   the one in ilock(): the ".." of a directory that was removed may lead to
   an inode that was freed since.  Where link counts are wrong ilock() and
   unlink() may find that out; iput() never frees a free block and never has
   to wait for the lock of an inode to which it has the last reference.    *)
OnlyDotDotPanics ==
  \/ panic \in {"no", "iget: no inodes"}
  \/ panic \in {"ilock: no type", "unlink: nlink < 1"} /\ stray
  \/ /\ panic = "ilock: no type"
     /\ \E p \in Proc : op[p].up /\ LockTarget(p) # None /\ Copy(LockTarget(p)).type = "free"

=============================================================================
