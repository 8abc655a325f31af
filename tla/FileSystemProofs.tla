------------------------- MODULE FileSystemProofs -------------------------
(* Proofs about the file system: the invariant on which everything else
   rests, Core, layer by layer, and who owns the blocks of the disk.  The
   layers about names and links are used in DirectoryProofs.               *)
EXTENDS FileSystem, FiniteSetTheorems, WellFoundedInduction, TLAPS

Kind == {"free", "dir", "file", "device"}
Dinode == [type : Kind, nlink : Int, size : Nat, addrs : [0 .. NDIRECT -> {None} \cup Block]]
DiskType ==
  [ino  : [Inum -> Dinode],
   dir  : [Inum -> [DirNames -> {None} \cup Inum]],
   used : SUBSET Block,
   ind  : [Block -> [0 .. NINDIRECT - 1 -> {None} \cup Block]]]

Labels == {"idle", "walk", "open", "create", "unlink", "link1", "link2", "chdir", "exists", "fill",
           "opened", "unlink2", "unlink3", "linkbad", "exit", "end"}
OpType ==
  [call : DOMAIN Stage \cup {"none", "exit", "gone"}, pc : Labels, then : Labels, path : Seq(DirNames),
   ip : {None} \cup Inum, tgt : {None} \cup Inum, up : BOOLEAN]

TypeOK ==
  /\ disk \in DiskType /\ durable \in DiskType
  /\ mem \in [Inum -> [ref : Nat, valid : BOOLEAN, c : Dinode]]
  /\ lock \in [Inum -> Proc \cup {NoProc}]
  /\ file \in [File -> [ref : Nat, ip : {None} \cup Inum, off : Nat, writable : BOOLEAN]]
  /\ ofile \in [Proc -> [Fd -> {None} \cup File]]
  /\ cwd \in [Proc -> {None} \cup Inum]
  /\ alive \in SUBSET Proc /\ out \in SUBSET Proc
  /\ op \in [Proc -> OpType]
  /\ puts \in [Proc -> Seq([i : Inum, unlock : BOOLEAN])]
  /\ freeing \in [Proc -> {"no", "trunc", "drop"}]
  /\ boot \in 0 .. NINODES + 1
  /\ stray \in BOOLEAN

(* What a process has in hand at each point of a call o. *)
HasIp(o) == o.pc \in {"walk", "open", "create", "unlink", "link1", "link2", "chdir", "fill", "unlink2"}
HasTgt(o) == \/ o.pc \in {"exists", "fill", "opened", "unlink2", "unlink3", "linkbad", "link2"}
             \/ o.pc = "walk" /\ o.then = "link2"
OpOK(o) ==
  /\ HasIp(o) => o.ip # None
  /\ o.tgt # None <=> HasTgt(o)
  /\ o.pc = "walk" => o.then \in {"open", "create", "unlink", "link1", "link2", "chdir"}
  /\ o.pc \in {"create", "fill"} \/ (o.pc = "walk" /\ o.then = "create") => o.call \in DOMAIN TypeOf
  /\ o.pc \in {"create", "unlink", "link2", "fill", "unlink2"} => o.path # <<>>
  /\ o.pc = "unlink2" => Head(o.path) \in Names
  /\ o.call = "gone" => o.pc = "end"

PutsAt == {"walk", "open", "link1", "chdir", "exists", "opened", "unlink3", "linkbad", "end"}
ProcOK(p) ==
  /\ puts[p] # <<>> => op[p].pc \in PutsAt
  /\ freeing[p] # "no" => puts[p] # <<>>
  /\ Len(puts[p]) <= 2
  /\ op[p].pc \notin {"idle", "exit"} => p \in out
  /\ op[p].pc # "idle" => p \in alive
  /\ p \in alive /\ op[p].call # "gone" => cwd[p] # None
  /\ p \notin alive \/ op[p].call = "gone" => cwd[p] = None /\ \A d \in Fd : ofile[p][d] = None

PcInv == \A p \in Proc : OpOK(op[p]) /\ ProcOK(p)

(* Before the first process runs nothing is in memory. *)
BootInv ==
  boot # None =>
    /\ alive = {} /\ out = {}
    /\ \A i \in Inum : mem[i] = Absent
    /\ \A f \in File : file[f] = NoFile

(* How often F takes the value v. *)
Occ(F, v) == Cardinality({s \in DOMAIN F : F[s] = v})

(* file[f].ref counts descriptors. *)
Descriptor == [s \in Proc \X Fd |-> ofile[s[1]][s[2]]]
FileInv ==
  \A f \in File :
    /\ file[f].ref = Occ(Descriptor, f)
    /\ file[f].ref = 0 => file[f] = NoFile
    /\ file[f].ref > 0 => file[f].ip # None

(* ip->ref counts everything that refers to the inode. *)
FileIp == [f \in File |-> file[f].ip]
IpIn(o) == IF HasIp(o) THEN o.ip ELSE None
FirstIn(s) == IF s # <<>> THEN s[1].i ELSE None
SecondIn(s) == IF Len(s) = 2 THEN s[2].i ELSE None
IpOf == [p \in Proc |-> IpIn(op[p])]
TgtOf == [p \in Proc |-> op[p].tgt]
Put1 == [p \in Proc |-> FirstIn(puts[p])]
Put2 == [p \in Proc |-> SecondIn(puts[p])]
RefInv ==
  \A i \in Inum :
    mem[i].ref = Occ(FileIp, i) + Occ(cwd, i) + Occ(IpOf, i) + Occ(TgtOf, i) + Occ(Put1, i) + Occ(Put2, i)

(* Who has which inode's lock follows from where he is. *)
Holds(o, s, f, i) ==
  \/ o.pc \in {"fill", "unlink2"} /\ o.ip = i
  \/ o.pc \in {"opened", "unlink3"} /\ o.tgt = i
  \/ s # <<>> /\ s[1].i = i /\ (f = "trunc" \/ (f = "no" /\ s[1].unlock))
  \/ Len(s) = 2 /\ s[2].unlock /\ s[2].i = i
Apart(o, s) ==
  /\ Len(s) = 2 /\ s[2].unlock => s[1].i # s[2].i
  /\ o.pc \in {"opened", "unlink3"} /\ s # <<>> => Len(s) = 1 /\ s[1].i # o.tgt
Locks(p, i) == Holds(op[p], puts[p], freeing[p], i)
LockInv ==
  /\ \A i \in Inum, p \in Proc : lock[i] = p <=> Locks(p, i)
  /\ \A p \in Proc : Apart(op[p], puts[p])

(* A copy that is valid is the inode's. *)
CopyInv ==
  \A i \in Inum : mem[i].valid => mem[i].c = disk.ino[i] /\ disk.ino[i].type # "free"

(* iput() is about to free i: whoever gets at i now has yet to lock it. *)
Dying(i) == \E p \in Proc : freeing[p] = "trunc" /\ puts[p][1].i = i
Live == {i \in Inum : disk.ino[i].type # "free" /\ ~Dying(i)}

OpAlive(o) ==
  /\ o.pc \in {"create", "unlink", "link2", "fill", "unlink2"} => o.ip \in Live /\ disk.ino[o.ip].type = "dir"
  /\ o.pc \in {"fill", "opened", "unlink3"} => o.tgt \in Live
  /\ o.pc \in {"walk", "link2", "linkbad"} /\ o.tgt # None => o.tgt \in Live /\ disk.ino[o.tgt].type # "dir"
  /\ o.pc = "fill" => disk.ino[o.tgt].type = TypeOf[o.call]
  /\ o.pc = "unlink2" => disk.dir[o.ip][Head(o.path)] = o.tgt
  /\ o.pc = "unlink3" => mem[o.tgt].valid
AliveInv ==
  /\ \A f \in File : file[f].ip # None => file[f].ip \in Live
  /\ \A p \in Proc : OpAlive(op[p])
  /\ \A p \in Proc : freeing[p] = "trunc" => mem[puts[p][1].i].valid /\ mem[puts[p][1].i].c.nlink = 0
  /\ \A p, q \in Proc : op[p].pc = "fill" /\ op[q].pc = "fill" /\ op[p].tgt = op[q].tgt => p = q

(* A free inode is blank, only directories have entries. *)
CleanDisk(D) ==
  \A i \in Inum :
    /\ D.ino[i].type = "free" => D.ino[i] = Zero
    /\ D.ino[i].type # "dir" => D.dir[i] = NoEntries

OwnedDisk(D) ==
  /\ \A i, j \in Inum : i # j => BlocksOf(D, D.ino[i]) \cap BlocksOf(D, D.ino[j]) = {}
  /\ D.used = UNION {BlocksOf(D, D.ino[i]) : i \in Inum}

DiskInv == CleanDisk(disk) /\ OwnedDisk(disk) /\ CleanDisk(durable) /\ OwnedDisk(durable)

(* Names lead downwards, and so does a create() under way. *)
Downwards(D, r) == \A d \in Inum, n \in Names : D.dir[d][n] # None => r[d] < r[D.dir[d][n]]
Ranked(D) == \E m \in Nat : \E r \in [Inum -> 0 .. m] : Downwards(D, r)
RankInv ==
  /\ Ranked(durable)
  /\ \E m \in Nat : \E r \in [Inum -> 0 .. m] :
       /\ Downwards(disk, r)
       /\ \A p \in Proc : op[p].pc = "fill" => r[op[p].ip] < r[op[p].tgt]

(* nlink counts the names of an inode, those it is about to get or has just
   lost, and, in a directory, those of directories.                        *)
Pends(o) == IF o.pc \in {"walk", "link2", "linkbad", "unlink3"} THEN o.tgt ELSE None
Pending == [p \in Proc |-> Pends(op[p])]
Links(D, i) == Cardinality(NamesOf(D, i)) + Cardinality(SubdirsOf(D, i)) + (IF i = ROOTINO THEN 1 ELSE 0)

(* A directory with entries has a name, where its ".." leads. *)
Named(D, i) == i = ROOTINO \/ \E d \in Inum, n \in Names : D.dir[d][n] = i
TreeDisk(D) ==
  /\ D.dir[ROOTINO][".."] = ROOTINO /\ D.ino[ROOTINO].type = "dir"
  /\ \A d \in Inum, n \in Names : D.dir[d][n] # ROOTINO
  /\ \A i \in Inum :
       /\ D.dir[i]["."] \in {None, i}
       /\ D.ino[i].type = "dir" /\ D.ino[i].nlink > 0 => D.dir[i]["."] = i /\ D.dir[i][".."] # None
       /\ \A n \in Names : D.dir[i][n] # None => Named(D, i)
       /\ \A n \in SubdirsOf(D, i) : D.dir[D.dir[i][n]][".."] = i

(* What a call relies on: a new inode is blank, a removed directory empty, and
   what a name has led to is still there, but for a step up from a directory
   that was removed.                                                       *)
OpLinked(o) ==
  /\ o.pc = "fill" => disk.ino[o.tgt].nlink = 0 /\ disk.dir[o.tgt] = NoEntries
  /\ o.pc = "unlink3" => \A n \in Names : disk.dir[o.tgt][n] = None
  /\ o.pc \in {"walk", "open", "link1", "chdir"} => o.up \/ o.ip \in Live
  /\ o.pc = "exists" => o.up \/ o.tgt \in Live
  /\ o.pc = "unlink2" => o.tgt \in Live

(* The counts are exact, on the disk up to the calls under way. *)
LinkInv ==
  ~stray =>
    /\ \A i \in Inum : disk.ino[i].nlink = Links(disk, i) + Occ(Pending, i)
    /\ \A i \in Inum : durable.ino[i].nlink = Links(durable, i)
    /\ TreeDisk(disk) /\ TreeDisk(durable)
    /\ \A p \in Proc : OpLinked(op[p])
    /\ \A p \in Proc : cwd[p] # None => cwd[p] \in Live

(* ireclaim() has freed every inode without links that it has come by. *)
BootedInv == boot # None => \A i \in Inum : i < boot /\ disk.ino[i].type # "free" => disk.ino[i].nlink # 0

---------------------------------------------------------------------------

(* A set of numbers that is not empty has a least member, and Min is it. *)
LEMMA MinIn ==
  ASSUME NEW S, S \subseteq Nat, S # {}
  PROVE  Min(S) \in S
<1> DEFINE Less == {ss \in Nat \X Nat : ss[1] < ss[2]}
<1>1. IsWellFoundedOn(Less, Nat)
  BY NatLessThanWellFounded DEF OpToRel
<1>2. \A x, y \in Nat : y < x => <<y, x>> \in Less
  OBVIOUS
<1> HIDE DEF Less
<1>3. PICK x \in S : \A y \in S : ~(<<y, x>> \in Less)
  BY <1>1, WFMin
<1>4. ASSUME NEW y \in S PROVE x <= y
  <2>1. x \in Nat /\ y \in Nat /\ ~(<<y, x>> \in Less)
    BY <1>3
  <2>2. ~(y < x)
    BY <1>2, <2>1
  <2> QED
    BY <2>1, <2>2
<1> QED
  BY <1>4 DEF Min

(* What FsAssumption says of the numbers and names that the code uses. *)
LEMMA ConstFacts ==
  /\ ROOTINO \in Inum /\ None \notin Inum /\ None \notin Block /\ None \notin File /\ None \notin Fd
  /\ NDIRECT \in Nat /\ NDIRECT > 0 /\ NINDIRECT \in Nat /\ 0 \in 0 .. NDIRECT
  /\ "." \in DirNames /\ ".." \in DirNames /\ "." \notin Names /\ ".." \notin Names
  /\ Names \subseteq DirNames
  BY FsAssumption DEF ROOTINO, Inum, None, Block, File, Fd, DirNames

(* A dinode of zeroes is free and has neither links nor blocks. *)
LEMMA ZeroType == Zero \in Dinode /\ Zero.type = "free" /\ Zero.nlink = 0 /\ Zero.size = 0
                  /\ Zero.addrs \in [0 .. NDIRECT -> {None} \cup Block]
                  /\ \A n \in 0 .. NDIRECT : Zero.addrs[n] = None
  BY ConstFacts DEF Zero, Dinode, Kind, None

(* A directory without entries has none under any name. *)
LEMMA NoEntriesType == NoEntries \in [DirNames -> {None} \cup Inum] /\ \A n \in DirNames : NoEntries[n] = None
  BY DEF NoEntries

(* iupdate() changes one inode. *)
LEMMA UpdateOne ==
  ASSUME NEW D \in DiskType, NEW i \in Inum, NEW c \in Dinode
  PROVE  /\ iupdate(D, i, c) \in DiskType
         /\ iupdate(D, i, c).ino = [D.ino EXCEPT ![i] = c]
         /\ iupdate(D, i, c).dir = D.dir
         /\ iupdate(D, i, c).used = D.used
         /\ iupdate(D, i, c).ind = D.ind
  BY DEF iupdate, DiskType

(* balloc() finds a block that is not in use, if there is one. *)
LEMMA UnusedBlock ==
  ASSUME NEW D \in DiskType
  PROVE  \/ Unused(D) = None /\ balloc(D) = D
         \/ /\ Unused(D) \in Block \ D.used
            /\ balloc(D) \in DiskType
            /\ balloc(D).ino = D.ino /\ balloc(D).dir = D.dir
            /\ balloc(D).used = D.used \cup {Unused(D)}
            /\ balloc(D).ind = [D.ind EXCEPT ![Unused(D)] = [n \in 0 .. NINDIRECT - 1 |-> 0]]
<1>1. CASE Block \subseteq D.used
  BY <1>1 DEF Unused, balloc
<1>2. CASE ~(Block \subseteq D.used)
  <2>1. Block \ D.used \subseteq Nat /\ Block \ D.used # {}
    BY <1>2 DEF Block
  <2>2. Unused(D) \in Block \ D.used
    BY <1>2, <2>1, MinIn DEF Unused
  <2>3. Unused(D) # None
    BY <2>2, ConstFacts
  <2> DEFINE u == Unused(D)
  <2> HIDE DEF u
  <2> DEFINE E == [D EXCEPT !.used = @ \cup {u}]
  <2>4. balloc(D) = bzero(E, u) /\ u \in Block \ D.used
    BY <2>2, <2>3 DEF balloc, u
  <2>5. [n \in 0 .. NINDIRECT - 1 |-> 0] \in [0 .. NINDIRECT - 1 -> {None} \cup Block]
    BY DEF None
  <2>6. E \in DiskType /\ E.ino = D.ino /\ E.dir = D.dir /\ E.used = D.used \cup {u} /\ E.ind = D.ind
    BY <2>4 DEF DiskType
  <2> HIDE DEF E
  <2>7. /\ bzero(E, u) \in DiskType
        /\ bzero(E, u).ino = E.ino /\ bzero(E, u).dir = E.dir /\ bzero(E, u).used = E.used
        /\ bzero(E, u).ind = [E.ind EXCEPT ![u] = [n \in 0 .. NINDIRECT - 1 |-> 0]]
    BY <2>4, <2>5, <2>6 DEF DiskType, bzero
  <2> QED
    BY <2>4, <2>6, <2>7 DEF u
<1> QED
  BY <1>1, <1>2

(* An entry None of a table is set to u. *)
LEMMA SetEntry ==
  ASSUME NEW S, NEW T, NEW g \in [S -> T], NEW k \in S, NEW u, g[k] = None, u # None, NEW f,
         f = [g EXCEPT ![k] = u]
  PROVE  {f[m] : m \in S} \ {None} = ({g[m] : m \in S} \ {None}) \cup {u}
<1>1. f[k] = u /\ \A m \in S : m # k => f[m] = g[m]
  OBVIOUS
<1>2. \A x : x # None /\ x # u => ((\E m \in S : x = f[m]) <=> (\E m \in S : x = g[m]))
  BY <1>1
<1> QED
  BY <1>1, <1>2

(* One of c's pointers is set. *)
LEMMA SetAddr ==
  ASSUME NEW c \in Dinode, NEW n \in 0 .. NDIRECT, NEW u \in {None} \cup Block
  PROVE  LET d == [c EXCEPT !.addrs[n] = u] IN
         /\ d \in Dinode /\ d.addrs = [c.addrs EXCEPT ![n] = u]
         /\ d.type = c.type /\ d.nlink = c.nlink /\ d.size = c.size
  BY DEF Dinode

(* A pointer of an inode that leads nowhere is set to a block that was not in
   use: what is owned stays owned.                                         *)
LEMMA OwnedDirect ==
  ASSUME NEW D \in DiskType, OwnedDisk(D), NEW E \in DiskType, NEW i \in Inum,
         NEW n \in 0 .. NDIRECT, NEW u \in Block \ D.used, D.ino[i].addrs[n] = None,
         \A j \in Inum \ {i} : E.ino[j].addrs = D.ino[j].addrs,
         E.ino[i].addrs = [D.ino[i].addrs EXCEPT ![n] = u],
         E.used = D.used \cup {u},
         E.ind = [D.ind EXCEPT ![u] = [k \in 0 .. NINDIRECT - 1 |-> 0]]
  PROVE  OwnedDisk(E)
<1>1. \A j \in Inum : D.ino[j].addrs \in [0 .. NDIRECT -> {None} \cup Block]
  BY DEF DiskType, Dinode
<1>2. \A j \in Inum : BlocksOf(D, D.ino[j]) \subseteq D.used
  BY DEF OwnedDisk
<1>3. NDIRECT \in 0 .. NDIRECT /\ u # None
  BY ConstFacts
<1>4. \A j \in Inum : D.ino[j].addrs[NDIRECT] # u
  BY <1>2, <1>3 DEF BlocksOf, Reached
<1>5. ASSUME NEW j \in Inum \ {i} PROVE BlocksOf(E, E.ino[j]) = BlocksOf(D, D.ino[j])
  BY <1>1, <1>3, <1>4 DEF BlocksOf, Reached, DiskType
<1>6. BlocksOf(E, E.ino[i]) = BlocksOf(D, D.ino[i]) \cup {u}
  <2> DEFINE S == 0 .. NDIRECT
             T == {None} \cup Block
             K == 0 .. NINDIRECT - 1
             g == D.ino[i].addrs
             f == E.ino[i].addrs
  <2>1. g \in [S -> T] /\ n \in S /\ g[n] = None /\ u # None /\ f = [g EXCEPT ![n] = u]
    BY <1>1, <1>3
  <2>2. {f[m] : m \in S} \ {None} = ({g[m] : m \in S} \ {None}) \cup {u}
    <3> HIDE DEF S, T, f, g
    <3> QED
      BY <2>1, SetEntry
  <2>3. CASE n = NDIRECT
    <3>1. \A k \in K : E.ind[u][k] = None
      BY DEF DiskType, None
    <3>2. f[NDIRECT] = u /\ g[NDIRECT] = None
      BY <1>1, <1>3, <2>3
    <3>3. Reached(E, E.ino[i]) = {f[m] : m \in S} \cup {E.ind[u][k] : k \in K}
      BY <1>3, <3>2 DEF Reached
    <3>4. Reached(D, D.ino[i]) = {g[m] : m \in S}
      BY <3>2 DEF Reached
    <3> HIDE DEF S, K, f, g
    <3>5. {E.ind[u][k] : k \in K} \subseteq {None}
      BY <3>1
    <3> QED
      BY <2>2, <3>3, <3>4, <3>5 DEF BlocksOf
  <2>4. CASE n # NDIRECT
    <3>1. f[NDIRECT] = g[NDIRECT] /\ g[NDIRECT] \in T /\ g[NDIRECT] # u
      BY <1>1, <1>3, <1>4, <2>4
    <3>2. CASE g[NDIRECT] = None
      <4>1. Reached(E, E.ino[i]) = {f[m] : m \in S} /\ Reached(D, D.ino[i]) = {g[m] : m \in S}
        BY <3>1, <3>2 DEF Reached
      <4> HIDE DEF S, f, g
      <4> QED
        BY <2>2, <4>1 DEF BlocksOf
    <3>3. CASE g[NDIRECT] # None
      <4> DEFINE e == E.ind[g[NDIRECT]]
      <4>1. e = D.ind[g[NDIRECT]]
        BY <3>1, <3>3 DEF DiskType
      <4>2. Reached(E, E.ino[i]) = {f[m] : m \in S} \cup {e[k] : k \in K}
        BY <3>1, <3>3 DEF Reached
      <4>3. Reached(D, D.ino[i]) = {g[m] : m \in S} \cup {D.ind[g[NDIRECT]][k] : k \in K}
        BY <3>3 DEF Reached
      <4> HIDE DEF S, K, f, g, e
      <4> QED
        BY <2>2, <4>1, <4>2, <4>3 DEF BlocksOf
    <3> QED
      BY <3>2, <3>3
  <2> QED
    BY <2>3, <2>4
<1>7. \A a, b \in Inum : a # b => BlocksOf(E, E.ino[a]) \cap BlocksOf(E, E.ino[b]) = {}
  BY <1>2, <1>5, <1>6 DEF OwnedDisk
<1>8. E.used = UNION {BlocksOf(E, E.ino[a]) : a \in Inum}
  BY <1>2, <1>5, <1>6 DEF OwnedDisk
<1> QED
  BY <1>7, <1>8 DEF OwnedDisk

(* The same for an entry of an indirect block. *)
LEMMA OwnedEntry ==
  ASSUME NEW D \in DiskType, OwnedDisk(D), NEW E \in DiskType, NEW i \in Inum,
         NEW k \in 0 .. NINDIRECT - 1, NEW u \in Block \ D.used,
         D.ino[i].addrs[NDIRECT] # None, D.ind[D.ino[i].addrs[NDIRECT]][k] = None,
         \A j \in Inum : E.ino[j].addrs = D.ino[j].addrs,
         E.used = D.used \cup {u},
         E.ind = [[D.ind EXCEPT ![u] = [m \in 0 .. NINDIRECT - 1 |-> 0]]
                    EXCEPT ![D.ino[i].addrs[NDIRECT]][k] = u]
  PROVE  OwnedDisk(E)
<1> DEFINE a == D.ino[i].addrs[NDIRECT]
<1>1. \A j \in Inum : D.ino[j].addrs \in [0 .. NDIRECT -> {None} \cup Block]
  BY DEF DiskType, Dinode
<1>2. \A j \in Inum : BlocksOf(D, D.ino[j]) \subseteq D.used
  BY DEF OwnedDisk
<1>3. NDIRECT \in 0 .. NDIRECT /\ u # None
  BY ConstFacts
<1>4. \A j \in Inum : D.ino[j].addrs[NDIRECT] # u
  BY <1>2, <1>3 DEF BlocksOf, Reached
<1>5. a \in Block /\ a # u
  BY <1>1, <1>3, <1>4
<1>6. \A j \in Inum \ {i} : D.ino[j].addrs[NDIRECT] # a
  <2> SUFFICES ASSUME NEW j \in Inum \ {i}, D.ino[j].addrs[NDIRECT] = a PROVE FALSE
    OBVIOUS
  <2>1. a \in BlocksOf(D, D.ino[j]) /\ a \in BlocksOf(D, D.ino[i])
    BY <1>3 DEF BlocksOf, Reached
  <2> QED
    BY <2>1 DEF OwnedDisk
<1>7. ASSUME NEW j \in Inum \ {i} PROVE BlocksOf(E, E.ino[j]) = BlocksOf(D, D.ino[j])
  <2> DEFINE b == D.ino[j].addrs[NDIRECT]
  <2>1. b \in {None} \cup Block /\ b # u /\ b # a
    BY <1>1, <1>3, <1>4, <1>6
  <2>2. E.ino[j].addrs = D.ino[j].addrs
    OBVIOUS
  <2> HIDE DEF a
  <2>3. E.ind = [[D.ind EXCEPT ![u] = [m \in 0 .. NINDIRECT - 1 |-> 0]] EXCEPT ![a][k] = u]
    BY DEF a
  <2>4. b # None => E.ind[b] = D.ind[b]
    BY <2>1, <2>3 DEF DiskType
  <2>5. Reached(E, E.ino[j]) = Reached(D, D.ino[j])
    <3>1. CASE b = None
      BY <2>2, <3>1 DEF Reached
    <3>2. CASE b # None
      <4> DEFINE e == E.ind[b]
      <4>1. e = D.ind[b] /\ E.ino[j].addrs[NDIRECT] = b
        BY <2>2, <2>4, <3>2
      <4>2. Reached(E, E.ino[j]) = {D.ino[j].addrs[n] : n \in 0 .. NDIRECT} \cup {e[m] : m \in 0 .. NINDIRECT - 1}
        BY <2>2, <3>2, <4>1 DEF Reached
      <4>3. Reached(D, D.ino[j]) = {D.ino[j].addrs[n] : n \in 0 .. NDIRECT} \cup {D.ind[b][m] : m \in 0 .. NINDIRECT - 1}
        BY <3>2 DEF Reached
      <4> HIDE DEF e, b
      <4> QED
        BY <4>1, <4>2, <4>3
    <3> QED
      BY <3>1, <3>2
  <2> QED
    BY <2>5 DEF BlocksOf
<1>8. BlocksOf(E, E.ino[i]) = BlocksOf(D, D.ino[i]) \cup {u}
  <2>1. E.ind[a] = [D.ind[a] EXCEPT ![k] = u]
    BY <1>5 DEF DiskType
  <2>2. D.ind[a] \in [0 .. NINDIRECT - 1 -> {None} \cup Block]
    BY <1>5 DEF DiskType
  <2>0. D.ind[a][k] = None /\ a # None /\ E.ino[i].addrs = D.ino[i].addrs
    OBVIOUS
  <2> HIDE DEF a
  <2>3. {E.ind[a][m] : m \in 0 .. NINDIRECT - 1} \ {None} = ({D.ind[a][m] : m \in 0 .. NINDIRECT - 1} \ {None}) \cup {u}
    <3> DEFINE S == 0 .. NINDIRECT - 1
               T == {None} \cup Block
               g == D.ind[a]
               f == E.ind[a]
    <3>1. g \in [S -> T] /\ k \in S /\ g[k] = None /\ u # None /\ f = [g EXCEPT ![k] = u]
      BY <1>3, <2>0, <2>1, <2>2
    <3> HIDE DEF S, T, f, g
    <3>2. {f[m] : m \in S} \ {None} = ({g[m] : m \in S} \ {None}) \cup {u}
      BY <3>1, SetEntry
    <3> QED
      BY <3>2 DEF S, f, g
  <2>4. /\ Reached(E, E.ino[i]) = {D.ino[i].addrs[n] : n \in 0 .. NDIRECT} \cup {E.ind[a][m] : m \in 0 .. NINDIRECT - 1}
        /\ Reached(D, D.ino[i]) = {D.ino[i].addrs[n] : n \in 0 .. NDIRECT} \cup {D.ind[a][m] : m \in 0 .. NINDIRECT - 1}
    BY <2>0 DEF Reached, a
  <2> QED
    BY <2>3, <2>4 DEF BlocksOf
<1>9. \A x, y \in Inum : x # y => BlocksOf(E, E.ino[x]) \cap BlocksOf(E, E.ino[y]) = {}
  BY <1>2, <1>7, <1>8 DEF OwnedDisk
<1>10. E.used = UNION {BlocksOf(E, E.ino[x]) : x \in Inum}
  BY <1>2, <1>7, <1>8 DEF OwnedDisk
<1> QED
  BY <1>9, <1>10 DEF OwnedDisk

(* What an operation on inode i of D may leave: the other inodes as they were,
   and of i the type and the link count.                                   *)
Rewritten(D, i, E, c) ==
  /\ E \in DiskType /\ c \in Dinode
  /\ E.ino = [D.ino EXCEPT ![i] = c]
  /\ c.type = D.ino[i].type /\ c.nlink = D.ino[i].nlink
  /\ OwnedDisk(D) => OwnedDisk(E)

(* An inode may be given another link count or size. *)
LEMMA OwnedSame ==
  ASSUME NEW D, NEW E, D.used = E.used, D.ind = E.ind, OwnedDisk(D),
         \A i \in Inum : E.ino[i].addrs = D.ino[i].addrs
  PROVE  OwnedDisk(E)
<1>1. \A i \in Inum : BlocksOf(E, E.ino[i]) = BlocksOf(D, D.ino[i])
  BY DEF BlocksOf, Reached
<1> QED
  BY <1>1 DEF OwnedDisk

(* bmap() of a direct block, or of the indirect block. *)
LEMMA BmapDirect ==
  ASSUME NEW D \in DiskType, NEW i \in Inum, NEW n \in 0 .. NDIRECT
  PROVE  LET m == bmapDirect(D, D.ino[i], n)
             E == iupdate(m.D, i, m.c)
         IN  /\ m.D \in DiskType /\ m.D.ino = D.ino /\ m.D.dir = D.dir
             /\ Rewritten(D, i, E, m.c)
             /\ m.c.addrs[n] = m.addr
             /\ m.addr = None => m.c = D.ino[i]
             /\ m.c.size = D.ino[i].size
<1> DEFINE c == D.ino[i]
           u == Unused(D)
           m == bmapDirect(D, c, n)
           E == iupdate(m.D, i, m.c)
<1>1. c \in Dinode /\ c.addrs \in [0 .. NDIRECT -> {None} \cup Block]
  BY DEF DiskType, Dinode
<1>2. CASE c.addrs[n] # None
  <2>1. m.addr = c.addrs[n] /\ m.D = D /\ m.c = c
    BY <1>2 DEF bmapDirect
  <2>2. E.ino = [D.ino EXCEPT ![i] = c] /\ E \in DiskType /\ E.used = D.used /\ E.ind = D.ind
    BY <1>1, <2>1, UpdateOne
  <2>3. OwnedDisk(D) => OwnedDisk(E)
    BY <2>2, OwnedSame DEF DiskType
  <2> QED
    BY <1>1, <1>2, <2>1, <2>2, <2>3 DEF Rewritten
<1>3. CASE c.addrs[n] = None
  <2>1. m.addr = u /\ m.D = balloc(D) /\ m.c = [c EXCEPT !.addrs[n] = u]
    BY <1>3 DEF bmapDirect
  <2>2. CASE u = None /\ balloc(D) = D
    <3>1. m.c = c
      BY <1>1, <1>3, <2>1, <2>2 DEF Dinode
    <3>2. E.ino = [D.ino EXCEPT ![i] = c] /\ E \in DiskType /\ E.used = D.used /\ E.ind = D.ind
      BY <1>1, <2>1, <2>2, <3>1, UpdateOne
    <3>3. OwnedDisk(D) => OwnedDisk(E)
      BY <3>2, OwnedSame DEF DiskType
    <3> QED
      BY <1>1, <1>3, <2>1, <2>2, <3>1, <3>2, <3>3 DEF Rewritten
  <2>3. CASE /\ u \in Block \ D.used
             /\ balloc(D) \in DiskType
             /\ balloc(D).ino = D.ino /\ balloc(D).dir = D.dir
             /\ balloc(D).used = D.used \cup {u}
             /\ balloc(D).ind = [D.ind EXCEPT ![u] = [k \in 0 .. NINDIRECT - 1 |-> 0]]
    <3> HIDE DEF u, m, c
    <3>1. /\ m.c \in Dinode /\ m.c.addrs = [c.addrs EXCEPT ![n] = u]
          /\ m.c.type = c.type /\ m.c.nlink = c.nlink /\ m.c.size = c.size
      BY <1>1, <2>1, <2>3, SetAddr
    <3>2. /\ E.ino = [D.ino EXCEPT ![i] = m.c] /\ E \in DiskType
          /\ E.used = balloc(D).used /\ E.ind = balloc(D).ind
      BY <2>1, <2>3, <3>1, UpdateOne
    <3> HIDE DEF E
    <3>3. OwnedDisk(D) => OwnedDisk(E)
      <4> SUFFICES ASSUME OwnedDisk(D) PROVE OwnedDisk(E)
        OBVIOUS
      <4>1. E.ino[i].addrs = [D.ino[i].addrs EXCEPT ![n] = u]
        BY <3>1, <3>2 DEF DiskType, c
      <4>2. \A j \in Inum \ {i} : E.ino[j].addrs = D.ino[j].addrs
        BY <3>2 DEF DiskType
      <4>3. E.used = D.used \cup {u} /\ E.ind = [D.ind EXCEPT ![u] = [k \in 0 .. NINDIRECT - 1 |-> 0]]
        BY <2>3, <3>2
      <4>4. D.ino[i].addrs[n] = None /\ u \in Block \ D.used /\ E \in DiskType
        BY <1>3, <2>3, <3>2 DEF c
      <4> QED
        BY <4>1, <4>2, <4>3, <4>4, OwnedDirect
    <3>4. u # None /\ m.c.addrs[n] = u
      BY <1>1, <2>3, <3>1, ConstFacts
    <3> QED
      BY <1>1, <2>1, <2>3, <3>1, <3>2, <3>3, <3>4 DEF Rewritten, m, E, c
  <2> QED
    BY <2>2, <2>3, UnusedBlock
<1> QED
  BY <1>2, <1>3

(* One entry of an indirect block is set. *)
LEMMA SetInd ==
  ASSUME NEW D \in DiskType, NEW a \in Block, NEW k \in 0 .. NINDIRECT - 1, NEW u \in {None} \cup Block
  PROVE  LET E == [D EXCEPT !.ind[a][k] = u] IN
         /\ E \in DiskType /\ E.ino = D.ino /\ E.dir = D.dir /\ E.used = D.used
         /\ E.ind = [D.ind EXCEPT ![a][k] = u]
<1>1. D.ind \in [Block -> [0 .. NINDIRECT - 1 -> {None} \cup Block]]
  BY DEF DiskType
<1>2. [D.ind[a] EXCEPT ![k] = u] \in [0 .. NINDIRECT - 1 -> {None} \cup Block]
  BY <1>1
<1>3. [D.ind EXCEPT ![a][k] = u] \in [Block -> [0 .. NINDIRECT - 1 -> {None} \cup Block]]
  BY <1>1, <1>2
<1> QED
  BY <1>3 DEF DiskType

(* bmap() of a block behind the indirect block. *)
LEMMA BmapEntry ==
  ASSUME NEW D \in DiskType, NEW i \in Inum, NEW c \in Dinode, NEW k \in 0 .. NINDIRECT - 1
  PROVE  LET m == bmapEntry(D, c, k) IN
         /\ m.c = c /\ m.D \in DiskType /\ m.D.ino = D.ino /\ m.D.dir = D.dir
         /\ OwnedDisk(iupdate(D, i, c)) => OwnedDisk(iupdate(m.D, i, c))
<1> DEFINE a == c.addrs[NDIRECT]
           u == Unused(D)
           m == bmapEntry(D, c, k)
<1>1. CASE a = None \/ D.ind[a][k] # None
  BY <1>1 DEF bmapEntry
<1>2. CASE a # None /\ D.ind[a][k] = None
  <2>1. m.c = c /\ m.D = [balloc(D) EXCEPT !.ind[a][k] = u]
    BY <1>2 DEF bmapEntry
  <2>2. a \in Block /\ D.ind[a] \in [0 .. NINDIRECT - 1 -> {None} \cup Block]
    <3>1. c.addrs \in [0 .. NDIRECT -> {None} \cup Block] /\ NDIRECT \in 0 .. NDIRECT
      BY ConstFacts DEF Dinode
    <3> QED
      BY <1>2, <3>1 DEF DiskType
  <2> HIDE DEF u, m, a
  <2>3. CASE u = None /\ balloc(D) = D
    <3>1. m.D = D
      BY <1>2, <2>1, <2>2, <2>3 DEF DiskType
    <3> QED
      BY <2>1, <3>1 DEF m
  <2>4. CASE /\ u \in Block \ D.used
             /\ balloc(D) \in DiskType
             /\ balloc(D).ino = D.ino /\ balloc(D).dir = D.dir
             /\ balloc(D).used = D.used \cup {u}
             /\ balloc(D).ind = [D.ind EXCEPT ![u] = [n \in 0 .. NINDIRECT - 1 |-> 0]]
    <3>1. /\ m.D \in DiskType /\ m.D.ino = D.ino /\ m.D.dir = D.dir
          /\ m.D.used = D.used \cup {u}
          /\ m.D.ind = [[D.ind EXCEPT ![u] = [n \in 0 .. NINDIRECT - 1 |-> 0]] EXCEPT ![a][k] = u]
      <4> DEFINE B == balloc(D)
      <4>1. B \in DiskType /\ m.D = [B EXCEPT !.ind[a][k] = u] /\ u \in {None} \cup Block
        BY <2>1, <2>4
      <4> HIDE DEF B
      <4>2. /\ m.D \in DiskType /\ m.D.ino = B.ino /\ m.D.dir = B.dir /\ m.D.used = B.used
            /\ m.D.ind = [B.ind EXCEPT ![a][k] = u]
        BY <2>2, <4>1, SetInd
      <4> QED
        BY <2>4, <4>2 DEF B
    <3>2. OwnedDisk(iupdate(D, i, c)) => OwnedDisk(iupdate(m.D, i, c))
      <4> DEFINE D1 == iupdate(D, i, c)
                 E1 == iupdate(m.D, i, c)
      <4> SUFFICES ASSUME OwnedDisk(D1) PROVE OwnedDisk(E1)
        OBVIOUS
      <4>1. /\ E1 \in DiskType /\ E1.used = D.used \cup {u} /\ E1.ino = [D.ino EXCEPT ![i] = c]
            /\ E1.ind = [[D.ind EXCEPT ![u] = [n \in 0 .. NINDIRECT - 1 |-> 0]] EXCEPT ![a][k] = u]
        BY <3>1, UpdateOne
      <4>2. D1 \in DiskType /\ D1.used = D.used /\ D1.ino = [D.ino EXCEPT ![i] = c] /\ D1.ind = D.ind
        BY UpdateOne
      <4> HIDE DEF D1, E1
      <4>3. D1.ino[i].addrs[NDIRECT] = a
        BY <4>2 DEF DiskType, a
      <4>4. D1.ino[i].addrs[NDIRECT] # None /\ D1.ind[D1.ino[i].addrs[NDIRECT]][k] = None
        BY <1>2, <4>2, <4>3
      <4>5. E1.ind = [[D1.ind EXCEPT ![u] = [n \in 0 .. NINDIRECT - 1 |-> 0]]
                        EXCEPT ![D1.ino[i].addrs[NDIRECT]][k] = u]
        BY <4>1, <4>2, <4>3
      <4>6. u \in Block \ D1.used /\ E1.used = D1.used \cup {u} /\ \A j \in Inum : E1.ino[j].addrs = D1.ino[j].addrs
        BY <2>4, <4>1, <4>2
      <4> QED
        BY <4>1, <4>2, <4>4, <4>5, <4>6, OwnedEntry
    <3> QED
      BY <2>1, <2>4, <3>1, <3>2 DEF m
  <2> QED
    BY <2>3, <2>4, UnusedBlock DEF u
<1> QED
  BY <1>1, <1>2

(* writei(): whether it succeeds or not, disk and copy agree on the inode, and
   a block it has taken belongs to the inode.                              *)
LEMMA WriteOne ==
  ASSUME NEW D \in DiskType, NEW i \in Inum, NEW off \in Nat, NEW copied \in BOOLEAN
  PROVE  LET w == writei(D, i, D.ino[i], off, copied) IN
         /\ w.ok \in BOOLEAN
         /\ Rewritten(D, i, w.D, w.c) /\ w.D.dir = D.dir
         /\ off = 0 /\ copied /\ ~w.ok => w.c = D.ino[i]
<1> DEFINE c == D.ino[i]
           w == writei(D, i, c, off, copied)
           m == bmap(D, c, off)
           n == IF ~(m.addr # None /\ copied) THEN m.c ELSE [m.c EXCEPT !.size = IF off + 1 > @ THEN off + 1 ELSE @]
<1>0. c \in Dinode /\ D.ino = [D.ino EXCEPT ![i] = c]
  BY DEF DiskType
<1>1. CASE off > c.size \/ off >= MAXFILE
  <2>1. w.ok = FALSE /\ w.D = D /\ w.c = c
    BY <1>1 DEF writei
  <2> QED
    BY <1>0, <2>1 DEF Rewritten
<1>2. CASE ~(off > c.size \/ off >= MAXFILE)
  <2>1. w.ok = (m.addr # None /\ copied) /\ w.D = iupdate(m.D, i, n) /\ w.c = n
    BY <1>2 DEF writei
  <2>2. /\ m.D \in DiskType /\ m.D.dir = D.dir /\ m.c \in Dinode
        /\ m.c.type = c.type /\ m.c.nlink = c.nlink
        /\ m.D.ino = D.ino
        /\ off = 0 /\ m.addr = None => m.c = c
        /\ OwnedDisk(D) => OwnedDisk(iupdate(m.D, i, m.c))
    <3>1. CASE off < NDIRECT
      <4>1. m = bmapDirect(D, c, off) /\ off \in 0 .. NDIRECT
        BY <3>1, ConstFacts DEF bmap
      <4> DEFINE b == bmapDirect(D, c, off)
      <4>2. /\ b.D \in DiskType /\ b.D.ino = D.ino /\ b.D.dir = D.dir
            /\ Rewritten(D, i, iupdate(b.D, i, b.c), b.c)
            /\ b.addr = None => b.c = D.ino[i]
        BY <4>1, BmapDirect
      <4>3. m = b
        BY <4>1
      <4> HIDE DEF m, b
      <4> QED
        BY <4>2, <4>3 DEF Rewritten
    <3>2. CASE ~(off < NDIRECT)
      <4> DEFINE d == bmapDirect(D, c, NDIRECT)
                 E == iupdate(d.D, i, d.c)
                 k == off - NDIRECT
      <4>1. m = bmapEntry(d.D, d.c, k)
        BY <3>2 DEF bmap
      <4>2. k \in 0 .. NINDIRECT - 1 /\ off # 0 /\ NDIRECT \in 0 .. NDIRECT
        BY <1>2, <3>2, ConstFacts DEF MAXFILE
      <4>3. /\ d.D \in DiskType /\ d.D.ino = D.ino /\ d.D.dir = D.dir
            /\ Rewritten(D, i, E, d.c)
        BY <4>2, BmapDirect
      <4> HIDE DEF d, k, m
      <4>4. /\ m.c = d.c /\ m.D \in DiskType /\ m.D.ino = d.D.ino /\ m.D.dir = d.D.dir
            /\ OwnedDisk(iupdate(d.D, i, d.c)) => OwnedDisk(iupdate(m.D, i, d.c))
        BY <4>1, <4>2, <4>3, BmapEntry DEF Rewritten
      <4> QED
        BY <4>2, <4>3, <4>4 DEF Rewritten
    <3> QED
      BY <3>1, <3>2
  <2>3. /\ n \in Dinode /\ n.type = c.type /\ n.nlink = c.nlink /\ n.addrs = m.c.addrs
        /\ off = 0 /\ m.addr = None => n = c
    <3> HIDE DEF m
    <3> QED
      BY <2>2 DEF Dinode
  <2> HIDE DEF n, m
  <2>4. /\ w.D \in DiskType /\ w.D.ino = [D.ino EXCEPT ![i] = n] /\ w.D.dir = D.dir
        /\ w.D.used = m.D.used /\ w.D.ind = m.D.ind
    BY <2>1, <2>2, <2>3, UpdateOne
  <2>5. OwnedDisk(D) => OwnedDisk(w.D)
    <3> DEFINE E == iupdate(m.D, i, m.c)
    <3> SUFFICES ASSUME OwnedDisk(D) PROVE OwnedDisk(w.D)
      OBVIOUS
    <3>1. E.ino = [D.ino EXCEPT ![i] = m.c] /\ E.used = m.D.used /\ E.ind = m.D.ind /\ OwnedDisk(E)
      BY <2>2, UpdateOne
    <3> HIDE DEF E, w
    <3>2. \A j \in Inum : w.D.ino[j].addrs = E.ino[j].addrs
      BY <2>3, <2>4, <3>1 DEF DiskType
    <3>3. E.used = w.D.used /\ E.ind = w.D.ind
      BY <2>4, <3>1
    <3> QED
      BY <3>1, <3>2, <3>3, OwnedSame
  <2> HIDE DEF w
  <2> QED
    BY <2>1, <2>2, <2>3, <2>4, <2>5 DEF Rewritten, w
<1> QED
  BY <1>1, <1>2

(* An entry of a directory is set. *)
LEMMA SetName ==
  ASSUME NEW D \in DiskType, NEW i \in Inum, NEW name \in DirNames, NEW x \in {None} \cup Inum
  PROVE  LET E == [D EXCEPT !.dir[i][name] = x] IN
         /\ E \in DiskType /\ E.ino = D.ino /\ E.used = D.used /\ E.ind = D.ind
         /\ E.dir = [D.dir EXCEPT ![i][name] = x]
<1>1. D.dir \in [Inum -> [DirNames -> {None} \cup Inum]]
  BY DEF DiskType
<1>2. [D.dir[i] EXCEPT ![name] = x] \in [DirNames -> {None} \cup Inum]
  BY <1>1
<1>3. [D.dir EXCEPT ![i][name] = x] \in [Inum -> [DirNames -> {None} \cup Inum]]
  BY <1>1, <1>2
<1> QED
  BY <1>3 DEF DiskType

(* dirlink(): the entry is there, or nothing has changed in the directory. *)
LEMMA LinkOne ==
  ASSUME NEW D \in DiskType, NEW i \in Inum, NEW name \in DirNames, NEW x \in Inum
  PROVE  LET l == dirlink(D, i, D.ino[i], name, x) IN
         /\ l.ok \in BOOLEAN
         /\ Rewritten(D, i, l.D, l.c)
         /\ l.ok => D.dir[i][name] = None /\ l.D.dir = [D.dir EXCEPT ![i][name] = x]
         /\ ~l.ok => l.D.dir = D.dir /\ l.c = D.ino[i] /\ l.D.ino = D.ino
<1> DEFINE l == dirlink(D, i, D.ino[i], name, x)
           w == writei(D, i, D.ino[i], 0, TRUE)
<1>0. D.ino[i] \in Dinode /\ D.ino = [D.ino EXCEPT ![i] = D.ino[i]]
  BY DEF DiskType
<1>1. CASE D.dir[i][name] # None
  <2>1. l.ok = FALSE /\ l.D = D /\ l.c = D.ino[i]
    BY <1>1 DEF dirlink, dirlookup
  <2> QED
    BY <1>0, <2>1 DEF Rewritten
<1>2. CASE D.dir[i][name] = None
  <2>1. /\ w.ok \in BOOLEAN /\ Rewritten(D, i, w.D, w.c) /\ w.D.dir = D.dir
        /\ ~w.ok => w.c = D.ino[i]
    <3>1. 0 \in Nat /\ TRUE \in BOOLEAN
      OBVIOUS
    <3>2. /\ w.ok \in BOOLEAN
          /\ Rewritten(D, i, w.D, w.c) /\ w.D.dir = D.dir
          /\ 0 = 0 /\ TRUE /\ ~w.ok => w.c = D.ino[i]
      BY <3>1, WriteOne, Zenon
    <3> QED
      BY <3>2
  <2>2. l = IF w.ok THEN [w EXCEPT !.D.dir[i][name] = x] ELSE w
    BY <1>2 DEF dirlink, dirlookup
  <2>3. w = [ok |-> w.ok, D |-> w.D, c |-> w.c]
    BY DEF writei
  <2>4. CASE ~w.ok
    <3>1. l = w
      BY <2>2, <2>4
    <3> HIDE DEF l, w
    <3> QED
      BY <1>0, <2>1, <2>4, <3>1 DEF Rewritten, l
  <2>5. CASE w.ok
    <3>1. l.ok = w.ok /\ l.c = w.c /\ l.D = [w.D EXCEPT !.dir[i][name] = x]
      <4> HIDE DEF w, l
      <4> QED
        BY <2>2, <2>3, <2>5
    <3> HIDE DEF w, l
    <3>2. /\ l.D \in DiskType /\ l.D.ino = w.D.ino /\ l.D.used = w.D.used /\ l.D.ind = w.D.ind
          /\ l.D.dir = [D.dir EXCEPT ![i][name] = x]
      BY <2>1, <3>1, SetName DEF Rewritten
    <3>3. OwnedDisk(D) => OwnedDisk(l.D)
      BY <2>1, <3>2, OwnedSame DEF Rewritten
    <3> QED
      BY <1>2, <2>1, <2>5, <3>1, <3>2, <3>3 DEF Rewritten, l
  <2> QED
    BY <2>1, <2>4, <2>5
<1> QED
  BY <1>1, <1>2

(* itrunc(): the blocks of the inode are free, and only they. *)
LEMMA TruncOne ==
  ASSUME NEW D \in DiskType, NEW i \in Inum
  PROVE  LET E == itrunc(D, i, D.ino[i]) IN
         /\ E \in DiskType
         /\ E.ino = [D.ino EXCEPT ![i] = [D.ino[i] EXCEPT !.size = 0, !.addrs = Zero.addrs]]
         /\ E.ino[i] \in Dinode /\ E.ino[i].type = D.ino[i].type /\ E.ino[i].nlink = D.ino[i].nlink
         /\ E.ino[i].addrs = Zero.addrs
         /\ E.dir = [D.dir EXCEPT ![i] = NoEntries]
         /\ OwnedDisk(D) => OwnedDisk(E)
<1> DEFINE c == D.ino[i]
           E == itrunc(D, i, c)
           z == [c EXCEPT !.size = 0, !.addrs = Zero.addrs]
           F == bfree(D, BlocksOf(D, c))
<1>1. c \in Dinode
  BY DEF DiskType
<1>2. /\ z \in Dinode /\ z.type = c.type /\ z.nlink = c.nlink /\ z.addrs = Zero.addrs
  BY <1>1, ZeroType DEF Dinode
<1>3. /\ F \in DiskType /\ F.ino = D.ino /\ F.dir = D.dir /\ F.ind = D.ind
      /\ F.used = D.used \ BlocksOf(D, c)
  BY DEF bfree, DiskType
<1>4. E = [F EXCEPT !.ino[i] = z, !.dir[i] = NoEntries]
  BY DEF itrunc
<1> HIDE DEF z, F, E, c
<1>5. /\ E \in DiskType /\ E.ino = [D.ino EXCEPT ![i] = z] /\ E.dir = [D.dir EXCEPT ![i] = NoEntries]
      /\ E.used = D.used \ BlocksOf(D, c) /\ E.ind = D.ind
  BY <1>2, <1>3, <1>4, NoEntriesType DEF DiskType
<1>6. E.ino[i] = z /\ \A j \in Inum \ {i} : E.ino[j] = D.ino[j]
  BY <1>5 DEF DiskType
<1>7. OwnedDisk(D) => OwnedDisk(E)
  <2> SUFFICES ASSUME OwnedDisk(D) PROVE OwnedDisk(E)
    OBVIOUS
  <2>1. \A j \in Inum \ {i} : BlocksOf(E, E.ino[j]) = BlocksOf(D, D.ino[j])
    BY <1>5, <1>6 DEF BlocksOf, Reached
  <2>2. BlocksOf(E, E.ino[i]) = {}
    BY <1>2, <1>6, ZeroType, ConstFacts DEF BlocksOf, Reached
  <2>3. BlocksOf(D, c) = BlocksOf(D, D.ino[i])
    BY DEF c
  <2>4. \A a, b \in Inum : a # b => BlocksOf(E, E.ino[a]) \cap BlocksOf(E, E.ino[b]) = {}
    BY <2>1, <2>2 DEF OwnedDisk
  <2>5. E.used = UNION {BlocksOf(E, E.ino[a]) : a \in Inum}
    BY <1>5, <2>1, <2>2, <2>3 DEF OwnedDisk
  <2> QED
    BY <2>4, <2>5 DEF OwnedDisk
<1> QED
  BY <1>2, <1>5, <1>6, <1>7 DEF E, z, c

(* ... and type 0: the inode is blank. *)
LEMMA FreeOne ==
  ASSUME NEW D \in DiskType, NEW i \in Inum
  PROVE  LET E == iupdate(itrunc(D, i, D.ino[i]), i, Zero) IN
         /\ E \in DiskType /\ E.ino = [D.ino EXCEPT ![i] = Zero]
         /\ E.dir = [D.dir EXCEPT ![i] = NoEntries]
         /\ OwnedDisk(D) => OwnedDisk(E)
<1> DEFINE T == itrunc(D, i, D.ino[i])
           E == iupdate(T, i, Zero)
<1>1. /\ T \in DiskType /\ T.ino[i].addrs = Zero.addrs
      /\ T.ino = [D.ino EXCEPT ![i] = [D.ino[i] EXCEPT !.size = 0, !.addrs = Zero.addrs]]
      /\ T.dir = [D.dir EXCEPT ![i] = NoEntries]
      /\ OwnedDisk(D) => OwnedDisk(T)
  BY TruncOne
<1> HIDE DEF T
<1>2. /\ E \in DiskType /\ E.ino = [T.ino EXCEPT ![i] = Zero]
      /\ E.dir = T.dir /\ E.used = T.used /\ E.ind = T.ind
  BY <1>1, UpdateOne, ZeroType
<1>3. \A j \in Inum : E.ino[j].addrs = T.ino[j].addrs
  BY <1>1, <1>2 DEF DiskType
<1>4. OwnedDisk(T) => OwnedDisk(E)
  BY <1>2, <1>3, OwnedSame
<1> QED
  BY <1>1, <1>2, <1>4 DEF T

---------------------------------------------------------------------------
(* Counting references.                                                    *)

(* 1 where x is v. *)
Is(x, v) == IF x = v THEN 1 ELSE 0

(* One slot takes another value. *)
LEMMA OccStep ==
  ASSUME NEW S, IsFiniteSet(S), NEW F, DOMAIN F = S, NEW G, DOMAIN G = S, NEW a \in S,
         \A s \in S \ {a} : G[s] = F[s], NEW x
  PROVE  Occ(G, x) = Occ(F, x) - Is(F[a], x) + Is(G[a], x) /\ Occ(F, x) \in Nat /\ Occ(G, x) \in Nat
<1> DEFINE R == {s \in S : F[s] = x} \ {a}
<1>2. IsFiniteSet(R) /\ Cardinality(R) \in Nat
  BY FS_Subset, FS_CardinalityType
<1>3. a \notin R /\ Cardinality(R \cup {a}) = Cardinality(R) + 1
  BY <1>2, FS_AddElement
<1>4. ASSUME NEW H, DOMAIN H = S, \A s \in S \ {a} : H[s] = F[s]
      PROVE  Occ(H, x) = Cardinality(R) + Is(H[a], x)
  <2>1. CASE H[a] = x
    <3>1. {s \in S : H[s] = x} = R \cup {a}
      BY <1>4, <2>1
    <3> HIDE DEF R
    <3> QED
      BY <1>3, <1>4, <2>1, <3>1 DEF Occ, Is
  <2>2. CASE H[a] # x
    <3>1. {s \in S : H[s] = x} = R
      BY <1>4, <2>2
    <3> HIDE DEF R
    <3> QED
      BY <1>2, <1>4, <2>2, <3>1 DEF Occ, Is
  <2> QED
    BY <2>1, <2>2
<1> HIDE DEF R
<1>5. Occ(F, x) = Cardinality(R) + Is(F[a], x) /\ Occ(G, x) = Cardinality(R) + Is(G[a], x)
  BY <1>4
<1> QED
  BY <1>2, <1>5 DEF Is

(* Distinct slots are counted apart. *)
LEMMA OccSome ==
  ASSUME NEW S, IsFiniteSet(S), NEW F, DOMAIN F = S, NEW x
  PROVE  /\ Occ(F, x) \in Nat
         /\ Occ(F, x) = 0 <=> \A a \in S : F[a] # x
         /\ Occ(F, x) <= 1 => \A a, b \in S : F[a] = x /\ F[b] = x => a = b
<1> DEFINE R == {s \in S : F[s] = x}
<1>1. IsFiniteSet(R) /\ Cardinality(R) \in Nat /\ Occ(F, x) = Cardinality(R)
  BY FS_Subset, FS_CardinalityType DEF Occ
<1>2. Cardinality(R) = 0 <=> R = {}
  BY <1>1, FS_EmptySet
<1>3. ASSUME NEW a \in S, NEW b \in S, F[a] = x, F[b] = x, a # b PROVE Cardinality(R) > 1
  <2>1. IsFiniteSet(R \ {a}) /\ Cardinality(R \ {a}) = Cardinality(R) - 1
    BY <1>1, <1>3, FS_RemoveElement
  <2>2. b \in R \ {a}
    BY <1>3
  <2>3. Cardinality(R \ {a}) # 0
    BY <2>1, <2>2, FS_EmptySet
  <2> HIDE DEF R
  <2> QED
    BY <1>1, <2>1, <2>3, FS_CardinalityType
<1>4. R = {} <=> \A a \in S : F[a] # x
  OBVIOUS
<1>5. Cardinality(R) <= 1 => \A a, b \in S : F[a] = x /\ F[b] = x => a = b
  <2> SUFFICES ASSUME Cardinality(R) <= 1, NEW a \in S, NEW b \in S, F[a] = x, F[b] = x, a # b
               PROVE  FALSE
    OBVIOUS
  <2> HIDE DEF R
  <2> QED
    BY <1>1, <1>3
<1> HIDE DEF R
<1> QED
  BY <1>1, <1>2, <1>4, <1>5

(* What refers to i on p's behalf. *)
Tally(w, o, s, i) == Is(w, i) + Is(IpIn(o), i) + Is(o.tgt, i) + Is(FirstIn(s), i) + Is(SecondIn(s), i)
Mine(p, i) == Tally(cwd[p], op[p], puts[p], i)

(* The tables are finite. *)
LEMMA FiniteFacts == IsFiniteSet(Proc) /\ IsFiniteSet(File) /\ IsFiniteSet(Fd) /\ IsFiniteSet(Inum) /\ IsFiniteSet(Names)
  BY FsAssumption, FS_Interval DEF File, Fd, Inum

(* A step of p that moves only references of its own. *)
LEMMA RefStep ==
  ASSUME TypeOK, RefInv, NEW p \in Proc,
         \A q \in Proc \ {p} : op'[q] = op[q] /\ puts'[q] = puts[q] /\ cwd'[q] = cwd[q],
         \A f \in File : file'[f].ip = file[f].ip,
         cwd' \in [Proc -> {None} \cup Inum],
         \A i \in Inum : mem'[i].ref = mem[i].ref - Mine(p, i) + Mine(p, i)'
  PROVE  RefInv'
<1> SUFFICES ASSUME NEW i \in Inum
             PROVE  mem'[i].ref = Occ(FileIp', i) + Occ(cwd', i) + Occ(IpOf', i) + Occ(TgtOf', i)
                                  + Occ(Put1', i) + Occ(Put2', i)
  BY DEF RefInv
<1>0. IsFiniteSet(Proc) /\ IsFiniteSet(File)
  BY FiniteFacts
<1>1. FileIp' = FileIp
  BY DEF FileIp
<1>2. /\ DOMAIN cwd = Proc /\ DOMAIN IpOf = Proc /\ DOMAIN TgtOf = Proc /\ DOMAIN Put1 = Proc /\ DOMAIN Put2 = Proc
      /\ DOMAIN cwd' = Proc /\ DOMAIN IpOf' = Proc /\ DOMAIN TgtOf' = Proc /\ DOMAIN Put1' = Proc /\ DOMAIN Put2' = Proc
  BY DEF TypeOK, IpOf, TgtOf, Put1, Put2
<1>3. \A q \in Proc \ {p} : /\ cwd'[q] = cwd[q] /\ IpOf'[q] = IpOf[q] /\ TgtOf'[q] = TgtOf[q]
                            /\ Put1'[q] = Put1[q] /\ Put2'[q] = Put2[q]
  BY DEF IpOf, TgtOf, Put1, Put2
<1>7. Occ(cwd', i) = Occ(cwd, i) - Is(cwd[p], i) + Is(cwd'[p], i) /\ Occ(cwd, i) \in Nat /\ Occ(cwd', i) \in Nat
  <2>1. IsFiniteSet(Proc) /\ DOMAIN cwd = Proc /\ DOMAIN cwd' = Proc /\ \A q \in Proc \ {p} : cwd'[q] = cwd[q]
    BY <1>0, <1>2
  <2> QED
    BY <2>1, OccStep
<1>8. Occ(IpOf', i) = Occ(IpOf, i) - Is(IpOf[p], i) + Is(IpOf'[p], i) /\ Occ(IpOf, i) \in Nat /\ Occ(IpOf', i) \in Nat
  BY <1>0, <1>2, <1>3, OccStep
<1>9. Occ(TgtOf', i) = Occ(TgtOf, i) - Is(TgtOf[p], i) + Is(TgtOf'[p], i) /\ Occ(TgtOf, i) \in Nat /\ Occ(TgtOf', i) \in Nat
  BY <1>0, <1>2, <1>3, OccStep
<1>10. Occ(Put1', i) = Occ(Put1, i) - Is(Put1[p], i) + Is(Put1'[p], i) /\ Occ(Put1, i) \in Nat /\ Occ(Put1', i) \in Nat
  BY <1>0, <1>2, <1>3, OccStep
<1>11. Occ(Put2', i) = Occ(Put2, i) - Is(Put2[p], i) + Is(Put2'[p], i) /\ Occ(Put2, i) \in Nat /\ Occ(Put2', i) \in Nat
  BY <1>0, <1>2, <1>3, OccStep
<1>12. Occ(FileIp, i) \in Nat
  BY <1>0, OccSome DEF FileIp
<1>13. mem[i].ref = Occ(FileIp, i) + Occ(cwd, i) + Occ(IpOf, i) + Occ(TgtOf, i) + Occ(Put1, i) + Occ(Put2, i)
  BY DEF RefInv
<1>14. mem'[i].ref = mem[i].ref - Mine(p, i) + Mine(p, i)'
  OBVIOUS
<1>15. /\ Mine(p, i) = Is(cwd[p], i) + Is(IpOf[p], i) + Is(TgtOf[p], i) + Is(Put1[p], i) + Is(Put2[p], i)
       /\ Mine(p, i)' = Is(cwd'[p], i) + Is(IpOf'[p], i) + Is(TgtOf'[p], i) + Is(Put1'[p], i) + Is(Put2'[p], i)
  BY DEF Mine, Tally, IpOf, TgtOf, Put1, Put2
<1> QED
  BY <1>1, <1>7, <1>8, <1>9, <1>10, <1>11, <1>12, <1>13, <1>14, <1>15 DEF Is

(* The last reference is the only one. *)
LEMMA OnlyHolder ==
  ASSUME TypeOK, RefInv, NEW p \in Proc, NEW i \in Inum, mem[i].ref = 1, Put1[p] = i
  PROVE  /\ \A q \in Proc : cwd[q] # i /\ IpOf[q] # i /\ TgtOf[q] # i /\ Put2[q] # i /\ (q # p => Put1[q] # i)
         /\ \A f \in File : file[f].ip # i
<1>0. IsFiniteSet(Proc) /\ IsFiniteSet(File)
  BY FiniteFacts
<1>1. /\ DOMAIN cwd = Proc /\ DOMAIN IpOf = Proc /\ DOMAIN TgtOf = Proc /\ DOMAIN Put1 = Proc /\ DOMAIN Put2 = Proc
      /\ DOMAIN FileIp = File
  BY DEF TypeOK, IpOf, TgtOf, Put1, Put2, FileIp
<1>2. /\ Occ(cwd, i) \in Nat /\ Occ(IpOf, i) \in Nat /\ Occ(TgtOf, i) \in Nat /\ Occ(Put1, i) \in Nat
      /\ Occ(Put2, i) \in Nat /\ Occ(FileIp, i) \in Nat /\ Occ(Put1, i) # 0
  BY <1>0, <1>1, OccSome
<1>3. 1 = Occ(FileIp, i) + Occ(cwd, i) + Occ(IpOf, i) + Occ(TgtOf, i) + Occ(Put1, i) + Occ(Put2, i)
  BY DEF RefInv
<1>4. /\ Occ(cwd, i) = 0 /\ Occ(IpOf, i) = 0 /\ Occ(TgtOf, i) = 0 /\ Occ(Put2, i) = 0 /\ Occ(FileIp, i) = 0
      /\ Occ(Put1, i) <= 1
  <2>1. \A a, b, c, d, e, f \in Nat : e # 0 /\ 1 = f + a + b + c + e + d
                                     => a = 0 /\ b = 0 /\ c = 0 /\ d = 0 /\ f = 0 /\ e <= 1
    OBVIOUS
  <2> QED
    BY <1>2, <1>3, <2>1
<1>5. \A f \in File : FileIp[f] # i
  BY <1>0, <1>1, <1>4, OccSome
<1>6. \A q \in Proc : cwd[q] # i /\ IpOf[q] # i /\ TgtOf[q] # i /\ Put2[q] # i
  BY <1>0, <1>1, <1>4, OccSome
<1>7. \A q \in Proc : q # p => Put1[q] # i
  BY <1>0, <1>1, <1>4, OccSome
<1> QED
  BY <1>5, <1>6, <1>7 DEF FileIp

---------------------------------------------------------------------------
(* The part of the invariant that is about who holds what.                 *)

Core ==
  /\ TypeOK /\ PcInv /\ BootInv /\ FileInv /\ RefInv /\ LockInv /\ CopyInv /\ AliveInv

MemType == [Inum -> [ref : Nat, valid : BOOLEAN, c : Dinode]]

(* iget() counts a reference and keeps a copy that somebody uses. *)
LEMMA IgetFacts ==
  ASSUME NEW m \in MemType, NEW j \in Inum
  PROVE  /\ iget(m, j) \in MemType
         /\ \A x \in Inum : iget(m, j)[x].ref = m[x].ref + Is(j, x)
         /\ \A x \in Inum : iget(m, j)[x].valid => m[x].valid /\ iget(m, j)[x].c = m[x].c
         /\ \A x \in Inum : m[x].ref > 0 => iget(m, j)[x].valid = m[x].valid /\ iget(m, j)[x].c = m[x].c
<1>1. CASE m[j].ref > 0
  <2>1. iget(m, j) = [m EXCEPT ![j] = [m[j] EXCEPT !.ref = @ + 1]]
    BY <1>1 DEF iget
  <2> DEFINE r == [m[j] EXCEPT !.ref = @ + 1]
  <2>2. r \in [ref : Nat, valid : BOOLEAN, c : Dinode] /\ r.ref = m[j].ref + 1 /\ r.valid = m[j].valid /\ r.c = m[j].c
    BY DEF MemType
  <2> HIDE DEF r
  <2> QED
    BY <2>1, <2>2 DEF MemType, Is, r
<1>2. CASE ~(m[j].ref > 0)
  <2> DEFINE r == [Absent EXCEPT !.ref = 1]
  <2>0. iget(m, j) = [m EXCEPT ![j] = r]
    BY <1>2 DEF iget
  <2>1. iget(m, j) = [m EXCEPT ![j] = r] /\ m[j].ref = 0
    <3> HIDE DEF r
    <3> QED
      BY <1>2, <2>0 DEF MemType
  <2>2. r \in [ref : Nat, valid : BOOLEAN, c : Dinode] /\ r.ref = 1 /\ r.valid = FALSE
    BY ZeroType DEF Absent
  <2> HIDE DEF r
  <2> QED
    BY <2>1, <2>2 DEF MemType, Is
<1> QED
  BY <1>1, <1>2

(* ilock() leaves a copy. *)
LEMMA KnownFacts ==
  ASSUME NEW m \in MemType, NEW i \in Inum, NEW c \in Dinode
  PROVE  /\ Known(m, i, c) \in MemType
         /\ \A x \in Inum : Known(m, i, c)[x].ref = m[x].ref
         /\ Known(m, i, c)[i].valid /\ Known(m, i, c)[i].c = c
         /\ \A x \in Inum \ {i} : Known(m, i, c)[x] = m[x]
  BY DEF Known, MemType

(* What ilock() shows is what is on the disk. *)
LEMMA CopyIsDisk ==
  ASSUME TypeOK, CopyInv, NEW i \in Inum
  PROVE  Copy(i) = disk.ino[i] /\ disk.ino[i] \in Dinode
  BY DEF TypeOK, CopyInv, Copy, DiskType

(* Steps of p that leave the other processes where they are. *)
Own(p) ==
  /\ \A q \in Proc \ {p} : /\ op'[q] = op[q] /\ puts'[q] = puts[q] /\ freeing'[q] = freeing[q]
                           /\ cwd'[q] = cwd[q] /\ ofile'[q] = ofile[q]
                           /\ (q \in alive' <=> q \in alive) /\ (q \in out' <=> q \in out)

(* p takes or gives back locks of its own, and holds those it should. *)
OwnLocks(p) ==
  /\ \A i \in Inum : lock'[i] = lock[i] \/ (lock[i] \in {p, NoProc} /\ lock'[i] \in {p, NoProc})
  /\ \A i \in Inum : lock'[i] = p <=> Locks(p, i)'
  /\ Apart(op'[p], puts'[p])

(* No inode in use loses its type, and p leaves alone what others have locked. *)
OwnInodes(p) ==
  /\ \A x \in Inum : disk.ino[x].type # "free" => disk'.ino[x].type = disk.ino[x].type
  /\ \A x \in Inum : lock[x] \notin {p, NoProc} /\ mem[x].ref > 0 =>
       disk'.dir[x] = disk.dir[x] /\ mem'[x].valid = mem[x].valid /\ mem'[x].c = mem[x].c

(* The first of the inodes that p has to put. *)
LEMMA FirstPut ==
  ASSUME TypeOK, NEW p \in Proc, puts[p] # <<>>
  PROVE  /\ puts[p][1].i \in Inum /\ puts[p][1].unlock \in BOOLEAN /\ Head(puts[p]) = puts[p][1]
         /\ Len(puts[p]) > 0 /\ Len(puts[p]) \in Nat
         /\ Len(puts[p]) > 1 => puts[p][2].i \in Inum /\ puts[p][2].unlock \in BOOLEAN
         /\ Tail(puts[p]) \in Seq([i : Inum, unlock : BOOLEAN])
         /\ Len(Tail(puts[p])) = Len(puts[p]) - 1
         /\ Len(puts[p]) = 1 => Tail(puts[p]) = <<>>
         /\ Len(puts[p]) = 2 => Tail(puts[p]) # <<>> /\ Tail(puts[p])[1] = puts[p][2]
<1> DEFINE T == [i : Inum, unlock : BOOLEAN]
           s == puts[p]
<1>1. s \in Seq(T) /\ s # <<>>
  BY DEF TypeOK
<1> HIDE DEF T, s
<1>2. Len(s) \in Nat /\ Len(s) > 0 /\ Head(s) = s[1] /\ s[1] \in T /\ (Len(s) > 1 => s[2] \in T)
  BY <1>1
<1>3. /\ Tail(s) \in Seq(T) /\ Len(Tail(s)) = Len(s) - 1
      /\ Len(s) = 1 => Tail(s) = <<>>
      /\ Len(s) = 2 => Tail(s) # <<>> /\ Tail(s)[1] = s[2]
  BY <1>1, <1>2
<1> QED
  BY <1>2, <1>3 DEF T, s

(* An inode that somebody has locked is referred to. *)
LEMMA LockedHeld ==
  ASSUME Core, NEW q \in Proc, NEW x \in Inum, Locks(q, x)
  PROVE  mem[x].ref > 0 /\ lock[x] = q
<1>0. IsFiniteSet(Proc) /\ IsFiniteSet(File)
  BY FiniteFacts
<1>1. /\ DOMAIN cwd = Proc /\ DOMAIN IpOf = Proc /\ DOMAIN TgtOf = Proc /\ DOMAIN Put1 = Proc /\ DOMAIN Put2 = Proc
      /\ DOMAIN FileIp = File
  BY DEF Core, TypeOK, IpOf, TgtOf, Put1, Put2, FileIp
<1>2. /\ Occ(cwd, x) \in Nat /\ Occ(IpOf, x) \in Nat /\ Occ(TgtOf, x) \in Nat /\ Occ(Put1, x) \in Nat
      /\ Occ(Put2, x) \in Nat /\ Occ(FileIp, x) \in Nat
  BY <1>0, <1>1, OccSome
<1>3. IpOf[q] = x \/ TgtOf[q] = x \/ Put1[q] = x \/ Put2[q] = x
  BY DEF Locks, Holds, IpOf, TgtOf, Put1, Put2, IpIn, FirstIn, SecondIn, HasIp
<1>4. Occ(IpOf, x) # 0 \/ Occ(TgtOf, x) # 0 \/ Occ(Put1, x) # 0 \/ Occ(Put2, x) # 0
  BY <1>0, <1>1, <1>3, OccSome
<1>5. mem[x].ref = Occ(FileIp, x) + Occ(cwd, x) + Occ(IpOf, x) + Occ(TgtOf, x) + Occ(Put1, x) + Occ(Put2, x)
  BY DEF Core, RefInv
<1>7. mem[x].ref > 0
  <2> DEFINE a == Occ(FileIp, x)
             b == Occ(cwd, x)
             c == Occ(IpOf, x)
             d == Occ(TgtOf, x)
             e == Occ(Put1, x)
             f == Occ(Put2, x)
             r == mem[x].ref
  <2>1. /\ a \in Nat /\ b \in Nat /\ c \in Nat /\ d \in Nat /\ e \in Nat /\ f \in Nat
        /\ r = a + b + c + d + e + f /\ (c # 0 \/ d # 0 \/ e # 0 \/ f # 0)
    BY <1>2, <1>4, <1>5
  <2> HIDE DEF a, b, c, d, e, f, r
  <2>2. r > 0
    BY <2>1
  <2> QED
    BY <2>2 DEF r
<1> QED
  BY <1>7 DEF Core, LockInv

(* A step of p preserves the core of the invariant. *)
LEMMA CoreGen ==
  ASSUME Core, NEW p \in Proc, TypeOK', boot' = None, Own(p),
         OpOK(op'[p]), ProcOK(p)', FileInv', RefInv', \A f \in File : file'[f].ip # None => file'[f].ip \in Live,
         OwnLocks(p), CopyInv', OwnInodes(p), OpAlive(op[p])', freeing'[p] # "trunc",
         op'[p].pc = "fill" => \A q \in Proc \ {p} : op[q].pc = "fill" => op[q].tgt # op'[p].tgt
  PROVE  Core'
<1> USE DEF Core
<1>1. PcInv'
  BY DEF PcInv, Own, ProcOK
<1>2. BootInv'
  BY DEF BootInv
<1>4. LockInv'
  <2>1. ASSUME NEW q \in Proc \ {p}, NEW i \in Inum PROVE Locks(q, i)' <=> Locks(q, i)
    BY DEF Locks, Own
  <2>2. ASSUME NEW q \in Proc \ {p}, NEW i \in Inum PROVE lock'[i] = q <=> lock[i] = q
    BY FsAssumption DEF OwnLocks
  <2>3. ASSUME NEW q \in Proc \ {p} PROVE Apart(op'[q], puts'[q])
    BY DEF Own, LockInv
  <2> QED
    BY <2>1, <2>2, <2>3 DEF OwnLocks, LockInv
<1>5. Live \subseteq Live'
  BY DEF Live, Dying, OwnInodes, Own
<1>6. ASSUME NEW q \in Proc \ {p}, NEW x \in Inum, Locks(q, x)
      PROVE  disk'.dir[x] = disk.dir[x] /\ mem'[x].valid = mem[x].valid /\ mem'[x].c = mem[x].c
  BY <1>6, LockedHeld, FsAssumption DEF OwnInodes
<1>7. ASSUME NEW q \in Proc \ {p} PROVE OpAlive(op[q])'
  <2>1. op'[q] = op[q] /\ op[q] \in OpType /\ OpOK(op[q]) /\ OpAlive(op[q])
    BY DEF Own, TypeOK, PcInv, AliveInv
  <2>2. op[q].pc = "unlink2" => Locks(q, op[q].ip)
    BY DEF Locks, Holds
  <2>3. op[q].pc = "unlink2" => disk'.dir[op[q].ip] = disk.dir[op[q].ip]
    BY <1>6, <2>1, <2>2 DEF OpOK, HasIp, OpType
  <2>4. \A x \in Live : disk'.ino[x].type = disk.ino[x].type
    BY DEF OwnInodes, Live
  <2>5. op[q].pc = "unlink3" => op[q].tgt \in Inum /\ Locks(q, op[q].tgt)
    BY <2>1 DEF Locks, Holds, OpOK, HasTgt, OpType
  <2>6. op[q].pc = "unlink3" => mem'[op[q].tgt].valid
    BY <1>6, <2>1, <2>5 DEF OpAlive
  <2> QED
    BY <1>5, <2>1, <2>3, <2>4, <2>6 DEF OpAlive
<1>8. ASSUME NEW q \in Proc \ {p}, freeing'[q] = "trunc"
      PROVE  mem'[puts'[q][1].i].valid /\ mem'[puts'[q][1].i].c.nlink = 0
  <2>1. freeing[q] = "trunc" /\ puts'[q] = puts[q] /\ puts[q] # <<>>
    BY <1>8 DEF Own, PcInv, ProcOK
  <2>2. puts[q][1].i \in Inum
    BY <2>1, FirstPut
  <2>3. Locks(q, puts[q][1].i)
    BY <2>1 DEF Locks, Holds
  <2>4. mem[puts[q][1].i].valid /\ mem[puts[q][1].i].c.nlink = 0
    BY <2>1 DEF AliveInv
  <2> QED
    BY <1>6, <2>1, <2>2, <2>3, <2>4
<1>9. AliveInv'
  <2>1. \A f \in File : file'[f].ip # None => file'[f].ip \in Live'
    BY <1>5
  <2>2. \A q \in Proc : OpAlive(op[q])'
    BY <1>7
  <2>3. \A q \in Proc : freeing'[q] = "trunc" => mem'[puts'[q][1].i].valid /\ mem'[puts'[q][1].i].c.nlink = 0
    BY <1>8
  <2>4. ASSUME NEW a \in Proc, NEW b \in Proc, op'[a].pc = "fill" /\ op'[b].pc = "fill" /\ op'[a].tgt = op'[b].tgt
        PROVE  a = b
    <3>1. CASE a = p \/ b = p
      BY <2>4, <3>1 DEF Own
    <3>2. CASE a # p /\ b # p
      BY <2>4, <3>2 DEF AliveInv, Own
    <3> QED
      BY <3>1, <3>2
  <2> QED
    BY <2>1, <2>2, <2>3, <2>4 DEF AliveInv
<1> QED
  BY <1>1, <1>2, <1>4, <1>9

(* ... that leaves the open files' inodes as they are. *)
LEMMA CoreStep ==
  ASSUME Core, NEW p \in Proc, TypeOK', boot' = None, Own(p),
         OpOK(op'[p]), ProcOK(p)', FileInv', \A f \in File : file'[f].ip = file[f].ip,
         \A i \in Inum : mem'[i].ref = mem[i].ref - Mine(p, i) + Mine(p, i)',
         OwnLocks(p), CopyInv', OwnInodes(p), OpAlive(op[p])', freeing'[p] # "trunc",
         op'[p].pc = "fill" => \A q \in Proc \ {p} : op[q].pc = "fill" => op[q].tgt # op'[p].tgt
  PROVE  Core'
<1>1. RefInv'
  BY RefStep DEF Own, TypeOK, Core
<1>2. \A f \in File : file'[f].ip # None => file'[f].ip \in Live
  BY DEF AliveInv, TypeOK, Core
<1> QED
  BY <1>1, <1>2, CoreGen

(* Files and descriptors as they were. *)
LEMMA FileSame ==
  ASSUME FileInv, file' = file, ofile' = ofile
  PROVE  FileInv'
  BY DEF FileInv, Descriptor

(* A process between two calls. *)
LEMMA IdleFacts ==
  ASSUME Core, NEW p \in Proc, op[p].pc = "idle", p \in alive
  PROVE  cwd[p] \in Inum /\ op[p].call # "gone" /\ puts[p] = <<>> /\ freeing[p] = "no"
         /\ op[p].tgt = None
  BY DEF Core, PcInv, OpOK, HasTgt, ProcOK, PutsAt, TypeOK

(* A step of p in a call, when it has nothing left to put: to the call o, with
   the inodes of s to put and the directory w.                             *)
LEMMA OpStep ==
  ASSUME Core, NEW p \in Proc, NEW o \in OpType, NEW s \in Seq([i : Inum, unlock : BOOLEAN]), NEW w \in Inum,
         puts[p] = <<>>, p \in alive, boot = None,
         op' = [op EXCEPT ![p] = o], puts' = [puts EXCEPT ![p] = s], cwd' = [cwd EXCEPT ![p] = w],
         UNCHANGED <<durable, file, ofile, alive, freeing, boot>>, out' = out \cup {p}, stray' \in BOOLEAN,
         OpOK(o), o.call # "gone", Len(s) <= 2, s # <<>> => o.pc \in PutsAt,
         mem' \in MemType, lock' \in [Inum -> Proc \cup {NoProc}], disk' \in DiskType,
         \A i \in Inum : mem'[i].ref = mem[i].ref - Tally(cwd[p], op[p], <<>>, i) + Tally(w, o, s, i),
         \A i \in Inum : lock'[i] = lock[i] \/ (lock[i] \in {p, NoProc} /\ lock'[i] \in {p, NoProc}),
         \A i \in Inum : lock'[i] = p <=> Holds(o, s, "no", i),
         Apart(o, s), CopyInv', OwnInodes(p), OpAlive(op[p])',
         o.pc = "fill" => \A q \in Proc \ {p} : op[q].pc = "fill" => op[q].tgt # o.tgt
  PROVE  Core'
<1> USE DEF Core
<1>1. /\ op'[p] = o /\ puts'[p] = s /\ cwd'[p] = w /\ freeing[p] = "no"
      /\ \A q \in Proc \ {p} : op'[q] = op[q] /\ puts'[q] = puts[q] /\ cwd'[q] = cwd[q]
  BY DEF TypeOK, PcInv, ProcOK
<1>2. TypeOK'
  BY DEF TypeOK, MemType
<1>3. Own(p)
  BY <1>1 DEF Own
<1>4. ProcOK(p)'
  BY <1>1, ConstFacts DEF ProcOK
<1>5. FileInv' /\ \A f \in File : file'[f].ip = file[f].ip
  BY FileSame
<1>6. \A i \in Inum : mem'[i].ref = mem[i].ref - Mine(p, i) + Mine(p, i)'
  BY <1>1 DEF Mine
<1>7. OwnLocks(p)
  BY <1>1 DEF OwnLocks, Locks
<1> QED
  BY <1>1, <1>2, <1>3, <1>4, <1>5, <1>6, <1>7, CoreStep

(* A process in the middle of a call. *)
LEMMA AtFacts ==
  ASSUME Core, NEW p \in Proc, NEW l \in Labels \ {"idle"}, At(p, l)
  PROVE  /\ puts[p] = <<>> /\ freeing[p] = "no" /\ boot = None /\ panic = "no" /\ p \in alive
         /\ op[p] \in OpType /\ OpOK(op[p]) /\ op[p].pc = l
         /\ HasIp(op[p]) => op[p].ip \in Inum
         /\ op[p].tgt # None => op[p].tgt \in Inum
         /\ l # "end" => op[p].call # "gone" /\ cwd[p] \in Inum
         /\ l # "exit" => p \in out
  BY DEF Core, At, PcInv, OpOK, ProcOK, TypeOK, OpType

(* An inode that ilock() has given is live. *)
LEMMA LockedLive ==
  ASSUME Core, NEW i \in Inum, ilock(i)
  PROVE  i \in Live /\ lock[i] = NoProc /\ Copy(i) = disk.ino[i] /\ disk.ino[i] \in Dinode /\ disk.ino[i].type # "free"
<1>1. Copy(i) = disk.ino[i] /\ disk.ino[i] \in Dinode
  BY CopyIsDisk DEF Core
<1>2. lock[i] = NoProc /\ disk.ino[i].type # "free"
  BY <1>1 DEF ilock
<1>3. ASSUME NEW q \in Proc, freeing[q] = "trunc", puts[q][1].i = i PROVE FALSE
  <2>1. puts[q] # <<>>
    BY <1>3 DEF Core, PcInv, ProcOK
  <2>2. Locks(q, i)
    BY <1>3, <2>1 DEF Locks, Holds
  <2> QED
    BY <1>2, <2>2, FsAssumption DEF Core, LockInv
<1> QED
  BY <1>1, <1>2, <1>3 DEF Live, Dying

(* Reading an inode under its lock. *)
LEMMA ReadKnown ==
  ASSUME Core, NEW p \in Proc, NEW i \in Inum, ilock(i), disk' = disk, mem' = Known(mem, i, Copy(i))
  PROVE  mem' \in MemType /\ (\A x \in Inum : mem'[x].ref = mem[x].ref) /\ CopyInv' /\ OwnInodes(p)
<1>1. mem \in MemType /\ CopyInv
  BY DEF Core, TypeOK, MemType
<1>2. lock[i] = NoProc /\ Copy(i) = disk.ino[i] /\ disk.ino[i] \in Dinode /\ disk.ino[i].type # "free"
  BY LockedLive
<1>3. /\ mem' \in MemType
      /\ \A x \in Inum : mem'[x].ref = mem[x].ref
      /\ mem'[i].valid /\ mem'[i].c = disk.ino[i]
      /\ \A x \in Inum \ {i} : mem'[x] = mem[x]
  BY <1>1, <1>2, KnownFacts
<1> QED
  BY <1>1, <1>2, <1>3 DEF CopyInv, OwnInodes

(* ... and the reference to another, found in it. *)
LEMMA ReadGet ==
  ASSUME Core, NEW p \in Proc, NEW i \in Inum, NEW j \in Inum, ilock(i), disk' = disk,
         mem' = iget(Known(mem, i, Copy(i)), j)
  PROVE  mem' \in MemType /\ (\A x \in Inum : mem'[x].ref = mem[x].ref + Is(j, x)) /\ CopyInv' /\ OwnInodes(p)
<1> DEFINE m == Known(mem, i, Copy(i))
<1>1. mem \in MemType /\ CopyInv
  BY DEF Core, TypeOK, MemType
<1>2. lock[i] = NoProc /\ Copy(i) = disk.ino[i] /\ disk.ino[i] \in Dinode /\ disk.ino[i].type # "free"
  BY LockedLive
<1>3. /\ m \in MemType
      /\ \A x \in Inum : m[x].ref = mem[x].ref
      /\ m[i].valid /\ m[i].c = disk.ino[i]
      /\ \A x \in Inum \ {i} : m[x] = mem[x]
  BY <1>1, <1>2, KnownFacts
<1> HIDE DEF m
<1>4. /\ mem' \in MemType
      /\ \A x \in Inum : mem'[x].ref = m[x].ref + Is(j, x)
      /\ \A x \in Inum : mem'[x].valid => m[x].valid /\ mem'[x].c = m[x].c
      /\ \A x \in Inum : m[x].ref > 0 => mem'[x].valid = m[x].valid /\ mem'[x].c = m[x].c
  <2>1. mem' = iget(m, j)
    BY DEF m
  <2>2. m \in MemType
    BY <1>3
  <2>3. /\ iget(m, j) \in MemType
        /\ \A x \in Inum : iget(m, j)[x].ref = m[x].ref + Is(j, x)
        /\ \A x \in Inum : iget(m, j)[x].valid => m[x].valid /\ iget(m, j)[x].c = m[x].c
        /\ \A x \in Inum : m[x].ref > 0 => iget(m, j)[x].valid = m[x].valid /\ iget(m, j)[x].c = m[x].c
    BY <2>2, IgetFacts
  <2> QED
    BY <2>1, <2>3, Zenon
<1>5. CopyInv'
  BY <1>1, <1>2, <1>3, <1>4 DEF CopyInv
<1>6. OwnInodes(p)
  BY <1>2, <1>3, <1>4 DEF OwnInodes
<1> QED
  BY <1>3, <1>4, <1>5, <1>6

(* A process outside of a call. *)
LEMMA IdleType == Idle \in OpType /\ Idle.pc = "idle" /\ Idle.tgt = None /\ Idle.up = FALSE /\ Idle.call = "none"
<1>1. <<>> \in Seq(DirNames)
  OBVIOUS
<1> QED
  BY <1>1 DEF Idle, OpType, Labels

(* Where Goto() leads. *)
LEMMA GotoFacts ==
  ASSUME TypeOK, NEW p \in Proc, NEW l \in Labels, Goto(p, l)
  PROVE  \E o \in OpType :
           /\ op' = [op EXCEPT ![p] = o] /\ o.pc = l
           /\ l = "end" => OpOK(o) /\ o.tgt = None /\ o.call # "gone" /\ IpIn(o) = None /\ ~o.up
           /\ l # "end" => /\ o.ip = op[p].ip /\ o.tgt = op[p].tgt /\ o.call = op[p].call /\ o.then = op[p].then
                           /\ o.path = op[p].path /\ o.up = op[p].up
<1>1. op \in [Proc -> OpType] /\ op[p] \in OpType
  BY DEF TypeOK
<1>2. CASE l = "end"
  <2> DEFINE o == Ending(op[p])
  <2>1. op' = [op EXCEPT ![p] = o]
    BY <1>2 DEF Goto
  <2>a. Idle \in OpType /\ Idle.tgt = None /\ Idle.up = FALSE
    BY IdleType
  <2> DEFINE call == IF op[p].call = "exit" THEN "exit" ELSE "none"
  <2>b. call \in DOMAIN Stage \cup {"none", "exit", "gone"} /\ call # "gone"
    OBVIOUS
  <2>c. o = [Idle EXCEPT !.pc = "end", !.call = call]
    BY DEF Ending
  <2> HIDE DEF o, call
  <2>2. o \in OpType /\ o.pc = "end" /\ o.tgt = None /\ o.call # "gone" /\ ~o.up
    BY <2>a, <2>b, <2>c DEF OpType, Labels
  <2>3. OpOK(o) /\ IpIn(o) = None
    BY <2>2 DEF OpOK, HasIp, HasTgt, IpIn
  <2> QED
    BY <1>2, <2>1, <2>2, <2>3
<1>3. CASE l # "end"
  <2> DEFINE o == [op[p] EXCEPT !.pc = l]
  <2>1. op' = [op EXCEPT ![p] = o]
    BY <1>3 DEF Goto
  <2>2. o \in OpType /\ o.pc = l /\ o.ip = op[p].ip /\ o.tgt = op[p].tgt /\ o.call = op[p].call
        /\ o.then = op[p].then /\ o.path = op[p].path /\ o.up = op[p].up
    BY <1>1 DEF OpType
  <2> QED
    BY <1>3, <2>1, <2>2
<1> QED
  BY <1>2, <1>3

(* One inode to put. *)
LEMMA PutFacts ==
  ASSUME NEW i \in Inum, NEW j \in Inum
  PROVE  /\ <<Put(i)>> \in Seq([i : Inum, unlock : BOOLEAN]) /\ Len(<<Put(i)>>) = 1
         /\ <<Put(i)>> # <<>> /\ <<Put(i)>>[1].i = i /\ ~<<Put(i)>>[1].unlock
         /\ FirstIn(<<Put(i)>>) = i /\ SecondIn(<<Put(i)>>) = None
         /\ <<UnlockPut(i)>> \in Seq([i : Inum, unlock : BOOLEAN]) /\ Len(<<UnlockPut(i)>>) = 1
         /\ <<UnlockPut(i)>> # <<>> /\ <<UnlockPut(i)>>[1].i = i /\ <<UnlockPut(i)>>[1].unlock
         /\ FirstIn(<<UnlockPut(i)>>) = i /\ SecondIn(<<UnlockPut(i)>>) = None
         /\ <<UnlockPut(i), UnlockPut(j)>> \in Seq([i : Inum, unlock : BOOLEAN]) /\ Len(<<UnlockPut(i), UnlockPut(j)>>) = 2
         /\ <<UnlockPut(i), UnlockPut(j)>> # <<>>
         /\ <<UnlockPut(i), UnlockPut(j)>>[1].i = i /\ <<UnlockPut(i), UnlockPut(j)>>[1].unlock
         /\ <<UnlockPut(i), UnlockPut(j)>>[2].i = j /\ <<UnlockPut(i), UnlockPut(j)>>[2].unlock
         /\ FirstIn(<<UnlockPut(i), UnlockPut(j)>>) = i /\ SecondIn(<<UnlockPut(i), UnlockPut(j)>>) = j
         /\ <<Put(i), Put(j)>> \in Seq([i : Inum, unlock : BOOLEAN]) /\ Len(<<Put(i), Put(j)>>) = 2
         /\ <<Put(i), Put(j)>> # <<>> /\ ~<<Put(i), Put(j)>>[1].unlock /\ ~<<Put(i), Put(j)>>[2].unlock
         /\ FirstIn(<<Put(i), Put(j)>>) = i /\ SecondIn(<<Put(i), Put(j)>>) = j
  BY DEF Put, UnlockPut, FirstIn, SecondIn

(* Nothing but op, puts, mem, lock, the disk and the panic changes. *)
Rest(p) == UNCHANGED <<durable, file, ofile, cwd, alive, freeing, out, boot>> /\ stray' \in BOOLEAN

(* A call that gives up has the one inode to put that it has locked. *)
LEMMA GiveUp ==
  ASSUME Core, NEW p \in Proc, NEW l \in Labels \ {"idle", "exit", "end"}, At(p, l), NEW i \in Inum, ilock(i),
         l \notin {"fill", "unlink2", "opened", "unlink3"},
         \/ IpIn(op[p]) = i /\ op[p].tgt = None
         \/ IpIn(op[p]) = None /\ op[p].tgt = i,
         mem' = Known(mem, i, Copy(i)), PutAll(p, <<Put(i)>>, "end"), disk' = disk, lock' = lock, Rest(p)
  PROVE  Core'
<1>0. TypeOK /\ LockInv
  BY DEF Core
<1>1. /\ puts[p] = <<>> /\ freeing[p] = "no" /\ boot = None /\ p \in alive /\ op[p].pc = l /\ p \in out
      /\ cwd[p] \in Inum
  BY AtFacts
<1>2. PICK o \in OpType : op' = [op EXCEPT ![p] = o] /\ o.pc = "end" /\ OpOK(o) /\ o.tgt = None /\ o.call # "gone" /\ IpIn(o) = None
  BY <1>0, GotoFacts DEF PutAll, Labels
<1> DEFINE s == <<Put(i)>>
<1>3. puts' = [puts EXCEPT ![p] = s]
  BY DEF PutAll
<1>4. s \in Seq([i : Inum, unlock : BOOLEAN]) /\ Len(s) = 1 /\ s # <<>> /\ ~s[1].unlock /\ FirstIn(s) = i /\ SecondIn(s) = None
  BY PutFacts
<1> HIDE DEF s
<1>5. mem' \in MemType /\ (\A x \in Inum : mem'[x].ref = mem[x].ref) /\ CopyInv' /\ OwnInodes(p)
  BY ReadKnown
<1>6. \A x \in Inum : mem'[x].ref = mem[x].ref - Tally(cwd[p], op[p], <<>>, x) + Tally(cwd[p], o, s, x)
  BY <1>0, <1>2, <1>4, <1>5, ConstFacts DEF Tally, FirstIn, SecondIn, Is, TypeOK
<1>7. \A x \in Inum : lock'[x] = p <=> Holds(o, s, "no", x)
  BY <1>0, <1>1, <1>2, <1>4 DEF LockInv, Locks, Holds
<1>8. Apart(o, s)
  BY <1>2, <1>4 DEF Apart
<1>9. op'[p] = o
  BY <1>0, <1>2 DEF TypeOK
<1>10. OpAlive(op[p])'
  BY <1>2, <1>9 DEF OpAlive
<1>11. cwd' = [cwd EXCEPT ![p] = cwd[p]] /\ out' = out \cup {p} /\ lock' \in [Inum -> Proc \cup {NoProc}] /\ disk' \in DiskType
  BY <1>0, <1>1 DEF TypeOK, Rest
<1>12. /\ UNCHANGED <<durable, file, ofile, alive, freeing, boot>> /\ stray' \in BOOLEAN
       /\ Len(s) <= 2 /\ (s # <<>> => o.pc \in PutsAt) /\ OpOK(o) /\ o.call # "gone"
       /\ \A x \in Inum : lock'[x] = lock[x] \/ (lock[x] \in {p, NoProc} /\ lock'[x] \in {p, NoProc})
       /\ o.pc = "fill" => \A q \in Proc \ {p} : op[q].pc = "fill" => op[q].tgt # o.tgt
  BY <1>2, <1>4 DEF Rest, PutsAt
<1> QED
  BY <1>1, <1>2, <1>3, <1>4, <1>5, <1>6, <1>7, <1>8, <1>10, <1>11, <1>12, OpStep

(* A process that has nothing to put. *)
LEMMA NoPuts == FirstIn(<<>>) = None /\ SecondIn(<<>>) = None
  BY DEF FirstIn, SecondIn

(* Is() counts, and nothing is an inode for None. *)
LEMMA IsFacts ==
  ASSUME NEW v, NEW x \in Inum
  PROVE  Is(v, x) \in Nat /\ Is(None, x) = 0
  BY ConstFacts DEF Is

(* The tally of a process with nothing to put, and with one or two. *)
LEMMA TallyFacts ==
  ASSUME NEW w, NEW o, NEW s, NEW x \in Inum
  PROVE  /\ Tally(w, o, <<>>, x) = Is(w, x) + Is(IpIn(o), x) + Is(o.tgt, x)
         /\ SecondIn(s) = None => Tally(w, o, s, x) = Is(w, x) + Is(IpIn(o), x) + Is(o.tgt, x) + Is(FirstIn(s), x)
  BY NoPuts, IsFacts DEF Tally

(* A step in a call that leaves the disk and the locks alone. *)
LEMMA Move ==
  ASSUME Core, NEW p \in Proc, NEW o \in OpType, NEW s \in Seq([i : Inum, unlock : BOOLEAN]), NEW w \in Inum,
         puts[p] = <<>>, p \in alive, boot = None, op[p].pc \notin {"fill", "unlink2", "opened", "unlink3"},
         op' = [op EXCEPT ![p] = o], puts' = [puts EXCEPT ![p] = s], cwd' = [cwd EXCEPT ![p] = w],
         UNCHANGED <<disk, durable, lock, file, ofile, alive, freeing, boot>>, out' = out \cup {p}, stray' \in BOOLEAN,
         OpOK(o), o.call # "gone", Len(s) <= 2, s # <<>> => o.pc \in PutsAt,
         o.pc \notin {"fill", "unlink2", "opened", "unlink3"},
         s # <<>> => ~s[1].unlock, Len(s) = 2 => ~s[2].unlock,
         mem' \in MemType, CopyInv', OwnInodes(p), OpAlive(o),
         \A i \in Inum : mem'[i].ref = mem[i].ref - Tally(cwd[p], op[p], <<>>, i) + Tally(w, o, s, i)
  PROVE  Core'
<1>0. TypeOK /\ LockInv /\ PcInv
  BY DEF Core
<1>1. op'[p] = o /\ puts'[p] = s /\ freeing[p] = "no" /\ \A q \in Proc \ {p} : puts'[q] = puts[q]
  BY <1>0 DEF TypeOK, PcInv, ProcOK
<1>2. Live' = Live
  BY <1>1 DEF Live, Dying
<1>3. OpAlive(op[p])'
  BY <1>1, <1>2 DEF OpAlive
<1>4. \A x \in Inum : lock'[x] = p <=> Holds(o, s, "no", x)
  BY <1>0, <1>1 DEF LockInv, Locks, Holds
<1>5. Apart(o, s)
  BY DEF Apart
<1>6. lock' \in [Inum -> Proc \cup {NoProc}] /\ disk' \in DiskType
  BY <1>0 DEF TypeOK
<1>7. /\ UNCHANGED <<durable, file, ofile, alive, freeing, boot>>
      /\ \A x \in Inum : lock'[x] = lock[x] \/ (lock[x] \in {p, NoProc} /\ lock'[x] \in {p, NoProc})
      /\ o.pc = "fill" => \A q \in Proc \ {p} : op[q].pc = "fill" => op[q].tgt # o.tgt
  OBVIOUS
<1> QED
  BY <1>3, <1>4, <1>5, <1>6, <1>7, OpStep

(* iget() alone. *)
LEMMA GetFacts ==
  ASSUME Core, NEW p \in Proc, NEW j \in Inum, disk' = disk, mem' = iget(mem, j)
  PROVE  mem' \in MemType /\ (\A x \in Inum : mem'[x].ref = mem[x].ref + Is(j, x)) /\ CopyInv' /\ OwnInodes(p)
<1>1. mem \in MemType /\ CopyInv
  BY DEF Core, TypeOK, MemType
<1>4. /\ mem' \in MemType
      /\ \A x \in Inum : mem'[x].ref = mem[x].ref + Is(j, x)
      /\ \A x \in Inum : mem'[x].valid => mem[x].valid /\ mem'[x].c = mem[x].c
      /\ \A x \in Inum : mem[x].ref > 0 => mem'[x].valid = mem[x].valid /\ mem'[x].c = mem[x].c
  BY <1>1, IgetFacts
<1>5. CopyInv'
  BY <1>1, <1>4 DEF CopyInv
<1>6. OwnInodes(p)
  BY <1>4 DEF OwnInodes
<1> QED
  BY <1>4, <1>5, <1>6

(* Call(): the entry of a system call keeps Core. *)
LEMMA CallCore ==
  ASSUME Core, NEW p \in Proc, Call(p)
  PROVE  Core'
<1>0. TypeOK /\ PcInv
  BY DEF Core
<1>1. /\ puts[p] = <<>> /\ op[p].pc = "idle" /\ boot = None /\ p \in alive
      /\ UNCHANGED <<disk, durable, lock, file, ofile, cwd, alive, puts, freeing, boot, stray>> /\ out' = out \cup {p}
  BY DEF Call, At, procvars
<1>2. cwd[p] \in Inum /\ op[p].tgt = None
  BY <1>1, IdleFacts
<1>3. PICK r \in Requests :
        LET start == IF r[2].abs THEN ROOTINO ELSE cwd[p] IN
        /\ op' = [op EXCEPT ![p] = [call |-> r[1], pc |-> "walk", then |-> Stage[r[1]],
                                    path |-> r[2].elems, ip |-> start, tgt |-> None, up |-> FALSE]]
        /\ mem' = iget(mem, start)
  BY DEF Call
<1> DEFINE start == IF r[2].abs THEN ROOTINO ELSE cwd[p]
           elems == r[2].elems
           call == r[1]
           st == Stage[call]
           o == [call |-> call, pc |-> "walk", then |-> st, path |-> elems, ip |-> start, tgt |-> None, up |-> FALSE]
<1>4. call \in DOMAIN Stage /\ elems \in Seq(DirNames) /\ start \in Inum
  BY <1>2, FsAssumption, ConstFacts DEF Path
<1>5. st \in {"open", "create", "unlink", "link1", "chdir"} /\ (st = "create" => call \in DOMAIN TypeOf)
  BY <1>4 DEF Stage, TypeOf
<1>6. op' = [op EXCEPT ![p] = o] /\ mem' = iget(mem, start)
  BY <1>3
<1> HIDE DEF start, elems, call, st
<1>7. o \in OpType /\ o.pc = "walk" /\ o.then = st /\ o.ip = start /\ o.tgt = None /\ o.call = call
  BY <1>4, <1>5 DEF OpType, Labels
<1> HIDE DEF o
<1>8. call # "gone"
  BY <1>4 DEF Stage
<1>9. OpOK(o) /\ o.call # "gone"
  BY <1>4, <1>5, <1>7, <1>8, ConstFacts DEF OpOK, HasIp, HasTgt
<1>10. OpAlive(o)
  BY <1>7 DEF OpAlive
<1>11. mem' \in MemType /\ (\A x \in Inum : mem'[x].ref = mem[x].ref + Is(start, x)) /\ CopyInv' /\ OwnInodes(p)
  BY <1>1, <1>4, <1>6, GetFacts
<1>12. IpIn(op[p]) = None /\ IpIn(o) = start
  BY <1>1, <1>7 DEF IpIn, HasIp
<1>13. \A i \in Inum : mem'[i].ref = mem[i].ref - Tally(cwd[p], op[p], <<>>, i) + Tally(cwd[p], o, <<>>, i)
  BY <1>0, <1>2, <1>7, <1>11, <1>12, ConstFacts DEF Tally, FirstIn, SecondIn, Is, TypeOK
<1> DEFINE s == <<>>
<1>14. s \in Seq([i : Inum, unlock : BOOLEAN]) /\ Len(s) = 0 /\ s = <<>>
  OBVIOUS
<1>15. puts' = [puts EXCEPT ![p] = s] /\ cwd' = [cwd EXCEPT ![p] = cwd[p]] /\ stray' \in BOOLEAN
  BY <1>0, <1>1 DEF TypeOK
<1>16. \A i \in Inum : mem'[i].ref = mem[i].ref - Tally(cwd[p], op[p], <<>>, i) + Tally(cwd[p], o, s, i)
  BY <1>13
<1> HIDE DEF s
<1>17. /\ op[p].pc \notin {"fill", "unlink2", "opened", "unlink3"} /\ o.pc \notin {"fill", "unlink2", "opened", "unlink3"}
       /\ Len(s) <= 2 /\ (s # <<>> => o.pc \in PutsAt) /\ (s # <<>> => ~s[1].unlock) /\ (Len(s) = 2 => ~s[2].unlock)
  BY <1>1, <1>7, <1>14
<1> QED
  BY <1>1, <1>2, <1>6, <1>7, <1>9, <1>10, <1>11, <1>14, <1>15, <1>16, <1>17, Move

(* A step in a call from one label to another, with nothing to put. *)
LEMMA MoveNone ==
  ASSUME Core, NEW p \in Proc, NEW l \in Labels \ {"idle", "exit", "end", "fill", "unlink2", "opened", "unlink3"},
         At(p, l), NEW o \in OpType, op' = [op EXCEPT ![p] = o], puts' = puts, Rest(p), disk' = disk, lock' = lock,
         OpOK(o), o.call # "gone", o.pc \notin {"fill", "unlink2", "opened", "unlink3"},
         mem' \in MemType, CopyInv', OwnInodes(p), OpAlive(o),
         \A x \in Inum : mem'[x].ref = mem[x].ref - Is(IpIn(op[p]), x) - Is(op[p].tgt, x) + Is(IpIn(o), x) + Is(o.tgt, x)
  PROVE  Core'
<1>0. TypeOK
  BY DEF Core
<1>1. puts[p] = <<>> /\ boot = None /\ p \in alive /\ op[p].pc = l /\ p \in out /\ cwd[p] \in Inum
  BY AtFacts
<1>2. UNCHANGED <<disk, durable, lock, file, ofile, cwd, alive, freeing, out, boot>> /\ stray' \in BOOLEAN
  BY DEF Rest
<1> DEFINE s == <<>>
<1>3. s \in Seq([i : Inum, unlock : BOOLEAN]) /\ Len(s) = 0 /\ s = <<>>
  OBVIOUS
<1>4. puts' = [puts EXCEPT ![p] = s] /\ cwd' = [cwd EXCEPT ![p] = cwd[p]] /\ out' = out \cup {p}
  BY <1>0, <1>1, <1>2 DEF TypeOK
<1>5. mem \in MemType
  BY <1>0 DEF TypeOK, MemType
<1>6. \A x \in Inum : mem'[x].ref = mem[x].ref - Tally(cwd[p], op[p], <<>>, x) + Tally(cwd[p], o, s, x)
  BY <1>5, ConstFacts DEF Tally, FirstIn, SecondIn, Is, MemType
<1> HIDE DEF s
<1>7. /\ op[p].pc \notin {"fill", "unlink2", "opened", "unlink3"}
      /\ Len(s) <= 2 /\ (s # <<>> => o.pc \in PutsAt) /\ (s # <<>> => ~s[1].unlock) /\ (Len(s) = 2 => ~s[2].unlock)
  BY <1>1, <1>3
<1> QED
  BY <1>1, <1>2, <1>3, <1>4, <1>6, <1>7, Move

(* Two references that come back in either order. *)
LEMMA SwapSum ==
  \A r, a, b \in Nat : r = r - a - b + 0 + 0 + a + b /\ r = r - a - b + 0 + 0 + b + a
  OBVIOUS

(* References that go and references that come. *)
LEMMA MoveSum ==
  \A r, a, b, c, d, e, f, g \in Nat : r - a - b - c + d + e + f + g = r - (a + b + c) + (d + e + f + g)
  OBVIOUS

(* The same when one stays. *)
LEMMA PutSum ==
  \A r, a, b, c, d, e, f, g \in Nat : r - b - c + d + e + f + g = r - (a + b + c) + (a + d + e + f + g)
  OBVIOUS

(* The same with one inode to put. *)
LEMMA MovePut ==
  ASSUME Core, NEW p \in Proc, NEW l \in Labels \ {"idle", "exit", "end", "fill", "unlink2", "opened", "unlink3"},
         At(p, l), NEW o \in OpType, op' = [op EXCEPT ![p] = o], NEW j \in Inum, puts' = [puts EXCEPT ![p] = <<Put(j)>>],
         UNCHANGED <<disk, durable, lock, file, ofile, alive, freeing, out, boot>>, stray' \in BOOLEAN,
         NEW w \in Inum, cwd' = [cwd EXCEPT ![p] = w],
         OpOK(o), o.call # "gone", o.pc \in PutsAt \ {"opened", "unlink3"},
         mem' \in MemType, CopyInv', OwnInodes(p), OpAlive(o),
         \A x \in Inum : mem'[x].ref = mem[x].ref - Is(cwd[p], x) - Is(IpIn(op[p]), x) - Is(op[p].tgt, x)
                                       + Is(w, x) + Is(IpIn(o), x) + Is(o.tgt, x) + Is(j, x)
  PROVE  Core'
<1>0. TypeOK
  BY DEF Core
<1>1. puts[p] = <<>> /\ boot = None /\ p \in alive /\ op[p].pc = l /\ p \in out /\ cwd[p] \in Inum
  BY AtFacts
<1> DEFINE s == <<Put(j)>>
<1>3. s \in Seq([i : Inum, unlock : BOOLEAN]) /\ Len(s) = 1 /\ s # <<>> /\ ~s[1].unlock /\ FirstIn(s) = j /\ SecondIn(s) = None
  BY PutFacts
<1>4. puts' = [puts EXCEPT ![p] = s] /\ out' = out \cup {p}
  BY <1>0, <1>1 DEF TypeOK
<1>5. mem \in MemType
  BY <1>0 DEF TypeOK, MemType
<1> HIDE DEF s
<1>6. \A x \in Inum : mem'[x].ref = mem[x].ref - Tally(cwd[p], op[p], <<>>, x) + Tally(w, o, s, x)
  <2> SUFFICES ASSUME NEW x \in Inum
               PROVE  mem'[x].ref = mem[x].ref - Tally(cwd[p], op[p], <<>>, x) + Tally(w, o, s, x)
    OBVIOUS
  <2>1. /\ Tally(cwd[p], op[p], <<>>, x) = Is(cwd[p], x) + Is(IpIn(op[p]), x) + Is(op[p].tgt, x)
        /\ Tally(w, o, s, x) = Is(w, x) + Is(IpIn(o), x) + Is(o.tgt, x) + Is(j, x)
    BY <1>3, TallyFacts
  <2>2. /\ Is(cwd[p], x) \in Nat /\ Is(IpIn(op[p]), x) \in Nat /\ Is(op[p].tgt, x) \in Nat
        /\ Is(w, x) \in Nat /\ Is(IpIn(o), x) \in Nat /\ Is(o.tgt, x) \in Nat /\ Is(j, x) \in Nat
    BY IsFacts
  <2>3. mem[x].ref \in Nat
    BY <1>5 DEF MemType
  <2>4. mem'[x].ref = mem[x].ref - Is(cwd[p], x) - Is(IpIn(op[p]), x) - Is(op[p].tgt, x)
                                       + Is(w, x) + Is(IpIn(o), x) + Is(o.tgt, x) + Is(j, x)
    OBVIOUS
  <2> DEFINE r == mem[x].ref
             a == Is(cwd[p], x)
             b == Is(IpIn(op[p]), x)
             c == Is(op[p].tgt, x)
             d == Is(w, x)
             e == Is(IpIn(o), x)
             f == Is(o.tgt, x)
             g == Is(j, x)
  <2>5. /\ r \in Nat /\ a \in Nat /\ b \in Nat /\ c \in Nat /\ d \in Nat /\ e \in Nat /\ f \in Nat /\ g \in Nat
        /\ mem'[x].ref = r - a - b - c + d + e + f + g
        /\ Tally(cwd[p], op[p], <<>>, x) = a + b + c
        /\ Tally(w, o, s, x) = d + e + f + g
    BY <2>1, <2>2, <2>3, <2>4
  <2> HIDE DEF r, a, b, c, d, e, f, g
  <2>6. mem'[x].ref = r - Tally(cwd[p], op[p], <<>>, x) + Tally(w, o, s, x)
    BY <2>5, MoveSum
  <2> QED
    BY <2>6 DEF r
<1>7. /\ op[p].pc \notin {"fill", "unlink2", "opened", "unlink3"} /\ o.pc \notin {"fill", "unlink2", "opened", "unlink3"}
      /\ Len(s) <= 2 /\ (s # <<>> => o.pc \in PutsAt) /\ (s # <<>> => ~s[1].unlock) /\ (Len(s) = 2 => ~s[2].unlock)
  BY <1>1, <1>3 DEF PutsAt
<1> QED
  BY <1>1, <1>3, <1>4, <1>6, <1>7, Move

(* Nothing changes in memory. *)
LEMMA MemSame ==
  ASSUME Core, NEW p \in Proc, disk' = disk, mem' = mem
  PROVE  mem' \in MemType /\ CopyInv' /\ OwnInodes(p) /\ \A x \in Inum : mem'[x].ref = mem[x].ref
  BY DEF Core, TypeOK, MemType, CopyInv, OwnInodes

(* namex() returns 0, with the directory it stopped at to put. *)
LEMMA LostPath ==
  ASSUME Core, NEW p \in Proc, At(p, "walk"), PutAll(p, <<Put(op[p].ip)>>, NotFound(p)),
         UNCHANGED <<disk, durable, lock, file, ofile, cwd, alive, freeing, out, boot, stray>>,
         mem' \in MemType, CopyInv', OwnInodes(p), \A x \in Inum : mem'[x].ref = mem[x].ref
  PROVE  Core'
<1>0. TypeOK /\ "walk" \in Labels /\ PcInv /\ AliveInv
  BY DEF Core, Labels
<1>1. /\ op[p] \in OpType /\ OpOK(op[p]) /\ op[p].pc = "walk" /\ op[p].ip \in Inum /\ op[p].call # "gone" /\ cwd[p] \in Inum
      /\ OpAlive(op[p])
  BY <1>0, AtFacts DEF HasIp, Labels, AliveInv
<1>2. mem \in MemType /\ op[p].tgt \in {None} \cup Inum
  BY <1>0, <1>1 DEF TypeOK, MemType, OpType
<1>3. puts' = [puts EXCEPT ![p] = <<Put(op[p].ip)>>] /\ Goto(p, NotFound(p))
  BY DEF PutAll
<1>4. cwd' = [cwd EXCEPT ![p] = cwd[p]] /\ stray' \in BOOLEAN
  BY <1>0 DEF TypeOK
<1>5. CASE op[p].then = "link2"
  <2>1. PICK o \in OpType : /\ op' = [op EXCEPT ![p] = o] /\ o.pc = "linkbad" /\ o.ip = op[p].ip /\ o.tgt = op[p].tgt
                            /\ o.call = op[p].call
    BY <1>0, <1>3, <1>5, GotoFacts DEF NotFound, Labels
  <2>2. OpOK(o) /\ o.call # "gone" /\ IpIn(o) = None /\ IpIn(op[p]) = op[p].ip
    BY <1>1, <1>5, <2>1 DEF OpOK, HasIp, HasTgt, IpIn
  <2>3. OpAlive(o)
    BY <1>1, <2>1, <2>2 DEF OpAlive
  <2>4. \A x \in Inum : mem'[x].ref = mem[x].ref - Is(cwd[p], x) - Is(IpIn(op[p]), x) - Is(op[p].tgt, x)
                                     + Is(cwd[p], x) + Is(IpIn(o), x) + Is(o.tgt, x) + Is(op[p].ip, x)
    BY <1>2, <2>1, <2>2, ConstFacts DEF Is, MemType
  <2>5. o.pc \in PutsAt \ {"opened", "unlink3"}
    BY <2>1 DEF PutsAt
  <2> QED
    BY <1>0, <1>1, <1>3, <1>4, <2>1, <2>2, <2>3, <2>4, <2>5, MovePut
<1>6. CASE op[p].then # "link2"
  <2>1. PICK o \in OpType : /\ op' = [op EXCEPT ![p] = o] /\ o.pc = "end" /\ OpOK(o) /\ o.tgt = None /\ o.call # "gone"
                            /\ IpIn(o) = None
    BY <1>0, <1>3, <1>6, GotoFacts DEF NotFound, Labels
  <2>2. IpIn(op[p]) = op[p].ip /\ op[p].tgt = None
    BY <1>1, <1>6 DEF OpOK, HasIp, HasTgt, IpIn
  <2>3. OpAlive(o)
    BY <2>1 DEF OpAlive
  <2>4. \A x \in Inum : mem'[x].ref = mem[x].ref - Is(cwd[p], x) - Is(IpIn(op[p]), x) - Is(op[p].tgt, x)
                                     + Is(cwd[p], x) + Is(IpIn(o), x) + Is(o.tgt, x) + Is(op[p].ip, x)
    BY <1>2, <2>1, <2>2, ConstFacts DEF Is, MemType
  <2>5. o.pc \in PutsAt \ {"opened", "unlink3"}
    BY <2>1 DEF PutsAt
  <2> QED
    BY <1>0, <1>1, <1>3, <1>4, <2>1, <2>2, <2>3, <2>4, <2>5, MovePut
<1> QED
  BY <1>5, <1>6

(* namex() at the end of the path keeps Core. *)
LEMMA NamexDoneCore ==
  ASSUME Core, NEW p \in Proc, NamexDone(p)
  PROVE  Core'
<1>0. TypeOK /\ "walk" \in Labels /\ At(p, "walk") /\ PcInv /\ AliveInv
  BY DEF Core, Labels, NamexDone
<1>1. /\ op[p] \in OpType /\ OpOK(op[p]) /\ op[p].pc = "walk" /\ op[p].ip \in Inum /\ op[p].call # "gone" /\ cwd[p] \in Inum
      /\ OpAlive(op[p])
  BY <1>0, AtFacts DEF HasIp, Labels, AliveInv
<1>2. UNCHANGED <<disk, durable, mem, lock, file, ofile, cwd, alive, freeing, out, boot, stray>> /\ Rest(p)
  BY <1>0 DEF NamexDone, procvars, Rest, TypeOK
<1>3. mem' \in MemType /\ CopyInv' /\ OwnInodes(p) /\ \A x \in Inum : mem'[x].ref = mem[x].ref
  BY <1>2, MemSame
<1>4. mem \in MemType /\ op[p].tgt \in {None} \cup Inum
  BY <1>0, <1>1 DEF TypeOK, MemType, OpType
<1>5. CASE nameiparent(p)
  <2>1. PutAll(p, <<Put(op[p].ip)>>, NotFound(p))
    BY <1>5 DEF NamexDone
  <2> QED
    BY <1>0, <1>2, <1>3, <2>1, LostPath
<1>6. CASE ~nameiparent(p)
  <2>1. puts' = puts /\ Goto(p, op[p].then)
    BY <1>6 DEF NamexDone
  <2>2. op[p].then \in {"open", "link1", "chdir"} /\ op[p].tgt = None
    BY <1>1, <1>6 DEF OpOK, nameiparent, HasTgt
  <2>3. PICK o \in OpType : /\ op' = [op EXCEPT ![p] = o] /\ o.pc = op[p].then /\ o.ip = op[p].ip /\ o.tgt = op[p].tgt
                            /\ o.call = op[p].call
    BY <1>0, <2>1, <2>2, GotoFacts DEF Labels
  <2>4. OpOK(o) /\ o.call # "gone" /\ IpIn(o) = op[p].ip /\ IpIn(op[p]) = op[p].ip
    BY <1>1, <2>2, <2>3 DEF OpOK, HasIp, HasTgt, IpIn
  <2>5. OpAlive(o)
    BY <2>2, <2>3 DEF OpAlive
  <2>6. \A x \in Inum : mem'[x].ref = mem[x].ref - Is(IpIn(op[p]), x) - Is(op[p].tgt, x) + Is(IpIn(o), x) + Is(o.tgt, x)
    BY <1>3, <1>4, <2>3, <2>4, ConstFacts DEF Is, MemType
  <2>7. o.pc \notin {"fill", "unlink2", "opened", "unlink3"}
    BY <2>2, <2>3
  <2> QED
    BY <1>0, <1>1, <1>2, <1>3, <2>1, <2>3, <2>4, <2>5, <2>6, <2>7, MoveNone
<1> QED
  BY <1>5, <1>6

(* A step of namex(), dirlookup() and iget() under the directory's lock,
   keeps Core.                                                            *)
LEMMA NamexCore ==
  ASSUME Core, NEW p \in Proc, Namex(p)
  PROVE  Core'
<1> DEFINE i == op[p].ip
           m == Known(mem, i, Copy(i))
           name == Head(op[p].path)
           next == dirlookup(disk, i, name)
<1>0. TypeOK /\ "walk" \in Labels /\ At(p, "walk") /\ PcInv /\ AliveInv /\ op[p].path # <<>>
  BY DEF Core, Labels, Namex
<1>1. /\ op[p] \in OpType /\ OpOK(op[p]) /\ op[p].pc = "walk" /\ i \in Inum /\ op[p].call # "gone" /\ cwd[p] \in Inum
      /\ OpAlive(op[p])
  BY <1>0, AtFacts DEF HasIp, Labels, AliveInv
<1>2. UNCHANGED <<disk, durable, lock, file, ofile, cwd, alive, freeing, out, boot, stray>> /\ Rest(p) /\ ilock(i)
  BY <1>0 DEF Namex, procvars, Rest, TypeOK
<1>3. mem \in MemType /\ op[p].tgt \in {None} \cup Inum /\ op[p].then \in Labels /\ op[p].path \in Seq(DirNames)
  BY <1>0, <1>1 DEF TypeOK, MemType, OpType
<1>4. i \in Live /\ Copy(i) = disk.ino[i]
  BY <1>1, <1>2, LockedLive
<1>5. name \in DirNames /\ Tail(op[p].path) \in Seq(DirNames) /\ Len(op[p].path) \in Nat /\ Len(op[p].path) > 0
  BY <1>0, <1>3
<1>6. next \in {None} \cup Inum
  BY <1>0, <1>1, <1>5 DEF dirlookup, TypeOK, DiskType
<1>7. IpIn(op[p]) = i
  BY <1>1 DEF IpIn, HasIp
<1> HIDE DEF next, name
<1>8. CASE Copy(i).type = "dir" /\ nameiparent(p) /\ Len(op[p].path) = 1
  <2>1. mem' = m /\ Goto(p, op[p].then) /\ puts' = puts
    BY <1>8 DEF Namex
  <2>2. op[p].then \in {"create", "unlink", "link2"}
    BY <1>8 DEF nameiparent
  <2>3. mem' \in MemType /\ (\A x \in Inum : mem'[x].ref = mem[x].ref) /\ CopyInv' /\ OwnInodes(p)
    BY <1>1, <1>2, <2>1, ReadKnown
  <2>4. PICK o \in OpType : /\ op' = [op EXCEPT ![p] = o] /\ o.pc = op[p].then /\ o.ip = i /\ o.tgt = op[p].tgt
                            /\ o.call = op[p].call /\ o.path = op[p].path
    BY <1>0, <1>3, <2>1, <2>2, GotoFacts
  <2>5. OpOK(o) /\ o.call # "gone" /\ IpIn(o) = i
    BY <1>0, <1>1, <2>2, <2>4 DEF OpOK, HasIp, HasTgt, IpIn
  <2>6. OpAlive(o)
    BY <1>1, <1>4, <1>8, <2>2, <2>4 DEF OpAlive
  <2>7. \A x \in Inum : mem'[x].ref = mem[x].ref - Is(IpIn(op[p]), x) - Is(op[p].tgt, x) + Is(IpIn(o), x) + Is(o.tgt, x)
    BY <1>3, <1>7, <2>3, <2>4, <2>5, ConstFacts DEF Is, MemType
  <2>8. o.pc \notin {"fill", "unlink2", "opened", "unlink3"}
    BY <2>2, <2>4
  <2> QED
    BY <1>0, <1>1, <1>2, <2>1, <2>3, <2>4, <2>5, <2>6, <2>7, <2>8, MoveNone
<1>9. CASE ~(Copy(i).type = "dir" /\ nameiparent(p) /\ Len(op[p].path) = 1) /\ (Copy(i).type # "dir" \/ next = None)
  <2>1. mem' = m /\ PutAll(p, <<Put(i)>>, NotFound(p))
    BY <1>9 DEF Namex, next, name
  <2>2. mem' \in MemType /\ (\A x \in Inum : mem'[x].ref = mem[x].ref) /\ CopyInv' /\ OwnInodes(p)
    BY <1>1, <1>2, <2>1, ReadKnown
  <2> QED
    BY <1>0, <1>2, <2>1, <2>2, LostPath
<1>10. CASE ~(Copy(i).type = "dir" /\ nameiparent(p) /\ Len(op[p].path) = 1) /\ ~(Copy(i).type # "dir" \/ next = None)
  <2> DEFINE pc == IF Len(op[p].path) = 1 THEN op[p].then ELSE "walk"
             up == name = ".." /\ Copy(i).nlink = 0
             o == [op[p] EXCEPT !.ip = next, !.path = Tail(@), !.pc = pc, !.up = up]
  <2>a. /\ mem' = iget(m, next) /\ puts' = [puts EXCEPT ![p] = <<Put(i)>>]
        /\ op' = [op EXCEPT ![p] = [@ EXCEPT !.ip = next, !.path = Tail(op[p].path), !.pc = pc, !.up = up]]
    BY <1>10, Zenon DEF Namex, next, name
  <2>4. up \in BOOLEAN /\ pc \in Labels /\ (pc = "walk" \/ (pc = op[p].then /\ ~nameiparent(p)))
    BY <1>0, <1>3, <1>10
  <2> HIDE DEF pc, up
  <2>b. op' = [op EXCEPT ![p] = o]
    BY <2>a
  <2>1. mem' = iget(m, next) /\ puts' = [puts EXCEPT ![p] = <<Put(i)>>] /\ op' = [op EXCEPT ![p] = o]
    BY <2>a, <2>b, Zenon
  <2>2. next \in Inum
    BY <1>6, <1>10
  <2>3. mem' \in MemType /\ (\A x \in Inum : mem'[x].ref = mem[x].ref + Is(next, x)) /\ CopyInv' /\ OwnInodes(p)
    BY <1>1, <1>2, <2>1, <2>2, ReadGet
  <2>5. o = [op[p] EXCEPT !.ip = next, !.path = Tail(@), !.pc = pc, !.up = up]
    OBVIOUS
  <2> HIDE DEF o
  <2>6. o \in OpType /\ o.pc = pc /\ o.ip = next /\ o.tgt = op[p].tgt /\ o.call = op[p].call /\ o.then = op[p].then
    BY <1>1, <1>5, <2>2, <2>4, <2>5 DEF OpType
  <2>7. OpOK(o) /\ o.call # "gone" /\ IpIn(o) = next
    BY <1>1, <2>2, <2>4, <2>6, ConstFacts DEF OpOK, HasIp, HasTgt, IpIn, nameiparent
  <2>8. OpAlive(o)
    BY <1>1, <2>4, <2>6 DEF OpAlive, OpOK, nameiparent
  <2>9. \A x \in Inum : mem'[x].ref = mem[x].ref - Is(cwd[p], x) - Is(IpIn(op[p]), x) - Is(op[p].tgt, x)
                                     + Is(cwd[p], x) + Is(IpIn(o), x) + Is(o.tgt, x) + Is(i, x)
    BY <1>3, <1>7, <2>3, <2>6, <2>7, ConstFacts DEF Is, MemType
  <2>10. o.pc \in PutsAt \ {"opened", "unlink3"}
    BY <1>1, <2>4, <2>6 DEF PutsAt, nameiparent, OpOK
  <2>11. cwd' = [cwd EXCEPT ![p] = cwd[p]] /\ stray' \in BOOLEAN
    BY <1>0, <1>2 DEF TypeOK
  <2> QED
    BY <1>0, <1>1, <1>2, <2>1, <2>3, <2>6, <2>7, <2>8, <2>9, <2>10, <2>11, MovePut
<1> QED
  BY <1>8, <1>9, <1>10

(* A step of p that changes inodes S, none of them locked by anybody else, and
   inodes that were free.                                                  *)
LEMMA Touch ==
  ASSUME Core, NEW p \in Proc, NEW S, \A x \in Inum : x \in S => lock[x] \in {p, NoProc},
         \A x \in Inum : x \notin S =>
           /\ disk'.dir[x] = disk.dir[x] /\ (disk.ino[x].type # "free" => disk'.ino[x] = disk.ino[x])
           /\ mem'[x].valid => mem[x].valid /\ mem'[x].c = mem[x].c
           /\ mem[x].ref > 0 => mem'[x].valid = mem[x].valid /\ mem'[x].c = mem[x].c,
         \A x \in Inum : x \in S =>
           /\ disk.ino[x].type # "free" => disk'.ino[x].type = disk.ino[x].type
           /\ mem'[x].valid => mem'[x].c = disk'.ino[x] /\ disk'.ino[x].type # "free"
  PROVE  CopyInv' /\ OwnInodes(p)
<1>1. CopyInv
  BY DEF Core
<1> QED
  BY <1>1 DEF CopyInv, OwnInodes

(* Nothing that is live stops to be. *)
LEMMA LiveGrows ==
  ASSUME Core, NEW p \in Proc, NEW s, puts[p] = <<>>, puts' = [puts EXCEPT ![p] = s], freeing' = freeing, OwnInodes(p)
  PROVE  Live \subseteq Live' /\ \A x \in Live : disk'.ino[x].type = disk.ino[x].type
<1>1. freeing[p] = "no" /\ \A q \in Proc \ {p} : puts'[q] = puts[q]
  BY DEF Core, PcInv, ProcOK, TypeOK
<1> QED
  BY <1>1 DEF Live, Dying, OwnInodes

(* Between two inodes a process has no lock. *)
LEMMA NoLocks ==
  ASSUME Core, NEW p \in Proc, puts[p] = <<>>, op[p].pc \notin {"fill", "unlink2", "opened", "unlink3"}
  PROVE  \A x \in Inum : lock[x] # p
<1>1. LockInv /\ Len(puts[p]) = 0
  BY DEF Core
<1> QED
  BY <1>1 DEF LockInv, Locks, Holds

(* sys_chdir() keeps Core. *)
LEMMA ChdirCore ==
  ASSUME Core, NEW p \in Proc, Chdir(p)
  PROVE  Core'
<1> DEFINE i == op[p].ip
<1>0. TypeOK /\ "chdir" \in Labels /\ At(p, "chdir")
  BY DEF Core, Labels, Chdir
<1>1. /\ op[p] \in OpType /\ OpOK(op[p]) /\ op[p].pc = "chdir" /\ i \in Inum /\ cwd[p] \in Inum
  BY <1>0, AtFacts DEF HasIp, Labels
<1>2. IpIn(op[p]) = i /\ op[p].tgt = None
  BY <1>1 DEF IpIn, HasIp, OpOK, HasTgt
<1>3. UNCHANGED <<disk, durable, lock, file, ofile, alive, freeing, out, boot>> /\ stray' \in BOOLEAN /\ ilock(i)
      /\ mem' = Known(mem, i, Copy(i))
  BY <1>0 DEF Chdir, TypeOK
<1>4. mem' \in MemType /\ (\A x \in Inum : mem'[x].ref = mem[x].ref) /\ CopyInv' /\ OwnInodes(p)
  BY <1>1, <1>3, ReadKnown
<1>5. PICK j \in {i, cwd[p]}, w \in {i, cwd[p]} :
        /\ puts' = [puts EXCEPT ![p] = <<Put(j)>>] /\ cwd' = [cwd EXCEPT ![p] = w] /\ Goto(p, "end")
        /\ (j = i /\ w = cwd[p]) \/ (j = cwd[p] /\ w = i)
  <2>1. CASE Copy(i).type = "dir"
    BY <2>1 DEF Chdir, PutAll
  <2>2. CASE Copy(i).type # "dir"
    <3>1. cwd' = [cwd EXCEPT ![p] = cwd[p]]
      BY <1>0, <2>2 DEF Chdir, TypeOK
    <3> QED
      BY <2>2, <3>1 DEF Chdir, PutAll
  <2> QED
    BY <2>1, <2>2
<1>6. PICK o \in OpType : /\ op' = [op EXCEPT ![p] = o] /\ o.pc = "end" /\ OpOK(o) /\ o.tgt = None /\ o.call # "gone"
                          /\ IpIn(o) = None
  BY <1>0, <1>5, GotoFacts DEF Labels
<1>7. OpAlive(o)
  BY <1>6 DEF OpAlive
<1>8. mem \in MemType
  BY <1>0 DEF TypeOK, MemType
<1>9. \A x \in Inum : mem'[x].ref = mem[x].ref - Is(cwd[p], x) - Is(IpIn(op[p]), x) - Is(op[p].tgt, x)
                                     + Is(w, x) + Is(IpIn(o), x) + Is(o.tgt, x) + Is(j, x)
  BY <1>2, <1>4, <1>5, <1>6, <1>8, ConstFacts DEF Is, MemType
<1>10. o.pc \in PutsAt \ {"opened", "unlink3"} /\ j \in Inum /\ w \in Inum
  BY <1>1, <1>5, <1>6 DEF PutsAt
<1> QED
  BY <1>0, <1>3, <1>4, <1>5, <1>6, <1>7, <1>9, <1>10, MovePut

(* create() of a name that is there keeps Core. *)
LEMMA CreateExistsCore ==
  ASSUME Core, NEW p \in Proc, CreateExists(p)
  PROVE  Core'
<1> DEFINE i == op[p].tgt
<1>0. TypeOK /\ "exists" \in Labels /\ At(p, "exists") /\ LockInv
  BY DEF Core, Labels, CreateExists
<1>1. /\ op[p] \in OpType /\ OpOK(op[p]) /\ op[p].pc = "exists" /\ i \in Inum /\ cwd[p] \in Inum /\ op[p].call # "gone"
      /\ puts[p] = <<>> /\ freeing[p] = "no" /\ boot = None /\ p \in alive /\ p \in out
  BY <1>0, AtFacts DEF HasTgt, Labels, OpOK
<1>2. IpIn(op[p]) = None
  BY <1>1 DEF IpIn, HasIp
<1>3. UNCHANGED <<disk, durable, file, ofile, cwd, alive, freeing, out, boot>> /\ stray' \in BOOLEAN /\ ilock(i)
      /\ mem' = Known(mem, i, Copy(i)) /\ Rest(p)
  BY <1>0 DEF CreateExists, TypeOK, procvars, Rest
<1>4. mem' \in MemType /\ (\A x \in Inum : mem'[x].ref = mem[x].ref) /\ CopyInv' /\ OwnInodes(p)
  BY <1>1, <1>3, ReadKnown
<1>5. CASE op[p].call = "creat" /\ Copy(i).type \in {"file", "device"}
  <2>1. lock' = [lock EXCEPT ![i] = p] /\ Goto(p, "opened") /\ puts' = puts
    BY <1>5 DEF CreateExists
  <2>2. PICK o \in OpType : /\ op' = [op EXCEPT ![p] = o] /\ o.pc = "opened" /\ o.tgt = i /\ o.call = op[p].call
    BY <1>0, <2>1, GotoFacts DEF Labels
  <2>3. OpOK(o) /\ IpIn(o) = None
    BY <1>1, <2>2, ConstFacts DEF OpOK, HasIp, HasTgt, IpIn
  <2> DEFINE s == <<>>
  <2>4. s \in Seq([i : Inum, unlock : BOOLEAN]) /\ Len(s) = 0 /\ s = <<>>
    OBVIOUS
  <2>5. puts' = [puts EXCEPT ![p] = s] /\ cwd' = [cwd EXCEPT ![p] = cwd[p]] /\ out' = out \cup {p}
        /\ lock' \in [Inum -> Proc \cup {NoProc}] /\ disk' \in DiskType
    BY <1>0, <1>1, <1>3, <2>1 DEF TypeOK
  <2>6. \A x \in Inum : mem'[x].ref = mem[x].ref - Tally(cwd[p], op[p], <<>>, x) + Tally(cwd[p], o, s, x)
    <3>1. mem \in MemType
      BY <1>0 DEF TypeOK, MemType
    <3> QED
      BY <1>2, <1>4, <2>2, <2>3, <2>4, <3>1, TallyFacts, IsFacts DEF MemType
  <2> HIDE DEF s
  <2>7. i \in Live /\ lock[i] = NoProc
    BY <1>1, <1>3, LockedLive
  <2>8. Live \subseteq Live'
    BY <1>1, <1>3, <1>4, <2>5, LiveGrows
  <2>9. op'[p] = o
    BY <1>0, <2>2 DEF TypeOK
  <2>10. OpAlive(op[p])'
    BY <2>2, <2>7, <2>8, <2>9 DEF OpAlive
  <2>a. \A x \in Inum : lock[x] # p
    BY <1>1, NoLocks
  <2>11. \A x \in Inum : lock'[x] = p <=> Holds(o, s, "no", x)
    BY <1>0, <2>1, <2>2, <2>4, <2>a DEF Holds, TypeOK
  <2>12. Apart(o, s)
    BY <2>4 DEF Apart
  <2>13. \A x \in Inum : lock'[x] = lock[x] \/ (lock[x] \in {p, NoProc} /\ lock'[x] \in {p, NoProc})
    BY <1>0, <2>1, <2>7 DEF TypeOK
  <2>14. /\ Len(s) <= 2 /\ (s # <<>> => o.pc \in PutsAt) /\ o.call # "gone"
         /\ o.pc = "fill" => \A q \in Proc \ {p} : op[q].pc = "fill" => op[q].tgt # o.tgt
    BY <1>1, <2>2, <2>4
  <2> QED
    BY <1>1, <1>3, <1>4, <2>2, <2>3, <2>4, <2>5, <2>6, <2>10, <2>11, <2>12, <2>13, <2>14, OpStep
<1>6. CASE ~(op[p].call = "creat" /\ Copy(i).type \in {"file", "device"})
  <2>1. PutAll(p, <<Put(i)>>, "end") /\ lock' = lock
    BY <1>6 DEF CreateExists
  <2>2. "exists" \in Labels \ {"idle", "exit", "end"}
    BY DEF Labels
  <2> QED
    BY <1>0, <1>1, <1>2, <1>3, <2>1, <2>2, GiveUp
<1> QED
  BY <1>5, <1>6

(* A step in a call after which there is nothing to put. *)
LEMMA StepNone ==
  ASSUME Core, NEW p \in Proc, NEW l \in Labels \ {"idle", "exit", "end"}, At(p, l), NEW o \in OpType,
         op' = [op EXCEPT ![p] = o], puts' = puts, Rest(p), OpOK(o), o.call # "gone",
         mem' \in MemType, lock' \in [Inum -> Proc \cup {NoProc}], disk' \in DiskType,
         \A x \in Inum : mem'[x].ref = mem[x].ref - Is(IpIn(op[p]), x) - Is(op[p].tgt, x) + Is(IpIn(o), x) + Is(o.tgt, x),
         \A x \in Inum : lock'[x] = lock[x] \/ (lock[x] \in {p, NoProc} /\ lock'[x] \in {p, NoProc}),
         \A x \in Inum : lock'[x] = p <=> \/ o.pc \in {"fill", "unlink2"} /\ o.ip = x
                                          \/ o.pc \in {"opened", "unlink3"} /\ o.tgt = x,
         CopyInv', OwnInodes(p), OpAlive(op[p])',
         o.pc = "fill" => \A q \in Proc \ {p} : op[q].pc = "fill" => op[q].tgt # o.tgt
  PROVE  Core'
<1>0. TypeOK
  BY DEF Core
<1>1. puts[p] = <<>> /\ boot = None /\ p \in alive /\ p \in out /\ cwd[p] \in Inum
  BY AtFacts
<1>2. UNCHANGED <<durable, file, ofile, cwd, alive, freeing, out, boot>> /\ stray' \in BOOLEAN
  BY DEF Rest
<1> DEFINE s == <<>>
<1>3. s \in Seq([i : Inum, unlock : BOOLEAN]) /\ Len(s) = 0 /\ s = <<>>
  OBVIOUS
<1>4. puts' = [puts EXCEPT ![p] = s] /\ cwd' = [cwd EXCEPT ![p] = cwd[p]] /\ out' = out \cup {p}
  BY <1>0, <1>1, <1>2 DEF TypeOK
<1>5. \A x \in Inum : mem'[x].ref = mem[x].ref - Tally(cwd[p], op[p], <<>>, x) + Tally(cwd[p], o, s, x)
  <2>1. mem \in MemType
    BY <1>0 DEF TypeOK, MemType
  <2> SUFFICES ASSUME NEW x \in Inum
               PROVE  mem'[x].ref = mem[x].ref - Tally(cwd[p], op[p], <<>>, x) + Tally(cwd[p], o, s, x)
    OBVIOUS
  <2>2. /\ Tally(cwd[p], op[p], <<>>, x) = Is(cwd[p], x) + Is(IpIn(op[p]), x) + Is(op[p].tgt, x)
        /\ Tally(cwd[p], o, s, x) = Is(cwd[p], x) + Is(IpIn(o), x) + Is(o.tgt, x)
    BY TallyFacts
  <2>3. /\ Is(cwd[p], x) \in Nat /\ Is(IpIn(op[p]), x) \in Nat /\ Is(op[p].tgt, x) \in Nat
        /\ Is(IpIn(o), x) \in Nat /\ Is(o.tgt, x) \in Nat
    BY IsFacts
  <2>4. mem[x].ref \in Nat
    BY <2>1 DEF MemType
  <2> QED
    BY <2>2, <2>3, <2>4
<1> HIDE DEF s
<1>6. \A x \in Inum : lock'[x] = p <=> Holds(o, s, "no", x)
  BY <1>3 DEF Holds
<1>7. Apart(o, s)
  BY <1>3 DEF Apart
<1>8. Len(s) <= 2 /\ (s # <<>> => o.pc \in PutsAt)
  BY <1>3
<1>9. UNCHANGED <<durable, file, ofile, alive, freeing, boot>>
  BY <1>2
<1>11. /\ Core /\ p \in Proc /\ o \in OpType /\ s \in Seq([i : Inum, unlock : BOOLEAN]) /\ cwd[p] \in Inum
       /\ puts[p] = <<>> /\ p \in alive /\ boot = None
       /\ op' = [op EXCEPT ![p] = o] /\ puts' = [puts EXCEPT ![p] = s] /\ cwd' = [cwd EXCEPT ![p] = cwd[p]]
       /\ UNCHANGED <<durable, file, ofile, alive, freeing, boot>> /\ out' = out \cup {p} /\ stray' \in BOOLEAN
       /\ OpOK(o) /\ o.call # "gone" /\ Len(s) <= 2 /\ (s # <<>> => o.pc \in PutsAt)
       /\ mem' \in MemType /\ lock' \in [Inum -> Proc \cup {NoProc}] /\ disk' \in DiskType
  BY <1>1, <1>2, <1>3, <1>4, <1>8
<1>12. /\ \A i \in Inum : mem'[i].ref = mem[i].ref - Tally(cwd[p], op[p], <<>>, i) + Tally(cwd[p], o, s, i)
       /\ \A i \in Inum : lock'[i] = lock[i] \/ (lock[i] \in {p, NoProc} /\ lock'[i] \in {p, NoProc})
       /\ \A i \in Inum : lock'[i] = p <=> Holds(o, s, "no", i)
       /\ Apart(o, s) /\ CopyInv' /\ OwnInodes(p) /\ OpAlive(op[p])'
       /\ o.pc = "fill" => \A q \in Proc \ {p} : op[q].pc = "fill" => op[q].tgt # o.tgt
  BY <1>5, <1>6, <1>7
<1> QED
  BY <1>11, <1>12, OpStep

(* create() up to ialloc() keeps Core. *)
LEMMA CreateCore ==
  ASSUME Core, NEW p \in Proc, Create(p)
  PROVE  Core'
<1> DEFINE dp == op[p].ip
           name == Head(op[p].path)
           ip == dirlookup(disk, dp, name)
           m == Known(mem, dp, Copy(dp))
<1>0. TypeOK /\ "create" \in Labels /\ At(p, "create") /\ AliveInv /\ CopyInv
  BY DEF Core, Labels, Create
<1>1. /\ op[p] \in OpType /\ OpOK(op[p]) /\ op[p].pc = "create" /\ dp \in Inum /\ cwd[p] \in Inum /\ op[p].call # "gone"
      /\ puts[p] = <<>> /\ freeing[p] = "no" /\ OpAlive(op[p])
  BY <1>0, AtFacts DEF HasIp, Labels, AliveInv
<1>2. IpIn(op[p]) = dp /\ op[p].tgt = None /\ op[p].path # <<>> /\ op[p].call \in DOMAIN TypeOf
  BY <1>1 DEF IpIn, HasIp, HasTgt, OpOK
<1>3. UNCHANGED <<durable, file, ofile, cwd, alive, freeing, out, boot, stray>> /\ ilock(dp) /\ Rest(p)
  BY <1>0 DEF Create, procvars, Rest, TypeOK
<1>4. name \in DirNames /\ mem \in MemType
  BY <1>0, <1>1, <1>2 DEF OpType, TypeOK, MemType
<1>5. ip \in {None} \cup Inum
  BY <1>0, <1>1, <1>4 DEF dirlookup, TypeOK, DiskType
<1>6. dp \in Live /\ lock[dp] = NoProc /\ Copy(dp) = disk.ino[dp] /\ disk.ino[dp] \in Dinode /\ disk.ino[dp].type # "free"
  BY <1>1, <1>3, LockedLive
<1>7. "create" \in Labels \ {"idle", "exit", "end", "fill", "unlink2", "opened", "unlink3"}
  BY DEF Labels
<1> HIDE DEF name, ip
<1>8. CASE ip # None
  <2> DEFINE up == name = ".." /\ Copy(dp).nlink = 0
             o == [op[p] EXCEPT !.pc = "exists", !.tgt = ip, !.up = up]
  <2>1. /\ mem' = iget(m, ip) /\ puts' = [puts EXCEPT ![p] = <<Put(dp)>>] /\ disk' = disk /\ lock' = lock
        /\ op' = [op EXCEPT ![p].pc = "exists", ![p].tgt = ip, ![p].up = up]
    BY <1>8, Zenon DEF Create, name, ip
  <2>2. up \in BOOLEAN /\ ip \in Inum
    BY <1>5, <1>8
  <2> HIDE DEF up
  <2>3. op' = [op EXCEPT ![p] = o]
    BY <1>0, <2>1 DEF TypeOK
  <2>4. o \in OpType /\ o.pc = "exists" /\ o.tgt = ip /\ o.call = op[p].call
    BY <1>1, <2>2 DEF OpType, Labels
  <2> HIDE DEF o
  <2>5. OpOK(o) /\ o.call # "gone" /\ IpIn(o) = None
    BY <1>1, <2>2, <2>4, ConstFacts DEF OpOK, HasIp, HasTgt, IpIn
  <2>6. OpAlive(o)
    BY <2>4 DEF OpAlive
  <2>7. mem' \in MemType /\ (\A x \in Inum : mem'[x].ref = mem[x].ref + Is(ip, x)) /\ CopyInv' /\ OwnInodes(p)
    BY <1>1, <1>3, <2>1, <2>2, ReadGet
  <2>8. \A x \in Inum : mem'[x].ref = mem[x].ref - Is(cwd[p], x) - Is(IpIn(op[p]), x) - Is(op[p].tgt, x)
                                     + Is(cwd[p], x) + Is(IpIn(o), x) + Is(o.tgt, x) + Is(dp, x)
    BY <1>2, <1>4, <2>4, <2>5, <2>7, ConstFacts DEF Is, MemType
  <2>9. o.pc \in PutsAt \ {"opened", "unlink3"} /\ cwd' = [cwd EXCEPT ![p] = cwd[p]] /\ stray' \in BOOLEAN
    BY <1>0, <1>3, <2>4 DEF PutsAt, TypeOK
  <2> QED
    BY <1>0, <1>1, <1>3, <1>7, <2>1, <2>3, <2>4, <2>5, <2>6, <2>7, <2>8, <2>9, MovePut
<1>9. CASE ip = None /\ FreeInums = {}
  <2>1. mem' = m /\ PutAll(p, <<Put(dp)>>, "end") /\ disk' = disk /\ lock' = lock
    BY <1>9 DEF Create, name, ip
  <2> QED
    BY <1>0, <1>1, <1>2, <1>3, <1>7, <2>1, GiveUp
<1>10. CASE ip = None /\ FreeInums # {}
  <2> DEFINE new == Min(FreeInums)
             type == TypeOf[op[p].call]
             z == [Zero EXCEPT !.type = type]
             o == [op[p] EXCEPT !.pc = "fill", !.tgt = new]
  <2>1. /\ disk' = ialloc(new, type) /\ mem' = iget(m, new) /\ lock' = [lock EXCEPT ![dp] = p]
        /\ op' = [op EXCEPT ![p].pc = "fill", ![p].tgt = new] /\ puts' = puts
    BY <1>10 DEF Create, name, ip
  <2>2. FreeInums \subseteq Nat
    BY DEF FreeInums, Inum
  <2>3. new \in FreeInums
    BY <1>10, <2>2, MinIn
  <2>4. new \in Inum /\ disk.ino[new].type = "free"
    BY <2>3 DEF FreeInums
  <2>5. type \in Kind /\ type # "free"
    BY <1>2 DEF TypeOf, Kind
  <2> HIDE DEF new, type
  <2>6. z \in Dinode /\ z.type = type
    BY <2>5, ZeroType DEF Dinode
  <2>7. disk' = iupdate(disk, new, z)
    BY <2>1 DEF ialloc, iupdate
  <2> HIDE DEF z
  <2>8. disk' \in DiskType /\ disk'.ino = [disk.ino EXCEPT ![new] = z] /\ disk'.dir = disk.dir
    BY <1>0, <2>4, <2>6, <2>7, UpdateOne DEF TypeOK
  <2>9. op' = [op EXCEPT ![p] = o]
    BY <1>0, <2>1 DEF TypeOK
  <2>10. o \in OpType /\ o.pc = "fill" /\ o.tgt = new /\ o.ip = dp /\ o.call = op[p].call /\ o.path = op[p].path
    BY <1>1, <2>4 DEF OpType, Labels
  <2> HIDE DEF o
  <2>11. OpOK(o) /\ o.call # "gone" /\ IpIn(o) = dp
    BY <1>1, <1>2, <2>4, <2>10, ConstFacts DEF OpOK, HasIp, HasTgt, IpIn
  <2>12. /\ m \in MemType
         /\ \A x \in Inum : m[x].ref = mem[x].ref
         /\ m[dp].valid /\ m[dp].c = disk.ino[dp]
         /\ \A x \in Inum \ {dp} : m[x] = mem[x]
    BY <1>1, <1>4, <1>6, KnownFacts
  <2> HIDE DEF m
  <2>13. /\ mem' \in MemType
         /\ \A x \in Inum : mem'[x].ref = m[x].ref + Is(new, x)
         /\ \A x \in Inum : mem'[x].valid => m[x].valid /\ mem'[x].c = m[x].c
         /\ \A x \in Inum : m[x].ref > 0 => mem'[x].valid = m[x].valid /\ mem'[x].c = m[x].c
    BY <2>1, <2>4, <2>12, IgetFacts
  <2>14. disk.ino \in [Inum -> Dinode]
    BY <1>0 DEF TypeOK, DiskType
  <2>15. CopyInv' /\ OwnInodes(p)
    <3> DEFINE S == {dp}
    <3>1. \A x \in Inum : x \in S => lock[x] \in {p, NoProc}
      BY <1>6
    <3>2. \A x \in Inum : x \notin S =>
           /\ disk'.dir[x] = disk.dir[x] /\ (disk.ino[x].type # "free" => disk'.ino[x] = disk.ino[x])
           /\ mem'[x].valid => mem[x].valid /\ mem'[x].c = mem[x].c
           /\ mem[x].ref > 0 => mem'[x].valid = mem[x].valid /\ mem'[x].c = mem[x].c
      BY <2>4, <2>8, <2>12, <2>13, <2>14
    <3>3. disk'.ino[dp] = disk.ino[dp]
      BY <1>1, <1>6, <2>4, <2>8, <2>14
    <3>4. \A x \in Inum : x \in S =>
           /\ disk.ino[x].type # "free" => disk'.ino[x].type = disk.ino[x].type
           /\ mem'[x].valid => mem'[x].c = disk'.ino[x] /\ disk'.ino[x].type # "free"
      BY <1>6, <2>12, <2>13, <3>3
    <3> HIDE DEF S
    <3> QED
      BY <3>1, <3>2, <3>4, Touch
  <2>16. Live \subseteq Live' /\ \A x \in Live : disk'.ino[x].type = disk.ino[x].type
    <3>1. puts' = [puts EXCEPT ![p] = <<>>]
      BY <1>0, <1>1, <2>1 DEF TypeOK
    <3> QED
      BY <1>1, <1>3, <2>15, <3>1, LiveGrows
  <2>17. new \in Live'
    <3>1. disk'.ino[new] = z
      BY <2>4, <2>8, <2>14
    <3>2. ~mem[new].valid
      BY <1>0, <2>4 DEF CopyInv
    <3>3. \A q \in Proc : ~(freeing[q] = "trunc" /\ puts[q][1].i = new)
      BY <1>0, <3>2 DEF AliveInv
    <3> QED
      BY <1>3, <2>1, <2>4, <2>5, <2>6, <3>1, <3>3 DEF Live, Dying
  <2>18. op'[p] = o
    BY <1>0, <2>9 DEF TypeOK
  <2>19. OpAlive(op[p])'
    <3>1. disk'.ino[new].type = TypeOf[o.call]
      BY <2>4, <2>6, <2>8, <2>10, <2>14 DEF type
    <3>2. dp \in Live' /\ disk'.ino[dp].type = "dir"
      BY <1>1, <1>6, <2>16 DEF OpAlive
    <3> QED
      BY <2>10, <2>17, <2>18, <3>1, <3>2 DEF OpAlive
  <2>20. \A q \in Proc \ {p} : op[q].pc = "fill" => op[q].tgt # o.tgt
    BY <1>0, <2>4, <2>10 DEF AliveInv, OpAlive, Live
  <2>21. \A x \in Inum : mem'[x].ref = mem[x].ref - Is(IpIn(op[p]), x) - Is(op[p].tgt, x) + Is(IpIn(o), x) + Is(o.tgt, x)
    BY <1>2, <1>4, <2>10, <2>11, <2>12, <2>13, ConstFacts DEF Is, MemType
  <2>22. \A x \in Inum : lock[x] # p
    BY <1>1, NoLocks
  <2>23. /\ lock' \in [Inum -> Proc \cup {NoProc}]
         /\ \A x \in Inum : lock'[x] = lock[x] \/ (lock[x] \in {p, NoProc} /\ lock'[x] \in {p, NoProc})
         /\ \A x \in Inum : lock'[x] = p <=> \/ o.pc \in {"fill", "unlink2"} /\ o.ip = x
                                             \/ o.pc \in {"opened", "unlink3"} /\ o.tgt = x
    BY <1>0, <1>1, <1>6, <2>1, <2>10, <2>22 DEF TypeOK
  <2> QED
    BY <1>0, <1>3, <1>7, <2>1, <2>8, <2>9, <2>10, <2>11, <2>13, <2>15, <2>19, <2>20, <2>21, <2>23, StepNone
<1> QED
  BY <1>8, <1>9, <1>10

(* What is to be put, one inode or two. *)
LEMMA PutForm ==
  ASSUME NEW j \in Inum, NEW b \in BOOLEAN, NEW k \in Inum, NEW c \in BOOLEAN, NEW s
  PROVE  /\ s = <<[i |-> j, unlock |-> b]>> =>
              /\ s \in Seq([i : Inum, unlock : BOOLEAN]) /\ Len(s) = 1 /\ s # <<>> /\ s[1].i = j /\ s[1].unlock = b
              /\ FirstIn(s) = j /\ SecondIn(s) = None
         /\ s = <<[i |-> j, unlock |-> b], [i |-> k, unlock |-> c]>> =>
              /\ s \in Seq([i : Inum, unlock : BOOLEAN]) /\ Len(s) = 2 /\ s # <<>>
              /\ s[1].i = j /\ s[1].unlock = b /\ s[2].i = k /\ s[2].unlock = c
              /\ FirstIn(s) = j /\ SecondIn(s) = k
<1>1. /\ [i |-> j, unlock |-> b] \in [i : Inum, unlock : BOOLEAN] /\ [i |-> j, unlock |-> b].i = j /\ [i |-> j, unlock |-> b].unlock = b
      /\ [i |-> k, unlock |-> c] \in [i : Inum, unlock : BOOLEAN] /\ [i |-> k, unlock |-> c].i = k /\ [i |-> k, unlock |-> c].unlock = c
  OBVIOUS
<1> DEFINE R == [i : Inum, unlock : BOOLEAN]
           y == [i |-> j, unlock |-> b]
           z == [i |-> k, unlock |-> c]
<1>2. y \in R /\ z \in R /\ y.i = j /\ z.i = k /\ y.unlock = b /\ z.unlock = c
  BY <1>1
<1> HIDE DEF R, y, z
<1>3. ASSUME s = <<y>> PROVE s \in Seq(R) /\ Len(s) = 1 /\ s # <<>> /\ s[1] = y
  BY <1>2, <1>3
<1>4. ASSUME s = <<y, z>> PROVE s \in Seq(R) /\ Len(s) = 2 /\ s # <<>> /\ s[1] = y /\ s[2] = z
  BY <1>2, <1>4
<1>5. ASSUME s = <<y>>
      PROVE  /\ s \in Seq(R) /\ Len(s) = 1 /\ s # <<>> /\ s[1].i = j /\ s[1].unlock = b
             /\ FirstIn(s) = j /\ SecondIn(s) = None
  BY <1>2, <1>3, <1>5 DEF FirstIn, SecondIn
<1>6. ASSUME s = <<y, z>>
      PROVE  /\ s \in Seq(R) /\ Len(s) = 2 /\ s # <<>>
             /\ s[1].i = j /\ s[1].unlock = b /\ s[2].i = k /\ s[2].unlock = c
             /\ FirstIn(s) = j /\ SecondIn(s) = k
  BY <1>2, <1>4, <1>6 DEF FirstIn, SecondIn
<1> QED
  BY <1>5, <1>6 DEF R, y, z

(* A step in a call that leaves one inode to put. *)
LEMMA StepPut ==
  ASSUME Core, NEW p \in Proc, NEW l \in Labels \ {"idle", "exit", "end"}, At(p, l), NEW o \in OpType,
         op' = [op EXCEPT ![p] = o], NEW j \in Inum, NEW b \in BOOLEAN,
         puts' = [puts EXCEPT ![p] = <<[i |-> j, unlock |-> b]>>],
         Rest(p), OpOK(o), o.call # "gone", o.pc \in PutsAt,
         mem' \in MemType, lock' \in [Inum -> Proc \cup {NoProc}], disk' \in DiskType,
         \A x \in Inum : mem'[x].ref = mem[x].ref - Is(IpIn(op[p]), x) - Is(op[p].tgt, x)
                                       + Is(IpIn(o), x) + Is(o.tgt, x) + Is(j, x),
         \A x \in Inum : lock'[x] = lock[x] \/ (lock[x] \in {p, NoProc} /\ lock'[x] \in {p, NoProc}),
         \A x \in Inum : lock'[x] = p <=> (b /\ x = j) \/ (o.pc \in {"opened", "unlink3"} /\ o.tgt = x),
         o.pc \in {"opened", "unlink3"} => j # o.tgt,
         CopyInv', OwnInodes(p), OpAlive(op[p])'
  PROVE  Core'
<1>0. TypeOK
  BY DEF Core
<1>1. puts[p] = <<>> /\ boot = None /\ p \in alive /\ p \in out /\ cwd[p] \in Inum
  BY AtFacts
<1>2. UNCHANGED <<durable, file, ofile, cwd, alive, freeing, out, boot>> /\ stray' \in BOOLEAN
  BY DEF Rest
<1> DEFINE s == <<[i |-> j, unlock |-> b]>>
<1>3. s \in Seq([i : Inum, unlock : BOOLEAN]) /\ Len(s) = 1 /\ s # <<>> /\ s[1].i = j /\ s[1].unlock = b
      /\ FirstIn(s) = j /\ SecondIn(s) = None
  BY PutForm
<1>4. puts' = [puts EXCEPT ![p] = s] /\ cwd' = [cwd EXCEPT ![p] = cwd[p]] /\ out' = out \cup {p}
  BY <1>0, <1>1, <1>2 DEF TypeOK
<1> HIDE DEF s
<1>5. \A x \in Inum : mem'[x].ref = mem[x].ref - Tally(cwd[p], op[p], <<>>, x) + Tally(cwd[p], o, s, x)
  <2> SUFFICES ASSUME NEW x \in Inum
               PROVE  mem'[x].ref = mem[x].ref - Tally(cwd[p], op[p], <<>>, x) + Tally(cwd[p], o, s, x)
    OBVIOUS
  <2>2. /\ Tally(cwd[p], op[p], <<>>, x) = Is(cwd[p], x) + Is(IpIn(op[p]), x) + Is(op[p].tgt, x)
        /\ Tally(cwd[p], o, s, x) = Is(cwd[p], x) + Is(IpIn(o), x) + Is(o.tgt, x) + Is(j, x)
    BY <1>3, TallyFacts
  <2>3. /\ Is(cwd[p], x) \in Nat /\ Is(IpIn(op[p]), x) \in Nat /\ Is(op[p].tgt, x) \in Nat
        /\ Is(IpIn(o), x) \in Nat /\ Is(o.tgt, x) \in Nat /\ Is(j, x) \in Nat
    BY IsFacts
  <2>4. mem[x].ref \in Nat
    BY <1>0 DEF TypeOK
  <2> QED
    BY <2>2, <2>3, <2>4
<1>6. \A x \in Inum : lock'[x] = p <=> Holds(o, s, "no", x)
  BY <1>3 DEF Holds, PutsAt
<1>7. Apart(o, s)
  BY <1>3 DEF Apart
<1>8. /\ Core /\ p \in Proc /\ o \in OpType /\ s \in Seq([i : Inum, unlock : BOOLEAN]) /\ cwd[p] \in Inum
      /\ puts[p] = <<>> /\ p \in alive /\ boot = None
      /\ UNCHANGED <<durable, file, ofile, alive, freeing, boot>> /\ out' = out \cup {p} /\ stray' \in BOOLEAN
      /\ OpOK(o) /\ o.call # "gone" /\ Len(s) <= 2 /\ (s # <<>> => o.pc \in PutsAt)
      /\ mem' \in MemType /\ lock' \in [Inum -> Proc \cup {NoProc}] /\ disk' \in DiskType
  BY <1>1, <1>2, <1>3, <1>4
<1>9. /\ \A i \in Inum : mem'[i].ref = mem[i].ref - Tally(cwd[p], op[p], <<>>, i) + Tally(cwd[p], o, s, i)
      /\ \A i \in Inum : lock'[i] = lock[i] \/ (lock[i] \in {p, NoProc} /\ lock'[i] \in {p, NoProc})
      /\ \A i \in Inum : lock'[i] = p <=> Holds(o, s, "no", i)
      /\ Apart(o, s) /\ CopyInv' /\ OwnInodes(p) /\ OpAlive(op[p])'
      /\ o.pc = "fill" => \A q \in Proc \ {p} : op[q].pc = "fill" => op[q].tgt # o.tgt
  BY <1>5, <1>6, <1>7 DEF PutsAt
<1>10. op' = [op EXCEPT ![p] = o] /\ puts' = [puts EXCEPT ![p] = s] /\ cwd' = [cwd EXCEPT ![p] = cwd[p]]
  BY <1>4, Zenon
<1> QED
  BY <1>8, <1>9, <1>10, OpStep

(* ... or those of s. *)
LEMMA StepPuts ==
  ASSUME Core, NEW p \in Proc, NEW l \in Labels \ {"idle", "exit", "end"}, At(p, l), NEW o \in OpType,
         op' = [op EXCEPT ![p] = o], NEW s \in Seq([i : Inum, unlock : BOOLEAN]), s # <<>>, Len(s) <= 2,
         puts' = [puts EXCEPT ![p] = s], Rest(p), OpOK(o), o.call # "gone", o.pc \in PutsAt,
         mem' \in MemType, lock' \in [Inum -> Proc \cup {NoProc}], disk' \in DiskType,
         \A x \in Inum : mem'[x].ref = mem[x].ref - Is(IpIn(op[p]), x) - Is(op[p].tgt, x)
                                       + Is(IpIn(o), x) + Is(o.tgt, x) + Is(FirstIn(s), x) + Is(SecondIn(s), x),
         \A x \in Inum : lock'[x] = lock[x] \/ (lock[x] \in {p, NoProc} /\ lock'[x] \in {p, NoProc}),
         \A x \in Inum : lock'[x] = p <=> Holds(o, s, "no", x), Apart(o, s),
         CopyInv', OwnInodes(p), OpAlive(op[p])'
  PROVE  Core'
<1>0. TypeOK
  BY DEF Core
<1>1. puts[p] = <<>> /\ boot = None /\ p \in alive /\ p \in out /\ cwd[p] \in Inum
  BY AtFacts
<1>2. UNCHANGED <<durable, file, ofile, cwd, alive, freeing, out, boot>> /\ stray' \in BOOLEAN
  BY DEF Rest
<1>3. cwd' = [cwd EXCEPT ![p] = cwd[p]] /\ out' = out \cup {p}
  BY <1>0, <1>1, <1>2 DEF TypeOK
<1>4. \A x \in Inum : mem'[x].ref = mem[x].ref - Tally(cwd[p], op[p], <<>>, x) + Tally(cwd[p], o, s, x)
  <2> SUFFICES ASSUME NEW x \in Inum
               PROVE  mem'[x].ref = mem[x].ref - Tally(cwd[p], op[p], <<>>, x) + Tally(cwd[p], o, s, x)
    OBVIOUS
  <2>2. /\ Tally(cwd[p], op[p], <<>>, x) = Is(cwd[p], x) + Is(IpIn(op[p]), x) + Is(op[p].tgt, x)
        /\ Tally(cwd[p], o, s, x) = Is(cwd[p], x) + Is(IpIn(o), x) + Is(o.tgt, x) + Is(FirstIn(s), x) + Is(SecondIn(s), x)
    BY TallyFacts DEF Tally
  <2>3. /\ Is(cwd[p], x) \in Nat /\ Is(IpIn(op[p]), x) \in Nat /\ Is(op[p].tgt, x) \in Nat
        /\ Is(IpIn(o), x) \in Nat /\ Is(o.tgt, x) \in Nat /\ Is(FirstIn(s), x) \in Nat /\ Is(SecondIn(s), x) \in Nat
    BY IsFacts
  <2>4. mem[x].ref \in Nat
    BY <1>0 DEF TypeOK
  <2>5. mem'[x].ref = mem[x].ref - Is(IpIn(op[p]), x) - Is(op[p].tgt, x)
                                       + Is(IpIn(o), x) + Is(o.tgt, x) + Is(FirstIn(s), x) + Is(SecondIn(s), x)
    OBVIOUS
  <2>6. \A r, a, b, c, d, e, f, g \in Nat : r - b - c + d + e + f + g = r - (a + b + c) + (a + d + e + f + g)
    BY PutSum
  <2> DEFINE r == mem[x].ref
             a == Is(cwd[p], x)
             b == Is(IpIn(op[p]), x)
             c == Is(op[p].tgt, x)
             d == Is(IpIn(o), x)
             e == Is(o.tgt, x)
             f == Is(FirstIn(s), x)
             g == Is(SecondIn(s), x)
  <2>7. /\ r \in Nat /\ a \in Nat /\ b \in Nat /\ c \in Nat /\ d \in Nat /\ e \in Nat /\ f \in Nat /\ g \in Nat
        /\ mem'[x].ref = r - b - c + d + e + f + g
        /\ Tally(cwd[p], op[p], <<>>, x) = a + b + c
        /\ Tally(cwd[p], o, s, x) = a + d + e + f + g
    BY <2>2, <2>3, <2>4, <2>5
  <2> HIDE DEF r, a, b, c, d, e, f, g
  <2>8. mem'[x].ref = r - Tally(cwd[p], op[p], <<>>, x) + Tally(cwd[p], o, s, x)
    BY <2>6, <2>7
  <2> QED
    BY <2>8 DEF r
<1>8. /\ Core /\ p \in Proc /\ o \in OpType /\ s \in Seq([i : Inum, unlock : BOOLEAN]) /\ cwd[p] \in Inum
      /\ puts[p] = <<>> /\ p \in alive /\ boot = None
      /\ UNCHANGED <<durable, file, ofile, alive, freeing, boot>> /\ out' = out \cup {p} /\ stray' \in BOOLEAN
      /\ OpOK(o) /\ o.call # "gone" /\ Len(s) <= 2 /\ (s # <<>> => o.pc \in PutsAt)
      /\ mem' \in MemType /\ lock' \in [Inum -> Proc \cup {NoProc}] /\ disk' \in DiskType
  BY <1>1, <1>2, <1>3
<1>9. /\ \A i \in Inum : mem'[i].ref = mem[i].ref - Tally(cwd[p], op[p], <<>>, i) + Tally(cwd[p], o, s, i)
      /\ \A i \in Inum : lock'[i] = lock[i] \/ (lock[i] \in {p, NoProc} /\ lock'[i] \in {p, NoProc})
      /\ \A i \in Inum : lock'[i] = p <=> Holds(o, s, "no", i)
      /\ Apart(o, s) /\ CopyInv' /\ OwnInodes(p) /\ OpAlive(op[p])'
      /\ o.pc = "fill" => \A q \in Proc \ {p} : op[q].pc = "fill" => op[q].tgt # o.tgt
  BY <1>4 DEF PutsAt
<1>10. op' = [op EXCEPT ![p] = o] /\ puts' = [puts EXCEPT ![p] = s] /\ cwd' = [cwd EXCEPT ![p] = cwd[p]]
  BY <1>3, Zenon
<1> QED
  BY <1>8, <1>9, <1>10, OpStep

(* sys_unlink() up to the lock of the inode keeps Core. *)
LEMMA UnlinkCore ==
  ASSUME Core, NEW p \in Proc, Unlink(p)
  PROVE  Core'
<1> DEFINE dp == op[p].ip
           name == Head(op[p].path)
           ip == dirlookup(disk, dp, name)
           m == Known(mem, dp, Copy(dp))
<1>0. TypeOK /\ "unlink" \in Labels /\ At(p, "unlink") /\ AliveInv /\ CopyInv
  BY DEF Core, Labels, Unlink
<1>1. /\ op[p] \in OpType /\ OpOK(op[p]) /\ op[p].pc = "unlink" /\ dp \in Inum /\ cwd[p] \in Inum /\ op[p].call # "gone"
      /\ puts[p] = <<>> /\ freeing[p] = "no" /\ OpAlive(op[p])
  BY <1>0, AtFacts DEF HasIp, Labels, AliveInv
<1>2. IpIn(op[p]) = dp /\ op[p].tgt = None /\ op[p].path # <<>>
  BY <1>1 DEF IpIn, HasIp, HasTgt, OpOK
<1>3. UNCHANGED <<disk, durable, file, ofile, cwd, alive, freeing, out, boot, stray>> /\ ilock(dp) /\ Rest(p)
  BY <1>0 DEF Unlink, procvars, Rest, TypeOK
<1>4. name \in DirNames /\ mem \in MemType
  BY <1>0, <1>1, <1>2 DEF OpType, TypeOK, MemType
<1>5. ip \in {None} \cup Inum
  BY <1>0, <1>1, <1>4 DEF dirlookup, TypeOK, DiskType
<1>6. dp \in Live /\ lock[dp] = NoProc
  BY <1>1, <1>3, LockedLive
<1>7. "unlink" \in Labels \ {"idle", "exit", "end", "fill", "unlink2", "opened", "unlink3"}
  BY DEF Labels
<1> HIDE DEF name, ip
<1>8. CASE Dot(name) \/ ip = None
  <2>1. mem' = m /\ PutAll(p, <<Put(dp)>>, "end") /\ lock' = lock
    BY <1>8 DEF Unlink, name, ip
  <2> QED
    BY <1>0, <1>1, <1>2, <1>3, <1>7, <2>1, GiveUp
<1>9. CASE ~(Dot(name) \/ ip = None)
  <2> DEFINE o == [op[p] EXCEPT !.pc = "unlink2", !.tgt = ip]
  <2>1. /\ mem' = iget(m, ip) /\ lock' = [lock EXCEPT ![dp] = p] /\ puts' = puts
        /\ op' = [op EXCEPT ![p].pc = "unlink2", ![p].tgt = ip]
    BY <1>9 DEF Unlink, name, ip
  <2>2. ip \in Inum /\ name \in Names
    BY <1>4, <1>5, <1>9 DEF Dot, DirNames
  <2>3. op' = [op EXCEPT ![p] = o]
    BY <1>0, <2>1 DEF TypeOK
  <2>4. o \in OpType /\ o.pc = "unlink2" /\ o.tgt = ip /\ o.ip = dp /\ o.call = op[p].call /\ o.path = op[p].path
    BY <1>1, <2>2 DEF OpType, Labels
  <2> HIDE DEF o
  <2>5. OpOK(o) /\ o.call # "gone" /\ IpIn(o) = dp
    BY <1>1, <1>2, <2>2, <2>4, ConstFacts DEF OpOK, HasIp, HasTgt, IpIn, name
  <2>7. mem' \in MemType /\ (\A x \in Inum : mem'[x].ref = mem[x].ref + Is(ip, x)) /\ CopyInv' /\ OwnInodes(p)
    BY <1>1, <1>3, <2>1, <2>2, ReadGet
  <2>16. Live \subseteq Live' /\ \A x \in Live : disk'.ino[x].type = disk.ino[x].type
    <3>1. puts' = [puts EXCEPT ![p] = <<>>]
      BY <1>0, <1>1, <2>1 DEF TypeOK
    <3> QED
      BY <1>1, <1>3, <2>7, <3>1, LiveGrows
  <2>18. op'[p] = o
    BY <1>0, <2>3 DEF TypeOK
  <2>19. OpAlive(op[p])'
    <3>1. disk'.dir[dp][Head(o.path)] = ip
      BY <1>3, <2>4 DEF ip, name, dirlookup
    <3>2. dp \in Live' /\ disk'.ino[dp].type = "dir"
      BY <1>1, <1>6, <2>16 DEF OpAlive
    <3> QED
      BY <2>4, <2>18, <3>1, <3>2 DEF OpAlive
  <2>20. o.pc = "fill" => \A q \in Proc \ {p} : op[q].pc = "fill" => op[q].tgt # o.tgt
    BY <2>4
  <2>21. \A x \in Inum : mem'[x].ref = mem[x].ref - Is(IpIn(op[p]), x) - Is(op[p].tgt, x) + Is(IpIn(o), x) + Is(o.tgt, x)
    BY <1>2, <1>4, <2>4, <2>5, <2>7, ConstFacts DEF Is, MemType
  <2>22. \A x \in Inum : lock[x] # p
    BY <1>1, NoLocks
  <2>23. /\ lock' \in [Inum -> Proc \cup {NoProc}] /\ disk' \in DiskType
         /\ \A x \in Inum : lock'[x] = lock[x] \/ (lock[x] \in {p, NoProc} /\ lock'[x] \in {p, NoProc})
         /\ \A x \in Inum : lock'[x] = p <=> \/ o.pc \in {"fill", "unlink2"} /\ o.ip = x
                                             \/ o.pc \in {"opened", "unlink3"} /\ o.tgt = x
    BY <1>0, <1>1, <1>3, <1>6, <2>1, <2>4, <2>22 DEF TypeOK
  <2> QED
    BY <1>0, <1>3, <1>7, <2>1, <2>3, <2>4, <2>5, <2>7, <2>19, <2>20, <2>21, <2>23, StepNone
<1> QED
  BY <1>8, <1>9

(* The inode table after iupdate() or ilock() of i: i has a valid copy,
   nothing else has changed.                                              *)
LEMMA KnownMem ==
  ASSUME TypeOK, NEW i \in Inum, NEW c \in Dinode, mem' = Known(mem, i, c)
  PROVE  /\ mem' \in MemType
         /\ \A x \in Inum : mem'[x].ref = mem[x].ref
         /\ mem'[i].valid /\ mem'[i].c = c
         /\ \A x \in Inum \ {i} : mem'[x] = mem[x]
<1>1. mem \in MemType
  BY DEF TypeOK, MemType
<1> QED
  BY <1>1, KnownFacts

(* An inode is written under its lock, and what it says from now on is known. *)
LEMMA WriteKnown ==
  ASSUME Core, NEW p \in Proc, NEW i \in Inum, lock[i] \in {p, NoProc}, disk.ino[i].type # "free",
         NEW c \in Dinode, c.type = disk.ino[i].type, disk'.ino = [disk.ino EXCEPT ![i] = c],
         \A x \in Inum \ {i} : disk'.dir[x] = disk.dir[x], mem' = Known(mem, i, c)
  PROVE  mem' \in MemType /\ (\A x \in Inum : mem'[x].ref = mem[x].ref) /\ CopyInv' /\ OwnInodes(p)
<1>1. mem \in MemType /\ disk.ino \in [Inum -> Dinode]
  BY DEF Core, TypeOK, MemType, DiskType
<1>2. /\ mem' \in MemType
      /\ \A x \in Inum : mem'[x].ref = mem[x].ref
      /\ mem'[i].valid /\ mem'[i].c = c
      /\ \A x \in Inum \ {i} : mem'[x] = mem[x]
  BY KnownMem DEF Core
<1>3. disk'.ino[i] = c /\ \A x \in Inum \ {i} : disk'.ino[x] = disk.ino[x]
  BY <1>1
<1> DEFINE S == {i}
<1>4. \A x \in Inum : x \in S => lock[x] \in {p, NoProc}
  OBVIOUS
<1>5. \A x \in Inum : x \notin S =>
        /\ disk'.dir[x] = disk.dir[x] /\ (disk.ino[x].type # "free" => disk'.ino[x] = disk.ino[x])
        /\ mem'[x].valid => mem[x].valid /\ mem'[x].c = mem[x].c
        /\ mem[x].ref > 0 => mem'[x].valid = mem[x].valid /\ mem'[x].c = mem[x].c
  BY <1>2, <1>3
<1>6. \A x \in Inum : x \in S =>
        /\ disk.ino[x].type # "free" => disk'.ino[x].type = disk.ino[x].type
        /\ mem'[x].valid => mem'[x].c = disk'.ino[x] /\ disk'.ino[x].type # "free"
  BY <1>2, <1>3
<1> HIDE DEF S
<1> QED
  BY <1>2, <1>4, <1>5, <1>6, Touch

(* The "bad:" of sys_link() keeps Core. *)
LEMMA LinkBadCore ==
  ASSUME Core, NEW p \in Proc, LinkBad(p)
  PROVE  Core'
<1> DEFINE i == op[p].tgt
           c == [disk.ino[i] EXCEPT !.nlink = @ - 1]
<1>0. TypeOK /\ "linkbad" \in Labels \ {"idle", "exit", "end"} /\ At(p, "linkbad")
  BY DEF Core, Labels, LinkBad
<1>1. /\ op[p] \in OpType /\ OpOK(op[p]) /\ op[p].pc = "linkbad" /\ i \in Inum /\ puts[p] = <<>>
  BY <1>0, AtFacts DEF HasTgt, Labels, OpOK
<1>2. IpIn(op[p]) = None
  BY <1>1 DEF IpIn, HasIp
<1>3. UNCHANGED <<durable, lock, file, ofile, cwd, alive, freeing, out, boot, stray>> /\ ilock(i) /\ Rest(p)
  BY <1>0 DEF LinkBad, procvars, Rest, TypeOK
<1>4. lock[i] = NoProc /\ Copy(i) = disk.ino[i] /\ disk.ino[i] \in Dinode /\ disk.ino[i].type # "free"
  BY <1>1, <1>3, LockedLive
<1>5. disk' = iupdate(disk, i, c) /\ mem' = Known(mem, i, c)
      /\ puts' = [puts EXCEPT ![p] = <<Put(i)>>] /\ Goto(p, "end")
  BY <1>4 DEF LinkBad, PutAll
<1>6. c \in Dinode /\ c.type = disk.ino[i].type
  BY <1>4 DEF Dinode
<1> HIDE DEF c
<1>7. disk' \in DiskType /\ disk'.ino = [disk.ino EXCEPT ![i] = c] /\ disk'.dir = disk.dir
  <2>1. disk \in DiskType
    BY <1>0 DEF TypeOK
  <2> QED
    BY <1>1, <1>5, <1>6, <2>1, UpdateOne
<1>8. mem' \in MemType /\ (\A x \in Inum : mem'[x].ref = mem[x].ref) /\ CopyInv' /\ OwnInodes(p)
  BY <1>1, <1>4, <1>5, <1>6, <1>7, WriteKnown
<1>9. PICK o \in OpType : /\ op' = [op EXCEPT ![p] = o] /\ o.pc = "end" /\ OpOK(o) /\ o.tgt = None /\ o.call # "gone"
                          /\ IpIn(o) = None
  BY <1>0, <1>5, GotoFacts DEF Labels
<1>10. op'[p] = o
  BY <1>0, <1>9 DEF TypeOK
<1>11. OpAlive(op[p])'
  BY <1>9, <1>10 DEF OpAlive
<1>12. \A x \in Inum : lock[x] # p
  BY <1>1, NoLocks
<1>b. \A x \in Inum : mem'[x].ref = mem[x].ref - Is(IpIn(op[p]), x) - Is(op[p].tgt, x)
                                       + Is(IpIn(o), x) + Is(o.tgt, x) + Is(i, x)
  <2>1. \A x \in Inum : mem[x].ref \in Nat
    BY <1>0 DEF TypeOK
  <2> QED
    BY <1>2, <1>8, <1>9, <2>1, IsFacts
<1>13. /\ \A x \in Inum : lock'[x] = lock[x] \/ (lock[x] \in {p, NoProc} /\ lock'[x] \in {p, NoProc})
       /\ \A x \in Inum : lock'[x] = p <=> (FALSE /\ x = i) \/ (o.pc \in {"opened", "unlink3"} /\ o.tgt = x)
       /\ o.pc \in PutsAt /\ (o.pc \in {"opened", "unlink3"} => i # o.tgt) /\ lock' \in [Inum -> Proc \cup {NoProc}]
  BY <1>0, <1>3, <1>9, <1>12 DEF PutsAt, TypeOK
<1>14. puts' = [puts EXCEPT ![p] = <<[i |-> i, unlock |-> FALSE]>>]
  BY <1>5 DEF Put
<1> QED
  BY <1>0, <1>1, <1>3, <1>7, <1>8, <1>9, <1>11, <1>b, <1>13, <1>14, StepPut

(* The last part of sys_unlink(), which counts nlink down, keeps Core. *)
LEMMA UnlinkCountCore ==
  ASSUME Core, NEW p \in Proc, UnlinkCount(p)
  PROVE  Core'
<1> DEFINE i == op[p].tgt
           c == [disk.ino[i] EXCEPT !.nlink = @ - 1]
<1>0. TypeOK /\ "unlink3" \in Labels \ {"idle", "exit", "end"} /\ At(p, "unlink3") /\ AliveInv /\ CopyInv /\ LockInv
  BY DEF Core, Labels, UnlinkCount
<1>1. /\ op[p] \in OpType /\ OpOK(op[p]) /\ op[p].pc = "unlink3" /\ i \in Inum /\ puts[p] = <<>> /\ OpAlive(op[p])
  BY <1>0, AtFacts DEF HasTgt, Labels, OpOK, AliveInv
<1>2. IpIn(op[p]) = None
  BY <1>1 DEF IpIn, HasIp
<1>3. UNCHANGED <<durable, lock, file, ofile, cwd, alive, freeing, out, boot, stray>> /\ Rest(p)
  BY <1>0 DEF UnlinkCount, procvars, Rest, TypeOK
<1>4. mem[i].c = disk.ino[i] /\ disk.ino[i] \in Dinode /\ disk.ino[i].type # "free"
  BY <1>0, <1>1 DEF OpAlive, CopyInv, TypeOK, DiskType
<1>5. disk' = iupdate(disk, i, c) /\ mem' = Known(mem, i, c)
      /\ puts' = [puts EXCEPT ![p] = <<UnlockPut(i)>>] /\ Goto(p, "end")
  BY <1>4 DEF UnlinkCount, PutAll
<1>6. c \in Dinode /\ c.type = disk.ino[i].type
  BY <1>4 DEF Dinode
<1> HIDE DEF c
<1>7. disk' \in DiskType /\ disk'.ino = [disk.ino EXCEPT ![i] = c] /\ disk'.dir = disk.dir
  <2>1. disk \in DiskType
    BY <1>0 DEF TypeOK
  <2> QED
    BY <1>1, <1>5, <1>6, <2>1, UpdateOne
<1>a. \A x \in Inum : lock[x] = p <=> x = i
  BY <1>0, <1>1 DEF LockInv, Locks, Holds
<1>8. mem' \in MemType /\ (\A x \in Inum : mem'[x].ref = mem[x].ref) /\ CopyInv' /\ OwnInodes(p)
  BY <1>1, <1>4, <1>5, <1>6, <1>7, <1>a, WriteKnown
<1>9. PICK o \in OpType : /\ op' = [op EXCEPT ![p] = o] /\ o.pc = "end" /\ OpOK(o) /\ o.tgt = None /\ o.call # "gone"
                          /\ IpIn(o) = None
  BY <1>0, <1>5, GotoFacts DEF Labels
<1>10. op'[p] = o
  BY <1>0, <1>9 DEF TypeOK
<1>11. OpAlive(op[p])'
  BY <1>9, <1>10 DEF OpAlive
<1>b. \A x \in Inum : mem'[x].ref = mem[x].ref - Is(IpIn(op[p]), x) - Is(op[p].tgt, x)
                                       + Is(IpIn(o), x) + Is(o.tgt, x) + Is(i, x)
  <2>1. \A x \in Inum : mem[x].ref \in Nat
    BY <1>0 DEF TypeOK
  <2> QED
    BY <1>2, <1>8, <1>9, <2>1, IsFacts
<1>13. /\ \A x \in Inum : lock'[x] = lock[x] \/ (lock[x] \in {p, NoProc} /\ lock'[x] \in {p, NoProc})
       /\ \A x \in Inum : lock'[x] = p <=> (TRUE /\ x = i) \/ (o.pc \in {"opened", "unlink3"} /\ o.tgt = x)
       /\ o.pc \in PutsAt /\ (o.pc \in {"opened", "unlink3"} => i # o.tgt) /\ lock' \in [Inum -> Proc \cup {NoProc}]
  BY <1>0, <1>3, <1>9, <1>a DEF PutsAt, TypeOK
<1>14. puts' = [puts EXCEPT ![p] = <<[i |-> i, unlock |-> TRUE]>>]
  BY <1>5 DEF UnlockPut
<1> QED
  BY <1>0, <1>1, <1>3, <1>7, <1>8, <1>9, <1>11, <1>b, <1>13, <1>14, StepPut

(* The first part of sys_link(), which counts nlink up, keeps Core. *)
LEMMA LinkCountCore ==
  ASSUME Core, NEW p \in Proc, LinkCount(p)
  PROVE  Core'
<1> DEFINE i == op[p].ip
           c == [disk.ino[i] EXCEPT !.nlink = @ + 1]
<1>0. TypeOK /\ "link1" \in Labels \ {"idle", "exit", "end", "fill", "unlink2", "opened", "unlink3"} /\ At(p, "link1")
  BY DEF Core, Labels, LinkCount
<1>1. /\ op[p] \in OpType /\ OpOK(op[p]) /\ op[p].pc = "link1" /\ i \in Inum /\ puts[p] = <<>> /\ cwd[p] \in Inum
      /\ op[p].call # "gone"
  BY <1>0, AtFacts DEF HasIp, Labels, OpOK
<1>2. IpIn(op[p]) = i /\ op[p].tgt = None
  BY <1>1 DEF IpIn, HasIp, OpOK, HasTgt
<1>3. UNCHANGED <<durable, lock, file, ofile, cwd, alive, freeing, out, boot>> /\ ilock(i)
  BY DEF LinkCount, procvars
<1>4. lock[i] = NoProc /\ Copy(i) = disk.ino[i] /\ disk.ino[i] \in Dinode /\ disk.ino[i].type # "free" /\ i \in Live
  BY <1>1, <1>3, LockedLive
<1>6. c \in Dinode /\ c.type = disk.ino[i].type
  BY <1>4 DEF Dinode
<1>7. CASE disk.ino[i].type = "dir"
  <2>1. /\ mem' = Known(mem, i, Copy(i)) /\ PutAll(p, <<Put(i)>>, "end") /\ disk' = disk /\ stray' = stray
    BY <1>4, <1>6, <1>7 DEF LinkCount
  <2>2. Rest(p)
    BY <1>0, <1>3, <2>1 DEF Rest, TypeOK
  <2> QED
    BY <1>0, <1>1, <1>2, <1>3, <2>1, <2>2, GiveUp
<1>8. CASE disk.ino[i].type # "dir"
  <2>1. PICK new \in NewPaths :
          LET start == IF new.abs THEN ROOTINO ELSE cwd[p] IN
          /\ disk' = iupdate(disk, i, c)
          /\ mem' = iget(Known(mem, i, c), start)
          /\ op' = [op EXCEPT ![p] = [@ EXCEPT !.pc = "walk", !.then = "link2",
                                               !.path = new.elems, !.ip = start, !.tgt = i, !.up = FALSE]]
          /\ stray' = (stray \/ HalfMade(i))
          /\ puts' = puts
    BY <1>4, <1>6, <1>8 DEF LinkCount
  <2> DEFINE start == IF new.abs THEN ROOTINO ELSE cwd[p]
             elems == new.elems
             K == Known(mem, i, c)
             o == [op[p] EXCEPT !.pc = "walk", !.then = "link2", !.path = elems, !.ip = start, !.tgt = i, !.up = FALSE]
  <2>2. start \in Inum /\ elems \in Seq(DirNames)
    BY <1>1, FsAssumption, ConstFacts DEF Path
  <2>3. /\ disk' = iupdate(disk, i, c) /\ mem' = iget(K, start) /\ puts' = puts
        /\ op' = [op EXCEPT ![p] = o]
    BY <1>0, <2>1
  <2>4. Rest(p)
    BY <1>0, <1>3, <2>1 DEF Rest, TypeOK, HalfMade
  <2> HIDE DEF start, elems, c
  <2>5. /\ o \in OpType /\ o.pc = "walk" /\ o.then = "link2" /\ o.ip = start /\ o.tgt = i /\ o.call = op[p].call
    BY <1>1, <2>2 DEF OpType, Labels
  <2> HIDE DEF o
  <2>6. OpOK(o) /\ o.call # "gone" /\ IpIn(o) = start
    BY <1>1, <2>2, <2>5, ConstFacts DEF OpOK, HasIp, HasTgt, IpIn
  <2>7. disk' \in DiskType /\ disk'.ino = [disk.ino EXCEPT ![i] = c] /\ disk'.dir = disk.dir
    <3>1. disk \in DiskType
      BY <1>0 DEF TypeOK
    <3> QED
      BY <1>1, <1>6, <2>3, <3>1, UpdateOne
  <2>8. mem \in MemType /\ disk.ino \in [Inum -> Dinode]
    BY <1>0 DEF TypeOK, MemType, DiskType
  <2>9. /\ K \in MemType
        /\ \A x \in Inum : K[x].ref = mem[x].ref
        /\ K[i].valid /\ K[i].c = c
        /\ \A x \in Inum \ {i} : K[x] = mem[x]
    <3>1. mem \in MemType /\ i \in Inum /\ c \in Dinode
      BY <1>1, <1>6, <2>8
    <3> QED
      BY <3>1, KnownFacts
  <2> HIDE DEF K
  <2>10. /\ mem' \in MemType
         /\ \A x \in Inum : mem'[x].ref = K[x].ref + Is(start, x)
         /\ \A x \in Inum : mem'[x].valid => K[x].valid /\ mem'[x].c = K[x].c
         /\ \A x \in Inum : K[x].ref > 0 => mem'[x].valid = K[x].valid /\ mem'[x].c = K[x].c
    BY <2>2, <2>3, <2>9, IgetFacts
  <2>11. CopyInv' /\ OwnInodes(p)
    <3> DEFINE S == {i}
    <3>1. \A x \in Inum : x \in S => lock[x] \in {p, NoProc}
      BY <1>4
    <3>2. \A x \in Inum : x \notin S =>
           /\ disk'.dir[x] = disk.dir[x] /\ (disk.ino[x].type # "free" => disk'.ino[x] = disk.ino[x])
           /\ mem'[x].valid => mem[x].valid /\ mem'[x].c = mem[x].c
           /\ mem[x].ref > 0 => mem'[x].valid = mem[x].valid /\ mem'[x].c = mem[x].c
      BY <1>1, <2>7, <2>8, <2>9, <2>10
    <3>3. disk'.ino[i] = c
      BY <1>1, <2>7, <2>8
    <3>4. \A x \in Inum : x \in S =>
           /\ disk.ino[x].type # "free" => disk'.ino[x].type = disk.ino[x].type
           /\ mem'[x].valid => mem'[x].c = disk'.ino[x] /\ disk'.ino[x].type # "free"
      BY <1>4, <1>6, <2>9, <2>10, <3>3
    <3> HIDE DEF S
    <3> QED
      BY <3>1, <3>2, <3>4, Touch
  <2>12. Live \subseteq Live' /\ \A x \in Live : disk'.ino[x].type = disk.ino[x].type
    <3>1. puts' = [puts EXCEPT ![p] = <<>>]
      BY <1>0, <1>1, <2>3 DEF TypeOK
    <3> QED
      BY <1>1, <1>3, <2>11, <3>1, LiveGrows
  <2>13. op'[p] = o
    BY <1>0, <2>3 DEF TypeOK
  <2>14. OpAlive(op[p])'
    BY <1>4, <1>8, <2>5, <2>12, <2>13 DEF OpAlive
  <2>15. \A x \in Inum : mem'[x].ref = mem[x].ref - Is(IpIn(op[p]), x) - Is(op[p].tgt, x) + Is(IpIn(o), x) + Is(o.tgt, x)
    BY <1>2, <2>5, <2>6, <2>8, <2>9, <2>10, ConstFacts DEF Is, MemType
  <2>16. \A x \in Inum : lock[x] # p
    BY <1>1, NoLocks
  <2>17. /\ lock' \in [Inum -> Proc \cup {NoProc}]
         /\ \A x \in Inum : lock'[x] = lock[x] \/ (lock[x] \in {p, NoProc} /\ lock'[x] \in {p, NoProc})
         /\ \A x \in Inum : lock'[x] = p <=> \/ o.pc \in {"fill", "unlink2"} /\ o.ip = x
                                             \/ o.pc \in {"opened", "unlink3"} /\ o.tgt = x
         /\ o.pc = "fill" => \A q \in Proc \ {p} : op[q].pc = "fill" => op[q].tgt # o.tgt
    BY <1>0, <1>3, <2>5, <2>16 DEF TypeOK
  <2> QED
    BY <1>0, <2>3, <2>4, <2>5, <2>6, <2>7, <2>10, <2>11, <2>14, <2>15, <2>17, StepNone
<1> QED
  BY <1>7, <1>8

(* ... or two. *)
LEMMA PutTwo ==
  ASSUME NEW i \in Inum, NEW j \in Inum, NEW s, s = <<Put(i), Put(j)>>
  PROVE  /\ s \in Seq([i : Inum, unlock : BOOLEAN]) /\ Len(s) = 2 /\ s # <<>> /\ ~s[1].unlock /\ ~s[2].unlock
         /\ FirstIn(s) = i /\ SecondIn(s) = j
<1>1. /\ Put(i) \in [i : Inum, unlock : BOOLEAN] /\ Put(j) \in [i : Inum, unlock : BOOLEAN]
      /\ Put(i).i = i /\ Put(j).i = j /\ ~Put(i).unlock /\ ~Put(j).unlock
  BY DEF Put
<1>2. s[1] = Put(i) /\ s[2] = Put(j) /\ Len(s) = 2 /\ s # <<>>
  OBVIOUS
<1>3. s \in Seq([i : Inum, unlock : BOOLEAN])
  <2> DEFINE R == [i : Inum, unlock : BOOLEAN]
  <2>1. Put(i) \in R /\ Put(j) \in R
    BY <1>1
  <2> HIDE DEF R
  <2>2. s \in Seq(R)
    BY <2>1
  <2> QED
    BY <2>2 DEF R
<1> QED
  BY <1>1, <1>2, <1>3 DEF FirstIn, SecondIn

(* What is left to do after iunlockput() of two inodes was due. *)
LEMMA UnlockTwo ==
  ASSUME NEW x \in Inum, NEW y \in Inum, NEW s, s = <<UnlockPut(x), UnlockPut(y)>>
  PROVE  /\ s \in Seq([i : Inum, unlock : BOOLEAN]) /\ Len(s) = 2 /\ s # <<>> /\ s[1].i = x /\ s[1].unlock
         /\ s[2].i = y /\ s[2].unlock /\ FirstIn(s) = x /\ SecondIn(s) = y
<1>1. /\ UnlockPut(x) \in [i : Inum, unlock : BOOLEAN] /\ UnlockPut(y) \in [i : Inum, unlock : BOOLEAN]
      /\ UnlockPut(x).i = x /\ UnlockPut(y).i = y /\ UnlockPut(x).unlock /\ UnlockPut(y).unlock
  BY DEF UnlockPut
<1>2. s[1] = UnlockPut(x) /\ s[2] = UnlockPut(y) /\ Len(s) = 2 /\ s # <<>>
  OBVIOUS
<1>3. s \in Seq([i : Inum, unlock : BOOLEAN])
  <2> DEFINE R == [i : Inum, unlock : BOOLEAN]
  <2>1. UnlockPut(x) \in R /\ UnlockPut(y) \in R
    BY <1>1
  <2> HIDE DEF R
  <2>2. s \in Seq(R)
    BY <2>1
  <2> QED
    BY <2>2 DEF R
<1> QED
  BY <1>1, <1>2, <1>3 DEF FirstIn, SecondIn

(* The dirlink() of sys_link() keeps Core. *)
LEMMA LinkEnterCore ==
  ASSUME Core, NEW p \in Proc, LinkEnter(p)
  PROVE  Core'
<1> DEFINE dp == op[p].ip
           t == op[p].tgt
           name == Head(op[p].path)
           l == dirlink(disk, dp, disk.ino[dp], name, t)
<1>0. TypeOK /\ "link2" \in Labels \ {"idle", "exit", "end"} /\ At(p, "link2") /\ AliveInv
  BY DEF Core, Labels, LinkEnter
<1>1. /\ op[p] \in OpType /\ OpOK(op[p]) /\ op[p].pc = "link2" /\ dp \in Inum /\ puts[p] = <<>> /\ t \in Inum
      /\ op[p].call # "gone" /\ OpAlive(op[p])
  BY <1>0, AtFacts DEF HasIp, HasTgt, Labels, OpOK, AliveInv
<1>2. IpIn(op[p]) = dp /\ op[p].path # <<>>
  BY <1>1 DEF IpIn, HasIp, OpOK
<1>a. name \in DirNames /\ disk \in DiskType
  BY <1>0, <1>1, <1>2 DEF OpType, TypeOK
<1>3. UNCHANGED <<durable, lock, file, ofile, cwd, alive, freeing, out, boot>> /\ ilock(dp)
  BY DEF LinkEnter, procvars
<1>4. lock[dp] = NoProc /\ Copy(dp) = disk.ino[dp] /\ disk.ino[dp] \in Dinode /\ disk.ino[dp].type # "free" /\ dp \in Live
  BY <1>1, <1>3, LockedLive
<1>5. /\ disk' = l.D /\ mem' = Known(mem, dp, l.c) /\ stray' = (stray \/ (l.ok /\ disk.ino[dp].nlink = 0))
      /\ IF l.ok THEN PutAll(p, <<Put(dp), Put(t)>>, "end") ELSE PutAll(p, <<Put(dp)>>, "linkbad")
  BY <1>4 DEF LinkEnter
<1>6. /\ l.ok \in BOOLEAN
      /\ Rewritten(disk, dp, l.D, l.c)
      /\ l.ok => l.D.dir = [disk.dir EXCEPT ![dp][name] = t]
      /\ ~l.ok => l.D.dir = disk.dir
  BY <1>1, <1>a, LinkOne
<1> HIDE DEF l
<1>7. Rest(p)
  BY <1>0, <1>3, <1>5, <1>6 DEF Rest, TypeOK
<1>8. disk' \in DiskType /\ disk'.ino = [disk.ino EXCEPT ![dp] = l.c] /\ l.c \in Dinode /\ l.c.type = disk.ino[dp].type
  BY <1>5, <1>6 DEF Rewritten
<1>9. \A x \in Inum \ {dp} : disk'.dir[x] = disk.dir[x]
  <2>1. disk.dir \in [Inum -> [DirNames -> {None} \cup Inum]]
    BY <1>a DEF DiskType
  <2> QED
    BY <1>5, <1>6, <2>1
<1>10. mem' \in MemType /\ (\A x \in Inum : mem'[x].ref = mem[x].ref) /\ CopyInv' /\ OwnInodes(p)
  BY <1>1, <1>4, <1>5, <1>8, <1>9, WriteKnown
<1>11. \A x \in Inum : lock[x] # p
  BY <1>1, NoLocks
<1>12. \A x \in Inum : mem[x].ref \in Nat
  BY <1>0 DEF TypeOK
<1>13. CASE l.ok
  <2>1. puts' = [puts EXCEPT ![p] = <<Put(dp), Put(t)>>] /\ Goto(p, "end")
    BY <1>5, <1>13 DEF PutAll
  <2>2. PICK o \in OpType : /\ op' = [op EXCEPT ![p] = o] /\ o.pc = "end" /\ OpOK(o) /\ o.tgt = None /\ o.call # "gone"
                            /\ IpIn(o) = None
    BY <1>0, <2>1, GotoFacts DEF Labels
  <2>b. PICK s : s = <<Put(dp), Put(t)>>
    OBVIOUS
  <2>3. /\ s \in Seq([i : Inum, unlock : BOOLEAN]) /\ Len(s) = 2 /\ s # <<>> /\ ~s[1].unlock /\ ~s[2].unlock
        /\ FirstIn(s) = dp /\ SecondIn(s) = t
    <3>1. dp \in Inum /\ t \in Inum
      BY <1>1
    <3> HIDE DEF dp, t
    <3> QED
      BY <2>b, <3>1, PutTwo, Zenon
  <2>a. puts' = [puts EXCEPT ![p] = s]
    BY <2>1, <2>b
  <2>4. \A x \in Inum : mem'[x].ref = mem[x].ref - Is(IpIn(op[p]), x) - Is(op[p].tgt, x)
                                      + Is(IpIn(o), x) + Is(o.tgt, x) + Is(FirstIn(s), x) + Is(SecondIn(s), x)
    BY <1>2, <1>10, <1>12, <2>2, <2>3, IsFacts
  <2>5. /\ \A x \in Inum : lock'[x] = lock[x] \/ (lock[x] \in {p, NoProc} /\ lock'[x] \in {p, NoProc})
        /\ \A x \in Inum : lock'[x] = p <=> Holds(o, s, "no", x)
        /\ lock' \in [Inum -> Proc \cup {NoProc}] /\ Apart(o, s) /\ o.pc \in PutsAt /\ Len(s) <= 2
    BY <1>0, <1>3, <1>11, <2>2, <2>3 DEF TypeOK, Holds, Apart, PutsAt
  <2>6. op'[p] = o
    BY <1>0, <2>2 DEF TypeOK
  <2>7. OpAlive(op[p])'
    BY <2>2, <2>6 DEF OpAlive
  <2> QED
    BY <1>0, <1>1, <1>7, <1>8, <1>10, <2>2, <2>3, <2>a, <2>4, <2>5, <2>7, StepPuts
<1>14. CASE ~l.ok
  <2>1. puts' = [puts EXCEPT ![p] = <<Put(dp)>>] /\ Goto(p, "linkbad")
    BY <1>5, <1>14 DEF PutAll
  <2>2. PICK o \in OpType : /\ op' = [op EXCEPT ![p] = o] /\ o.pc = "linkbad" /\ o.tgt = t /\ o.call = op[p].call
    BY <1>0, <2>1, GotoFacts DEF Labels
  <2>3. OpOK(o) /\ IpIn(o) = None
    BY <1>1, <2>2, ConstFacts DEF OpOK, IpIn, HasIp, HasTgt
  <2>4. puts' = [puts EXCEPT ![p] = <<[i |-> dp, unlock |-> FALSE]>>]
    BY <2>1 DEF Put
  <2>5. \A x \in Inum : mem'[x].ref = mem[x].ref - Is(IpIn(op[p]), x) - Is(op[p].tgt, x)
                                      + Is(IpIn(o), x) + Is(o.tgt, x) + Is(dp, x)
    BY <1>2, <1>10, <1>12, <2>2, <2>3, IsFacts
  <2>6. Live \subseteq Live' /\ \A x \in Live : disk'.ino[x].type = disk.ino[x].type
    BY <1>1, <1>3, <1>10, <2>4, LiveGrows
  <2>7. op'[p] = o
    BY <1>0, <2>2 DEF TypeOK
  <2>8. OpAlive(op[p])'
    BY <1>1, <2>2, <2>6, <2>7, ConstFacts DEF OpAlive
  <2>9. /\ \A x \in Inum : lock'[x] = lock[x] \/ (lock[x] \in {p, NoProc} /\ lock'[x] \in {p, NoProc})
        /\ \A x \in Inum : lock'[x] = p <=> (FALSE /\ x = dp) \/ (o.pc \in {"opened", "unlink3"} /\ o.tgt = x)
        /\ o.pc \in PutsAt /\ (o.pc \in {"opened", "unlink3"} => dp # o.tgt) /\ lock' \in [Inum -> Proc \cup {NoProc}]
    BY <1>0, <1>3, <1>11, <2>2 DEF PutsAt, TypeOK
  <2> QED
    BY <1>0, <1>1, <1>7, <1>8, <1>10, <2>2, <2>3, <2>4, <2>5, <2>8, <2>9, StepPut
<1> QED
  BY <1>6, <1>13, <1>14

(* sys_unlink() under both locks keeps Core. *)
LEMMA UnlinkEntryCore ==
  ASSUME Core, NEW p \in Proc, UnlinkEntry(p)
  PROVE  Core'
<1> DEFINE dp == op[p].ip
           ip == op[p].tgt
           name == Head(op[p].path)
           c == disk.ino[ip]
           d == [disk.ino[dp] EXCEPT !.nlink = IF c.type = "dir" THEN @ - 1 ELSE @]
<1>0. TypeOK /\ "unlink2" \in Labels \ {"idle", "exit", "end"} /\ At(p, "unlink2") /\ AliveInv /\ LockInv /\ CopyInv
  BY DEF Core, Labels, UnlinkEntry
<1>1. /\ op[p] \in OpType /\ OpOK(op[p]) /\ op[p].pc = "unlink2" /\ dp \in Inum /\ puts[p] = <<>> /\ ip \in Inum
      /\ op[p].call # "gone" /\ OpAlive(op[p])
  BY <1>0, AtFacts DEF HasIp, HasTgt, Labels, OpOK, AliveInv
<1>2. IpIn(op[p]) = dp /\ op[p].path # <<>> /\ name \in Names /\ name \in DirNames /\ disk \in DiskType
  BY <1>0, <1>1, ConstFacts DEF IpIn, HasIp, OpOK, TypeOK
<1>3. UNCHANGED <<durable, file, ofile, cwd, alive, freeing, out, boot, stray>> /\ ilock(ip) /\ lock' = [lock EXCEPT ![ip] = p]
  BY DEF UnlinkEntry, procvars
<1>4. lock[ip] = NoProc /\ Copy(ip) = c /\ c \in Dinode /\ c.type # "free" /\ ip \in Live
  BY <1>1, <1>3, LockedLive
<1>5. Copy(dp) = disk.ino[dp] /\ disk.ino[dp] \in Dinode /\ dp \in Live /\ disk.ino[dp].type # "free"
  BY <1>0, <1>1, CopyIsDisk DEF OpAlive, Live
<1>6. Rest(p) /\ mem \in MemType /\ \A x \in Inum : mem[x].ref \in Nat
  BY <1>0, <1>3 DEF Rest, TypeOK, MemType
<1>7. \A x \in Inum : lock[x] = p <=> x = dp
  BY <1>0, <1>1 DEF LockInv, Locks, Holds
<1>8. ip # dp
  BY <1>1, <1>4, <1>7, FsAssumption
<1>9. /\ \A x \in Inum : lock'[x] = lock[x] \/ (lock[x] \in {p, NoProc} /\ lock'[x] \in {p, NoProc})
      /\ \A x \in Inum : lock'[x] = p <=> (x = ip \/ x = dp)
      /\ lock' \in [Inum -> Proc \cup {NoProc}]
  BY <1>0, <1>1, <1>3, <1>4, <1>7 DEF TypeOK
<1>10. CASE c.type = "dir" /\ ~isdirempty(disk, ip)
  <2>1. mem' = Known(mem, ip, c) /\ disk' = disk /\ puts' = [puts EXCEPT ![p] = <<UnlockPut(ip), UnlockPut(dp)>>]
        /\ Goto(p, "end")
    BY <1>4, <1>10 DEF UnlinkEntry, PutAll
  <2>2. PICK o \in OpType : /\ op' = [op EXCEPT ![p] = o] /\ o.pc = "end" /\ OpOK(o) /\ o.tgt = None /\ o.call # "gone"
                            /\ IpIn(o) = None
    BY <1>0, <2>1, GotoFacts DEF Labels
  <2>b. PICK s : s = <<UnlockPut(ip), UnlockPut(dp)>>
    OBVIOUS
  <2>3. /\ s \in Seq([i : Inum, unlock : BOOLEAN]) /\ Len(s) = 2 /\ s # <<>> /\ s[1].i = ip /\ s[1].unlock
        /\ s[2].i = dp /\ s[2].unlock /\ FirstIn(s) = ip /\ SecondIn(s) = dp
    <3>1. dp \in Inum /\ ip \in Inum
      BY <1>1
    <3> HIDE DEF dp, ip
    <3>2. s[1].i = ip /\ s[1].unlock
      BY <2>b, <3>1, UnlockTwo
    <3>4. s \in Seq([i : Inum, unlock : BOOLEAN]) /\ Len(s) = 2 /\ s # <<>>
      BY <2>b, <3>1, UnlockTwo, Zenon
    <3>3. s[2].i = dp /\ s[2].unlock /\ FirstIn(s) = ip /\ SecondIn(s) = dp
      BY <2>b, <3>1, UnlockTwo
    <3> QED
      BY <3>2, <3>3, <3>4
  <2>a. puts' = [puts EXCEPT ![p] = s]
    BY <2>1, <2>b
  <2>4. mem' \in MemType /\ (\A x \in Inum : mem'[x].ref = mem[x].ref) /\ CopyInv' /\ OwnInodes(p)
    BY <1>1, <1>3, <1>4, <2>1, ReadKnown
  <2>5. \A x \in Inum : mem'[x].ref = mem[x].ref - Is(IpIn(op[p]), x) - Is(op[p].tgt, x)
                                      + Is(IpIn(o), x) + Is(o.tgt, x) + Is(FirstIn(s), x) + Is(SecondIn(s), x)
    BY <1>2, <1>6, <2>2, <2>3, <2>4, IsFacts
  <2>6. (\A x \in Inum : lock'[x] = p <=> Holds(o, s, "no", x)) /\ Apart(o, s) /\ o.pc \in PutsAt /\ Len(s) <= 2
    BY <1>8, <1>9, <2>2, <2>3 DEF Holds, Apart, PutsAt
  <2>7. disk' \in DiskType
    BY <1>2, <2>1
  <2>8. op'[p] = o
    BY <1>0, <2>2 DEF TypeOK
  <2>9. OpAlive(op[p])'
    BY <2>2, <2>8 DEF OpAlive
  <2> QED
    BY <1>0, <1>1, <1>6, <1>9, <2>2, <2>3, <2>a, <2>4, <2>5, <2>6, <2>7, <2>9, StepPuts
<1>11. CASE ~(c.type = "dir" /\ ~isdirempty(disk, ip))
  <2> DEFINE E == [disk EXCEPT !.dir[dp][name] = None]
             K == Known(mem, ip, c)
  <2>1. disk' = iupdate(E, dp, d) /\ mem' = Known(K, dp, d)
        /\ puts' = [puts EXCEPT ![p] = <<UnlockPut(dp)>>] /\ Goto(p, "unlink3")
    BY <1>4, <1>5, <1>11 DEF UnlinkEntry, PutAll
  <2>2. d \in Dinode /\ d.type = disk.ino[dp].type
    <3> DEFINE n == IF c.type = "dir" THEN disk.ino[dp].nlink - 1 ELSE disk.ino[dp].nlink
    <3>1. n \in Int
      BY <1>5 DEF Dinode
    <3>2. d = [disk.ino[dp] EXCEPT !.nlink = n]
      OBVIOUS
    <3> HIDE DEF n
    <3> QED
      BY <1>5, <3>1, <3>2 DEF Dinode
  <2> HIDE DEF d
  <2>3. E \in DiskType /\ E.ino = disk.ino /\ E.dir = [disk.dir EXCEPT ![dp][name] = None]
    <3>1. dp \in Inum /\ name \in DirNames /\ disk \in DiskType /\ None \in {None} \cup Inum
      BY <1>1, <1>2
    <3> HIDE DEF dp, name, ip
    <3> QED
      BY <3>1, SetName
  <2> HIDE DEF E
  <2>4. disk' \in DiskType /\ disk'.ino = [disk.ino EXCEPT ![dp] = d] /\ disk'.dir = [disk.dir EXCEPT ![dp][name] = None]
    BY <1>1, <2>1, <2>2, <2>3, UpdateOne
  <2>5. /\ K \in MemType
        /\ \A x \in Inum : K[x].ref = mem[x].ref
        /\ K[ip].valid /\ K[ip].c = c
        /\ \A x \in Inum \ {ip} : K[x] = mem[x]
    BY <1>1, <1>4, <1>6, KnownFacts
  <2> HIDE DEF K
  <2>6. /\ mem' \in MemType
        /\ \A x \in Inum : mem'[x].ref = K[x].ref
        /\ mem'[dp].valid /\ mem'[dp].c = d
        /\ \A x \in Inum \ {dp} : mem'[x] = K[x]
    BY <1>1, <2>1, <2>2, <2>5, KnownFacts
  <2>7. disk.ino \in [Inum -> Dinode] /\ disk.dir \in [Inum -> [DirNames -> {None} \cup Inum]]
    BY <1>2 DEF DiskType
  <2>8. disk'.ino[dp] = d /\ (\A x \in Inum \ {dp} : disk'.ino[x] = disk.ino[x] /\ disk'.dir[x] = disk.dir[x])
    BY <1>1, <2>4, <2>7
  <2>9. CopyInv' /\ OwnInodes(p)
    <3> DEFINE S == {dp, ip}
    <3>1. \A x \in Inum : x \in S => lock[x] \in {p, NoProc}
      BY <1>4, <1>7
    <3>2. \A x \in Inum : x \notin S =>
           /\ disk'.dir[x] = disk.dir[x] /\ (disk.ino[x].type # "free" => disk'.ino[x] = disk.ino[x])
           /\ mem'[x].valid => mem[x].valid /\ mem'[x].c = mem[x].c
           /\ mem[x].ref > 0 => mem'[x].valid = mem[x].valid /\ mem'[x].c = mem[x].c
      BY <2>5, <2>6, <2>8
    <3>4. \A x \in Inum : x \in S =>
           /\ disk.ino[x].type # "free" => disk'.ino[x].type = disk.ino[x].type
           /\ mem'[x].valid => mem'[x].c = disk'.ino[x] /\ disk'.ino[x].type # "free"
      BY <1>1, <1>4, <1>5, <1>8, <2>2, <2>5, <2>6, <2>8
    <3> HIDE DEF S
    <3> QED
      BY <3>1, <3>2, <3>4, Touch
  <2>10. PICK o \in OpType : /\ op' = [op EXCEPT ![p] = o] /\ o.pc = "unlink3" /\ o.tgt = ip /\ o.call = op[p].call
    BY <1>0, <2>1, GotoFacts DEF Labels
  <2>11. OpOK(o) /\ IpIn(o) = None
    BY <1>1, <2>10, ConstFacts DEF OpOK, IpIn, HasIp, HasTgt
  <2> DEFINE s == <<UnlockPut(dp)>>
  <2>12. /\ s \in Seq([i : Inum, unlock : BOOLEAN]) /\ Len(s) = 1 /\ s # <<>> /\ s[1].i = dp /\ s[1].unlock
         /\ FirstIn(s) = dp /\ SecondIn(s) = None
    BY <1>1, PutFacts
  <2>a. puts' = [puts EXCEPT ![p] = s]
    BY <2>1
  <2> HIDE DEF s
  <2>13. \A x \in Inum : mem'[x].ref = mem[x].ref - Is(IpIn(op[p]), x) - Is(op[p].tgt, x)
                                      + Is(IpIn(o), x) + Is(o.tgt, x) + Is(FirstIn(s), x) + Is(SecondIn(s), x)
    BY <1>2, <1>6, <2>5, <2>6, <2>10, <2>11, <2>12, IsFacts
  <2>14. Live \subseteq Live' /\ \A x \in Live : disk'.ino[x].type = disk.ino[x].type
    BY <1>1, <1>3, <2>9, <2>a, LiveGrows
  <2>15. op'[p] = o
    BY <1>0, <2>10 DEF TypeOK
  <2>16. OpAlive(op[p])'
    BY <1>1, <1>4, <1>8, <2>5, <2>6, <2>10, <2>14, <2>15 DEF OpAlive
  <2>17. /\ \A x \in Inum : lock'[x] = p <=> Holds(o, s, "no", x)
         /\ Apart(o, s) /\ o.pc \in PutsAt /\ Len(s) <= 2 /\ o.call # "gone"
    BY <1>1, <1>8, <1>9, <2>10, <2>12 DEF Holds, Apart, PutsAt
  <2> QED
    BY <1>0, <1>1, <1>6, <1>9, <2>4, <2>6, <2>9, <2>10, <2>11, <2>12, <2>a, <2>13, <2>16, <2>17, StepPuts
<1> QED
  BY <1>10, <1>11

(* Two rewritings of an inode make one. *)
LEMMA RewrittenTwice ==
  ASSUME NEW D \in DiskType, NEW i \in Inum, NEW E, NEW c, Rewritten(D, i, E, c), NEW F, NEW d, Rewritten(E, i, F, d)
  PROVE  Rewritten(D, i, F, d) /\ E.ino[i] = c
<1>1. E.ino = [D.ino EXCEPT ![i] = c] /\ F.ino = [E.ino EXCEPT ![i] = d] /\ D.ino \in [Inum -> Dinode]
  BY DEF Rewritten, DiskType
<1>2. E.ino[i] = c /\ F.ino = [D.ino EXCEPT ![i] = d]
  BY <1>1
<1> QED
  BY <1>1, <1>2 DEF Rewritten

(* What writei() makes of the inodes. *)
LEMMA RewrittenIno ==
  ASSUME NEW D \in DiskType, NEW i \in Inum, NEW E, NEW c, Rewritten(D, i, E, c)
  PROVE  /\ E.ino[i] = c /\ \A x \in Inum \ {i} : E.ino[x] = D.ino[x]
         /\ E \in DiskType /\ c \in Dinode /\ c.type = D.ino[i].type /\ c.nlink = D.ino[i].nlink
         /\ OwnedDisk(D) => OwnedDisk(E)
<1>1. E.ino = [D.ino EXCEPT ![i] = c] /\ D.ino \in [Inum -> Dinode]
  BY DEF Rewritten, DiskType
<1> QED
  BY <1>1 DEF Rewritten

(* Dots(): the entries "." and "..". *)
LEMMA DotsOne ==
  ASSUME NEW D \in DiskType, NEW i \in Inum, NEW dp \in Inum
  PROVE  LET l == Dots(D, i, D.ino[i], dp) IN
         /\ l.ok \in BOOLEAN
         /\ Rewritten(D, i, l.D, l.c)
         /\ \A x \in Inum \ {i} : l.D.dir[x] = D.dir[x]
         /\ \A n \in Names : l.D.dir[i][n] = D.dir[i][n]
         /\ l.D.dir[i]["."] \in {D.dir[i]["."], i}
         /\ l.ok => l.D.dir[i]["."] = i /\ l.D.dir[i][".."] = dp
<1> DEFINE a == dirlink(D, i, D.ino[i], ".", i)
           b == dirlink(a.D, i, a.c, "..", dp)
<1>0. "." \in DirNames /\ ".." \in DirNames /\ "." \notin Names /\ ".." \notin Names /\ "." # ".." /\ Names \subseteq DirNames
  BY ConstFacts
<1>1. /\ a.ok \in BOOLEAN
      /\ Rewritten(D, i, a.D, a.c)
      /\ a.ok => a.D.dir = [D.dir EXCEPT ![i]["."] = i]
      /\ ~a.ok => a.D.dir = D.dir
  BY <1>0, LinkOne
<1>2. Dots(D, i, D.ino[i], dp) = IF a.ok THEN b ELSE a
  BY DEF Dots
<1> HIDE DEF a
<1>3. a.D \in DiskType /\ a.c = a.D.ino[i]
  BY <1>1, RewrittenIno
<1>4. /\ b.ok \in BOOLEAN
      /\ Rewritten(a.D, i, b.D, b.c)
      /\ b.ok => b.D.dir = [a.D.dir EXCEPT ![i][".."] = dp]
      /\ ~b.ok => b.D.dir = a.D.dir
  BY <1>0, <1>3, LinkOne
<1> HIDE DEF b
<1>5. Rewritten(D, i, b.D, b.c)
  BY <1>1, <1>4, RewrittenTwice
<1>6. D.dir \in [Inum -> [DirNames -> {None} \cup Inum]] /\ a.D.dir \in [Inum -> [DirNames -> {None} \cup Inum]]
  BY <1>3 DEF DiskType
<1> DEFINE A == a.D.dir
           B == b.D.dir
           C == D.dir
<1>7. /\ C \in [Inum -> [DirNames -> {None} \cup Inum]] /\ A \in [Inum -> [DirNames -> {None} \cup Inum]]
      /\ a.ok => A = [C EXCEPT ![i]["."] = i]
      /\ ~a.ok => A = C
      /\ b.ok => B = [A EXCEPT ![i][".."] = dp]
      /\ ~b.ok => B = A
  BY <1>1, <1>4, <1>6
<1> HIDE DEF A, B, C
<1>8. /\ \A x \in Inum \ {i} : A[x] = C[x]
      /\ \A n \in DirNames : n # "." => A[i][n] = C[i][n]
      /\ A[i]["."] \in {C[i]["."], i}
      /\ a.ok => A[i]["."] = i
  BY <1>0, <1>1, <1>7
<1>9. /\ \A x \in Inum \ {i} : B[x] = A[x]
      /\ \A n \in DirNames : n # ".." => B[i][n] = A[i][n]
      /\ b.ok => B[i][".."] = dp
  BY <1>0, <1>4, <1>7
<1>10. CASE a.ok
  <2>1. Dots(D, i, D.ino[i], dp) = b
    BY <1>2, <1>10
  <2>2. /\ \A x \in Inum \ {i} : B[x] = C[x]
        /\ \A n \in Names : B[i][n] = C[i][n]
        /\ B[i]["."] \in {C[i]["."], i}
        /\ b.ok => B[i]["."] = i /\ B[i][".."] = dp
    BY <1>0, <1>8, <1>9, <1>10
  <2> QED
    BY <1>4, <1>5, <2>1, <2>2 DEF B, C
<1>11. CASE ~a.ok
  <2>1. Dots(D, i, D.ino[i], dp) = a
    BY <1>2, <1>11
  <2>2. /\ \A x \in Inum \ {i} : A[x] = C[x]
        /\ \A n \in Names : A[i][n] = C[i][n]
        /\ A[i]["."] \in {C[i]["."], i}
    BY <1>7, <1>11
  <2> QED
    BY <1>1, <1>11, <2>1, <2>2 DEF A, C
<1> QED
  BY <1>1, <1>10, <1>11

(* create() has linked its new inode, with the copies c and d of it and of the
   directory, ...                                                          *)
Filled(p, c, d) ==
  LET dp == op[p].ip
      ip == op[p].tgt
      name == Head(op[p].path)
  IN /\ c \in Dinode /\ c.type = disk.ino[ip].type /\ c.nlink = 1
     /\ d \in Dinode /\ d.type = disk.ino[dp].type
     /\ d.nlink = disk.ino[dp].nlink + (IF op[p].call = "mkdir" THEN 1 ELSE 0)
     /\ disk'.ino[ip] = c /\ disk'.ino[dp] = d /\ \A x \in Inum \ {ip, dp} : disk'.ino[x] = disk.ino[x]
     /\ mem' = Known(Known(mem, ip, c), dp, d)
     /\ disk.dir[dp][name] = None /\ disk'.dir[dp][name] = ip
     /\ \A n \in DirNames \ {name} : disk'.dir[dp][n] = disk.dir[dp][n]
     /\ \A x \in Inum \ {ip, dp} : disk'.dir[x] = disk.dir[x]
     /\ op[p].call # "mkdir" => disk'.dir[ip] = disk.dir[ip]
     /\ op[p].call = "mkdir" => /\ disk'.dir[ip]["."] = ip /\ disk'.dir[ip][".."] = dp
                                /\ \A n \in Names : disk'.dir[ip][n] = disk.dir[ip][n]
     /\ stray' = (stray \/ disk.ino[dp].nlink = 0)
     /\ IF op[p].call = "creat" THEN PutAll(p, <<UnlockPut(dp)>>, "opened")
        ELSE PutAll(p, <<UnlockPut(dp), UnlockPut(ip)>>, "end")

(* ... or not, and has given it up. *)
Unfilled(p, c) ==
  LET dp == op[p].ip
      ip == op[p].tgt
  IN /\ c \in Dinode /\ c.type = disk.ino[ip].type /\ c.nlink = 0
     /\ disk'.ino[ip] = c /\ \A x \in Inum \ {ip} : disk'.ino[x] = disk.ino[x]
     /\ mem' = Known(mem, ip, c)
     /\ \A x \in Inum \ {ip} : disk'.dir[x] = disk.dir[x]
     /\ op[p].call # "mkdir" => disk'.dir[ip] = disk.dir[ip]
     /\ \A n \in Names : disk'.dir[ip][n] = disk.dir[ip][n]
     /\ disk'.dir[ip]["."] \in {disk.dir[ip]["."], ip}
     /\ stray' = stray
     /\ PutAll(p, <<UnlockPut(ip), UnlockPut(dp)>>, "end")

(* An inode gets another link count. *)
Counted(D, i, n) == [D.ino[i] EXCEPT !.nlink = n]

(* What iupdate() of a new link count makes of the disk. *)
LEMMA CountOne ==
  ASSUME NEW D \in DiskType, NEW i \in Inum, NEW n \in Int
  PROVE  LET c == Counted(D, i, n)
             E == iupdate(D, i, c)
         IN
         /\ E \in DiskType /\ E.dir = D.dir /\ c \in Dinode /\ c.type = D.ino[i].type /\ c.nlink = n
         /\ E.ino[i] = c /\ \A x \in Inum \ {i} : E.ino[x] = D.ino[x]
         /\ OwnedDisk(D) => OwnedDisk(E)
<1> DEFINE c == Counted(D, i, n)
           E == iupdate(D, i, c)
<1>1. D.ino[i] \in Dinode /\ D.ino \in [Inum -> Dinode]
  BY DEF DiskType
<1>2. c \in Dinode /\ c.type = D.ino[i].type /\ c.nlink = n /\ c.addrs = D.ino[i].addrs
  BY <1>1 DEF Dinode, Counted
<1> HIDE DEF c
<1>3. E \in DiskType /\ E.ino = [D.ino EXCEPT ![i] = c] /\ E.dir = D.dir /\ E.used = D.used /\ E.ind = D.ind
  BY <1>2, UpdateOne
<1> HIDE DEF E
<1>4. E.ino[i] = c /\ \A x \in Inum \ {i} : E.ino[x] = D.ino[x]
  BY <1>1, <1>3
<1>5. \A x \in Inum : E.ino[x].addrs = D.ino[x].addrs
  BY <1>2, <1>4
<1>6. OwnedDisk(D) => OwnedDisk(E)
  BY <1>3, <1>5, OwnedSame
<1> QED
  BY <1>2, <1>3, <1>4, <1>6 DEF c, E

(* create() after ialloc(): the inode is linked into its directory, or
   given up.                                                              *)
LEMMA FillFacts ==
  ASSUME Core, NEW p \in Proc, CreateFill(p)
  PROVE  /\ disk' \in DiskType
         /\ OwnedDisk(disk) => OwnedDisk(disk')
         /\ \/ \E c, d : Filled(p, c, d)
            \/ \E c : Unfilled(p, c)
<1> DEFINE dp == op[p].ip
           ip == op[p].tgt
           name == Head(op[p].path)
           isdir == op[p].call = "mkdir"
           c1 == [disk.ino[ip] EXCEPT !.nlink = 1]
           D1 == iupdate(disk, ip, c1)
<1>0. TypeOK /\ "fill" \in Labels \ {"idle", "exit", "end"} /\ At(p, "fill") /\ AliveInv /\ LockInv /\ CopyInv
  BY DEF Core, Labels, CreateFill
<1>1. /\ op[p] \in OpType /\ OpOK(op[p]) /\ op[p].pc = "fill" /\ dp \in Inum /\ puts[p] = <<>> /\ ip \in Inum
      /\ op[p].call # "gone" /\ OpAlive(op[p])
  BY <1>0, AtFacts DEF HasIp, HasTgt, Labels, OpOK, AliveInv
<1>2. name \in DirNames /\ disk \in DiskType
  BY <1>0, <1>1 DEF OpOK, TypeOK, OpType
<1>3. ilock(ip)
  BY DEF CreateFill
<1>4. lock[ip] = NoProc /\ Copy(ip) = disk.ino[ip] /\ disk.ino[ip] \in Dinode
  BY <1>1, <1>3, LockedLive
<1>5. Copy(dp) = disk.ino[dp] /\ disk.ino[dp] \in Dinode
  BY <1>0, <1>1, CopyIsDisk
<1>6. lock[dp] = p
  BY <1>0, <1>1 DEF LockInv, Locks, Holds
<1>7. ip # dp
  BY <1>4, <1>6, FsAssumption
<1>8. PICK made \in {IF isdir THEN Dots(D1, ip, c1, dp) ELSE [ok |-> TRUE, D |-> D1, c |-> c1]} :
      \E linked \in {IF made.ok THEN dirlink(made.D, dp, disk.ino[dp], name, ip) ELSE made} :
        \/ /\ linked.ok
           /\ LET d == [linked.c EXCEPT !.nlink = IF isdir THEN @ + 1 ELSE @] IN
              /\ disk' = iupdate(linked.D, dp, d)
              /\ mem' = Known(Known(mem, ip, made.c), dp, d)
           /\ stray' = (stray \/ disk.ino[dp].nlink = 0)
           /\ IF op[p].call = "creat" THEN PutAll(p, <<UnlockPut(dp)>>, "opened")
              ELSE PutAll(p, <<UnlockPut(dp), UnlockPut(ip)>>, "end")
        \/ /\ ~linked.ok
           /\ LET f == [made.c EXCEPT !.nlink = 0] IN
              disk' = iupdate(linked.D, ip, f) /\ mem' = Known(mem, ip, f)
           /\ PutAll(p, <<UnlockPut(ip), UnlockPut(dp)>>, "end")
           /\ stray' = stray
  BY <1>4, <1>5 DEF CreateFill
<1>9. PICK linked \in {IF made.ok THEN dirlink(made.D, dp, disk.ino[dp], name, ip) ELSE made} :
        \/ /\ linked.ok
           /\ LET d == [linked.c EXCEPT !.nlink = IF isdir THEN @ + 1 ELSE @] IN
              /\ disk' = iupdate(linked.D, dp, d)
              /\ mem' = Known(Known(mem, ip, made.c), dp, d)
           /\ stray' = (stray \/ disk.ino[dp].nlink = 0)
           /\ IF op[p].call = "creat" THEN PutAll(p, <<UnlockPut(dp)>>, "opened")
              ELSE PutAll(p, <<UnlockPut(dp), UnlockPut(ip)>>, "end")
        \/ /\ ~linked.ok
           /\ LET f == [made.c EXCEPT !.nlink = 0] IN
              disk' = iupdate(linked.D, ip, f) /\ mem' = Known(mem, ip, f)
           /\ PutAll(p, <<UnlockPut(ip), UnlockPut(dp)>>, "end")
           /\ stray' = stray
  BY <1>8
<1>a. c1 = Counted(disk, ip, 1) /\ D1 = iupdate(disk, ip, c1)
  BY DEF Counted
<1> HIDE DEF c1, D1
<1>10. /\ D1 \in DiskType /\ D1.dir = disk.dir /\ c1 \in Dinode /\ c1.type = disk.ino[ip].type /\ c1.nlink = 1
       /\ D1.ino[ip] = c1 /\ \A x \in Inum \ {ip} : D1.ino[x] = disk.ino[x]
       /\ OwnedDisk(disk) => OwnedDisk(D1)
  <2>1. disk \in DiskType /\ ip \in Inum /\ 1 \in Int
    BY <1>1, <1>2
  <2> QED
    BY <1>a, <2>1, CountOne
<1>11. /\ made.ok \in BOOLEAN
       /\ Rewritten(D1, ip, made.D, made.c)
       /\ \A x \in Inum \ {ip} : made.D.dir[x] = D1.dir[x]
       /\ \A n \in Names : made.D.dir[ip][n] = D1.dir[ip][n]
       /\ made.D.dir[ip]["."] \in {D1.dir[ip]["."], ip}
       /\ made.ok /\ isdir => made.D.dir[ip]["."] = ip /\ made.D.dir[ip][".."] = dp
       /\ ~isdir => made.ok /\ made.D.dir = D1.dir
  <2>1. CASE isdir
    <3>1. made = Dots(D1, ip, D1.ino[ip], dp)
      BY <1>8, <1>10, <2>1
    <3> HIDE DEF dp, ip, name, isdir
    <3> QED
      <4>1. D1 \in DiskType /\ ip \in Inum /\ dp \in Inum
        BY <1>1, <1>10
      <4> DEFINE l == Dots(D1, ip, D1.ino[ip], dp)
      <4>2. /\ l.ok \in BOOLEAN
            /\ Rewritten(D1, ip, l.D, l.c)
            /\ \A x \in Inum \ {ip} : l.D.dir[x] = D1.dir[x]
            /\ \A n \in Names : l.D.dir[ip][n] = D1.dir[ip][n]
            /\ l.D.dir[ip]["."] \in {D1.dir[ip]["."], ip}
            /\ l.ok => l.D.dir[ip]["."] = ip /\ l.D.dir[ip][".."] = dp
        BY <4>1, DotsOne
      <4>3. made = l
        BY <3>1
      <4> HIDE DEF l
      <4> QED
        BY <2>1, <4>2, <4>3
  <2>2. CASE ~isdir
    <3>1. made = [ok |-> TRUE, D |-> D1, c |-> c1]
      BY <1>8, <2>2
    <3>2. made.ok /\ made.D = D1 /\ made.c = c1 /\ made.ok \in BOOLEAN
      BY <3>1
    <3>3. D1.ino = [D1.ino EXCEPT ![ip] = c1]
      BY <1>1, <1>10 DEF DiskType
    <3>4. Rewritten(D1, ip, D1, c1)
      BY <1>10, <3>3 DEF Rewritten
    <3> QED
      BY <2>2, <3>2, <3>4
  <2> QED
    BY <2>1, <2>2
<1>12. /\ made.D.ino[ip] = made.c /\ (\A x \in Inum \ {ip} : made.D.ino[x] = D1.ino[x])
       /\ made.D \in DiskType /\ made.c \in Dinode /\ made.c.type = D1.ino[ip].type /\ made.c.nlink = D1.ino[ip].nlink
       /\ OwnedDisk(D1) => OwnedDisk(made.D)
  BY <1>1, <1>10, <1>11, RewrittenIno
<1>13. made.D.ino[dp] = disk.ino[dp]
  BY <1>1, <1>7, <1>10, <1>12
<1>14. CASE made.ok
  <2>1. linked = dirlink(made.D, dp, made.D.ino[dp], name, ip)
    BY <1>9, <1>13, <1>14
  <2>2. /\ linked.ok \in BOOLEAN
        /\ Rewritten(made.D, dp, linked.D, linked.c)
        /\ linked.ok => made.D.dir[dp][name] = None /\ linked.D.dir = [made.D.dir EXCEPT ![dp][name] = ip]
        /\ ~linked.ok => linked.D.dir = made.D.dir /\ linked.D.ino = made.D.ino
    <3> HIDE DEF dp, ip, name, isdir
    <3> QED
      <4>1. made.D \in DiskType /\ dp \in Inum /\ name \in DirNames /\ ip \in Inum
        BY <1>1, <1>2, <1>12
      <4> QED
        <5> DEFINE l == dirlink(made.D, dp, made.D.ino[dp], name, ip)
        <5>1. /\ l.ok \in BOOLEAN
              /\ Rewritten(made.D, dp, l.D, l.c)
              /\ l.ok => made.D.dir[dp][name] = None /\ l.D.dir = [made.D.dir EXCEPT ![dp][name] = ip]
              /\ ~l.ok => l.D.dir = made.D.dir /\ l.D.ino = made.D.ino
          BY <4>1, LinkOne
        <5> QED
          BY <2>1, <5>1
  <2>3. /\ linked.D.ino[dp] = linked.c /\ (\A x \in Inum \ {dp} : linked.D.ino[x] = made.D.ino[x])
        /\ linked.D \in DiskType /\ linked.c \in Dinode /\ linked.c.type = made.D.ino[dp].type /\ linked.c.nlink = made.D.ino[dp].nlink
        /\ OwnedDisk(made.D) => OwnedDisk(linked.D)
    BY <1>1, <1>12, <2>2, RewrittenIno
  <2>4. CASE linked.ok
    <3> DEFINE n == IF isdir THEN linked.c.nlink + 1 ELSE linked.c.nlink
               d == [linked.D.ino[dp] EXCEPT !.nlink = n]
    <3>1. /\ disk' = iupdate(linked.D, dp, d)
          /\ mem' = Known(Known(mem, ip, made.c), dp, d)
          /\ stray' = (stray \/ disk.ino[dp].nlink = 0)
          /\ IF op[p].call = "creat" THEN PutAll(p, <<UnlockPut(dp)>>, "opened")
             ELSE PutAll(p, <<UnlockPut(dp), UnlockPut(ip)>>, "end")
      BY <1>9, <2>3, <2>4
    <3>2. n \in Int /\ n = disk.ino[dp].nlink + (IF isdir THEN 1 ELSE 0)
      BY <1>5, <1>13, <2>3 DEF Dinode
    <3>a. d = Counted(linked.D, dp, n)
      BY DEF Counted
    <3> HIDE DEF n, d
    <3>3. /\ disk' \in DiskType /\ disk'.dir = linked.D.dir /\ d \in Dinode /\ d.type = linked.D.ino[dp].type /\ d.nlink = n
          /\ disk'.ino[dp] = d /\ \A x \in Inum \ {dp} : disk'.ino[x] = linked.D.ino[x]
          /\ OwnedDisk(linked.D) => OwnedDisk(disk')
      <4>1. linked.D \in DiskType /\ dp \in Inum /\ n \in Int /\ disk' = iupdate(linked.D, dp, d)
        BY <1>1, <2>3, <3>1, <3>2
      <4> QED
        BY <3>a, <4>1, CountOne
    <3>4. OwnedDisk(disk) => OwnedDisk(disk')
      BY <1>10, <1>12, <2>3, <3>3
    <3> DEFINE A == made.D.dir
               B == linked.D.dir
    <3>5. A \in [Inum -> [DirNames -> {None} \cup Inum]] /\ B = [A EXCEPT ![dp][name] = ip]
      BY <1>12, <2>2, <2>4 DEF DiskType
    <3> HIDE DEF A, B
    <3>6. /\ B[dp][name] = ip /\ \A m \in DirNames \ {name} : B[dp][m] = A[dp][m]
          /\ \A x \in Inum \ {dp} : B[x] = A[x]
      BY <1>1, <1>2, <3>5
    <3>7. /\ disk.dir[dp][name] = None /\ disk'.dir[dp][name] = ip
          /\ \A m \in DirNames \ {name} : disk'.dir[dp][m] = disk.dir[dp][m]
          /\ \A x \in Inum \ {ip, dp} : disk'.dir[x] = disk.dir[x]
      <4>1. /\ disk'.dir = B /\ A[dp][name] = None /\ ip \in Inum /\ dp \in Inum /\ ip # dp
            /\ \A x \in Inum \ {ip} : A[x] = disk.dir[x]
        BY <1>1, <1>7, <1>10, <1>11, <2>2, <2>4, <3>3 DEF A, B
      <4> HIDE DEF dp, ip, name, isdir
      <4> QED
        BY <3>6, <4>1
    <3>8. /\ ~isdir => disk'.dir[ip] = disk.dir[ip]
          /\ isdir => /\ disk'.dir[ip]["."] = ip /\ disk'.dir[ip][".."] = dp
                      /\ \A m \in Names : disk'.dir[ip][m] = disk.dir[ip][m]
      <4>1. /\ disk'.dir = B /\ ip \in Inum /\ dp \in Inum /\ ip # dp
            /\ \A m \in Names : A[ip][m] = disk.dir[ip][m]
            /\ isdir => A[ip]["."] = ip /\ A[ip][".."] = dp
            /\ ~isdir => A = disk.dir
        BY <1>1, <1>7, <1>10, <1>11, <1>14, <3>3 DEF A, B
      <4> HIDE DEF dp, ip, name, isdir
      <4> QED
        BY <3>6, <4>1
    <3>9. /\ disk'.ino[ip] = made.c /\ disk'.ino[dp] = d /\ \A x \in Inum \ {ip, dp} : disk'.ino[x] = disk.ino[x]
          /\ made.c.type = disk.ino[ip].type /\ made.c.nlink = 1 /\ d.type = disk.ino[dp].type
      BY <1>1, <1>7, <1>10, <1>12, <1>13, <2>3, <3>3
    <3>10. Filled(p, made.c, d)
      BY <1>12, <3>1, <3>2, <3>3, <3>7, <3>8, <3>9 DEF Filled
    <3> QED
      BY <3>3, <3>4, <3>10
  <2>5. CASE ~linked.ok
    <3> DEFINE f == [linked.D.ino[ip] EXCEPT !.nlink = 0]
    <3>0. linked.D.ino[ip] = made.c
      BY <1>12, <2>2, <2>5
    <3>1. /\ disk' = iupdate(linked.D, ip, f) /\ mem' = Known(mem, ip, f) /\ stray' = stray
          /\ PutAll(p, <<UnlockPut(ip), UnlockPut(dp)>>, "end")
      BY <1>9, <2>5, <3>0
    <3>a. f = Counted(linked.D, ip, 0) /\ 0 \in Int
      BY DEF Counted
    <3> HIDE DEF f
    <3>3. /\ disk' \in DiskType /\ disk'.dir = linked.D.dir /\ f \in Dinode /\ f.type = linked.D.ino[ip].type /\ f.nlink = 0
          /\ disk'.ino[ip] = f /\ \A x \in Inum \ {ip} : disk'.ino[x] = linked.D.ino[x]
          /\ OwnedDisk(linked.D) => OwnedDisk(disk')
      <4>1. linked.D \in DiskType /\ ip \in Inum /\ disk' = iupdate(linked.D, ip, f)
        BY <1>1, <2>3, <3>1
      <4> QED
        BY <3>a, <4>1, CountOne
    <3>4. OwnedDisk(disk) => OwnedDisk(disk')
      BY <1>10, <1>12, <2>3, <3>3
    <3>5. /\ \A x \in Inum \ {ip} : disk'.ino[x] = disk.ino[x] /\ disk'.dir[x] = disk.dir[x]
          /\ \A m \in Names : disk'.dir[ip][m] = disk.dir[ip][m]
          /\ disk'.dir[ip]["."] \in {disk.dir[ip]["."], ip}
          /\ ~isdir => disk'.dir[ip] = disk.dir[ip]
      <4>1. disk'.dir = made.D.dir /\ linked.D.ino = made.D.ino /\ D1.dir = disk.dir
        BY <1>10, <2>2, <2>5, <3>3
      <4> HIDE DEF dp, ip, name, isdir
      <4> QED
        BY <1>10, <1>11, <1>12, <3>3, <4>1
    <3>6. Unfilled(p, f)
      BY <1>10, <1>12, <3>0, <3>1, <3>3, <3>5 DEF Unfilled
    <3> QED
      BY <3>3, <3>4, <3>6
  <2> QED
    BY <2>2, <2>4, <2>5
<1>15. CASE ~made.ok
  <2>1. linked = made
    BY <1>9, <1>15
  <2> DEFINE f == [made.D.ino[ip] EXCEPT !.nlink = 0]
  <2>2. /\ disk' = iupdate(made.D, ip, f) /\ mem' = Known(mem, ip, f) /\ stray' = stray
        /\ PutAll(p, <<UnlockPut(ip), UnlockPut(dp)>>, "end")
    BY <1>9, <1>12, <1>15, <2>1
  <2>a. f = Counted(made.D, ip, 0) /\ 0 \in Int
    BY DEF Counted
  <2> HIDE DEF f
  <2>3. /\ disk' \in DiskType /\ disk'.dir = made.D.dir /\ f \in Dinode /\ f.type = made.D.ino[ip].type /\ f.nlink = 0
        /\ disk'.ino[ip] = f /\ \A x \in Inum \ {ip} : disk'.ino[x] = made.D.ino[x]
        /\ OwnedDisk(made.D) => OwnedDisk(disk')
    <3>1. made.D \in DiskType /\ ip \in Inum /\ disk' = iupdate(made.D, ip, f)
      BY <1>1, <1>12, <2>2
    <3> QED
      BY <2>a, <3>1, CountOne
  <2>4. OwnedDisk(disk) => OwnedDisk(disk')
    BY <1>10, <1>12, <2>3
  <2>5. /\ \A x \in Inum \ {ip} : disk'.ino[x] = disk.ino[x] /\ disk'.dir[x] = disk.dir[x]
        /\ \A m \in Names : disk'.dir[ip][m] = disk.dir[ip][m]
        /\ disk'.dir[ip]["."] \in {disk.dir[ip]["."], ip}
        /\ ~isdir => disk'.dir[ip] = disk.dir[ip]
    BY <1>10, <1>11, <1>12, <2>3
  <2>6. Unfilled(p, f)
    BY <1>10, <1>12, <2>2, <2>3, <2>5 DEF Unfilled
  <2> QED
    BY <2>3, <2>4, <2>6
<1> QED
  BY <1>11, <1>14, <1>15

(* The inode table after two iupdate()s. *)
LEMMA KnownTwo ==
  ASSUME TypeOK, NEW i \in Inum, NEW j \in Inum, i # j, NEW c \in Dinode, NEW d \in Dinode,
         mem' = Known(Known(mem, i, c), j, d)
  PROVE  /\ mem' \in MemType /\ \A x \in Inum : mem'[x].ref = mem[x].ref
         /\ mem'[i].valid /\ mem'[i].c = c /\ mem'[j].valid /\ mem'[j].c = d
         /\ \A x \in Inum \ {i, j} : mem'[x] = mem[x]
<1>0. mem \in MemType
  BY DEF TypeOK, MemType
<1> DEFINE K == Known(mem, i, c)
<1>1. /\ K \in MemType /\ \A x \in Inum : K[x].ref = mem[x].ref
      /\ K[i].valid /\ K[i].c = c
      /\ \A x \in Inum \ {i} : K[x] = mem[x]
  BY <1>0, KnownFacts
<1> HIDE DEF K
<1>2. /\ Known(K, j, d) \in MemType /\ \A x \in Inum : Known(K, j, d)[x].ref = K[x].ref
      /\ Known(K, j, d)[j].valid /\ Known(K, j, d)[j].c = d
      /\ \A x \in Inum \ {j} : Known(K, j, d)[x] = K[x]
  BY <1>1, KnownFacts
<1>3. mem' = Known(K, j, d)
  BY DEF K
<1> QED
  BY <1>1, <1>2, <1>3

(* create() after ialloc() keeps Core. *)
LEMMA CreateFillCore ==
  ASSUME Core, NEW p \in Proc, CreateFill(p)
  PROVE  Core'
<1> DEFINE dp == op[p].ip
           ip == op[p].tgt
<1>0. TypeOK /\ "fill" \in Labels \ {"idle", "exit", "end"} /\ At(p, "fill") /\ AliveInv /\ LockInv /\ CopyInv
  BY DEF Core, Labels, CreateFill
<1>1. /\ op[p] \in OpType /\ OpOK(op[p]) /\ op[p].pc = "fill" /\ dp \in Inum /\ puts[p] = <<>> /\ ip \in Inum
      /\ op[p].call # "gone" /\ OpAlive(op[p])
  BY <1>0, AtFacts DEF HasIp, HasTgt, Labels, OpOK, AliveInv
<1>2. IpIn(op[p]) = dp
  BY <1>1 DEF IpIn, HasIp
<1>3. UNCHANGED <<durable, file, ofile, cwd, alive, freeing, out, boot>> /\ ilock(ip) /\ lock' = [lock EXCEPT ![ip] = p]
  BY DEF CreateFill, procvars
<1>4. lock[ip] = NoProc /\ disk.ino[ip] \in Dinode /\ disk.ino[ip].type # "free" /\ ip \in Live
  BY <1>1, <1>3, LockedLive
<1>5. dp \in Live /\ disk.ino[dp].type # "free"
  BY <1>1 DEF OpAlive, Live
<1>6. mem \in MemType /\ \A x \in Inum : mem[x].ref \in Nat
  BY <1>0 DEF TypeOK, MemType
<1>7. \A x \in Inum : lock[x] = p <=> x = dp
  BY <1>0, <1>1 DEF LockInv, Locks, Holds
<1>8. ip # dp
  BY <1>1, <1>4, <1>7, FsAssumption
<1>9. /\ \A x \in Inum : lock'[x] = lock[x] \/ (lock[x] \in {p, NoProc} /\ lock'[x] \in {p, NoProc})
      /\ \A x \in Inum : lock'[x] = p <=> (x = ip \/ x = dp)
      /\ lock' \in [Inum -> Proc \cup {NoProc}]
  BY <1>0, <1>1, <1>3, <1>4, <1>7 DEF TypeOK
<1>10. disk' \in DiskType
  BY FillFacts
<1>11. ASSUME mem' \in MemType, \A x \in Inum : mem'[x].ref = mem[x].ref, CopyInv', OwnInodes(p), Rest(p),
              \/ PutAll(p, <<UnlockPut(dp), UnlockPut(ip)>>, "end")
              \/ PutAll(p, <<UnlockPut(ip), UnlockPut(dp)>>, "end")
       PROVE  Core'
  <2>0. PICK s : /\ s = <<UnlockPut(dp), UnlockPut(ip)>> \/ s = <<UnlockPut(ip), UnlockPut(dp)>>
                 /\ puts' = [puts EXCEPT ![p] = s] /\ Goto(p, "end")
    BY <1>11 DEF PutAll
  <2>1. /\ s \in Seq([i : Inum, unlock : BOOLEAN]) /\ Len(s) = 2 /\ s # <<>> /\ s[1].unlock /\ s[2].unlock
        /\ \/ s[1].i = dp /\ s[2].i = ip /\ FirstIn(s) = dp /\ SecondIn(s) = ip
           \/ s[1].i = ip /\ s[2].i = dp /\ FirstIn(s) = ip /\ SecondIn(s) = dp
    <3>0. dp \in Inum /\ ip \in Inum
      BY <1>1
    <3> HIDE DEF dp, ip
    <3>1. CASE s = <<UnlockPut(dp), UnlockPut(ip)>>
      <4>2. s[1].i = dp /\ s[1].unlock
        BY <3>0, <3>1, UnlockTwo
      <4>3. s[2].i = ip /\ s[2].unlock /\ FirstIn(s) = dp /\ SecondIn(s) = ip
        BY <3>0, <3>1, UnlockTwo
      <4>4. s \in Seq([i : Inum, unlock : BOOLEAN]) /\ Len(s) = 2 /\ s # <<>>
        BY <3>0, <3>1, UnlockTwo, Zenon
      <4> QED
        BY <4>2, <4>3, <4>4
    <3>2. CASE s = <<UnlockPut(ip), UnlockPut(dp)>>
      <4>2. s[1].i = ip /\ s[1].unlock
        BY <3>0, <3>2, UnlockTwo
      <4>3. s[2].i = dp /\ s[2].unlock /\ FirstIn(s) = ip /\ SecondIn(s) = dp
        BY <3>0, <3>2, UnlockTwo
      <4>4. s \in Seq([i : Inum, unlock : BOOLEAN]) /\ Len(s) = 2 /\ s # <<>>
        BY <3>0, <3>2, UnlockTwo, Zenon
      <4> QED
        BY <4>2, <4>3, <4>4
    <3> QED
      BY <2>0, <3>1, <3>2
  <2>2. PICK o \in OpType : /\ op' = [op EXCEPT ![p] = o] /\ o.pc = "end" /\ OpOK(o) /\ o.tgt = None /\ o.call # "gone"
                            /\ IpIn(o) = None
    BY <1>0, <2>0, GotoFacts DEF Labels
  <2>5. \A x \in Inum : mem'[x].ref = mem[x].ref - Is(IpIn(op[p]), x) - Is(op[p].tgt, x)
                                      + Is(IpIn(o), x) + Is(o.tgt, x) + Is(FirstIn(s), x) + Is(SecondIn(s), x)
    <3> SUFFICES ASSUME NEW x \in Inum
                 PROVE  mem'[x].ref = mem[x].ref - Is(IpIn(op[p]), x) - Is(op[p].tgt, x)
                                      + Is(IpIn(o), x) + Is(o.tgt, x) + Is(FirstIn(s), x) + Is(SecondIn(s), x)
      OBVIOUS
    <3> DEFINE r == mem[x].ref
               a == Is(dp, x)
               b == Is(ip, x)
               f == Is(FirstIn(s), x)
               g == Is(SecondIn(s), x)
    <3>1. Is(IpIn(op[p]), x) = a /\ Is(op[p].tgt, x) = b /\ Is(IpIn(o), x) = 0 /\ Is(o.tgt, x) = 0
      BY <1>2, <2>2, IsFacts
    <3>2. (f = a /\ g = b) \/ (f = b /\ g = a)
      BY <2>1
    <3>3. r \in Nat /\ a \in Nat /\ b \in Nat /\ mem'[x].ref = r
      BY <1>6, <1>11, IsFacts
    <3> HIDE DEF r, a, b, f, g
    <3>4. mem'[x].ref = r - a - b + 0 + 0 + f + g
      BY <3>2, <3>3, SwapSum
    <3> QED
      BY <3>1, <3>4 DEF r, f, g
  <2>6. (\A x \in Inum : lock'[x] = p <=> Holds(o, s, "no", x)) /\ Apart(o, s) /\ o.pc \in PutsAt /\ Len(s) <= 2
    BY <1>8, <1>9, <2>1, <2>2 DEF Holds, Apart, PutsAt
  <2>8. op'[p] = o
    BY <1>0, <2>2 DEF TypeOK
  <2>9. OpAlive(op[p])'
    BY <2>2, <2>8 DEF OpAlive
  <2>10. s \in Seq([i : Inum, unlock : BOOLEAN]) /\ s # <<>> /\ puts' = [puts EXCEPT ![p] = s]
    BY <2>0, <2>1
  <2> QED
    BY <1>0, <1>9, <1>10, <1>11, <2>2, <2>5, <2>6, <2>9, <2>10, StepPuts
<1>12. ASSUME NEW c, NEW d, Filled(p, c, d)
       PROVE  Core'
  <2>1. /\ c \in Dinode /\ c.type = disk.ino[ip].type /\ d \in Dinode /\ d.type = disk.ino[dp].type
        /\ disk'.ino[ip] = c /\ disk'.ino[dp] = d /\ \A x \in Inum \ {ip, dp} : disk'.ino[x] = disk.ino[x]
        /\ mem' = Known(Known(mem, ip, c), dp, d)
        /\ \A x \in Inum \ {ip, dp} : disk'.dir[x] = disk.dir[x]
    BY <1>12 DEF Filled
  <2>2. /\ mem' \in MemType /\ \A x \in Inum : mem'[x].ref = mem[x].ref
        /\ mem'[ip].valid /\ mem'[ip].c = c /\ mem'[dp].valid /\ mem'[dp].c = d
        /\ \A x \in Inum \ {ip, dp} : mem'[x] = mem[x]
    BY <1>0, <1>1, <1>8, <2>1, KnownTwo
  <2>3. CopyInv' /\ OwnInodes(p)
    <3> DEFINE S == {dp, ip}
    <3>1. \A x \in Inum : x \in S => lock[x] \in {p, NoProc}
      BY <1>4, <1>7
    <3>2. \A x \in Inum : x \notin S =>
           /\ disk'.dir[x] = disk.dir[x] /\ (disk.ino[x].type # "free" => disk'.ino[x] = disk.ino[x])
           /\ mem'[x].valid => mem[x].valid /\ mem'[x].c = mem[x].c
           /\ mem[x].ref > 0 => mem'[x].valid = mem[x].valid /\ mem'[x].c = mem[x].c
      BY <2>1, <2>2
    <3>4. \A x \in Inum : x \in S =>
           /\ disk.ino[x].type # "free" => disk'.ino[x].type = disk.ino[x].type
           /\ mem'[x].valid => mem'[x].c = disk'.ino[x] /\ disk'.ino[x].type # "free"
      BY <1>1, <1>4, <1>5, <1>8, <2>1, <2>2
    <3> HIDE DEF S
    <3> QED
      BY <3>1, <3>2, <3>4, Touch
  <2>4. Rest(p)
    BY <1>0, <1>3, <1>12 DEF Rest, TypeOK, Filled
  <2>5. CASE op[p].call # "creat"
    <3>1. PutAll(p, <<UnlockPut(dp), UnlockPut(ip)>>, "end")
      BY <1>12, <2>5 DEF Filled
    <3> QED
      BY <1>11, <2>2, <2>3, <2>4, <3>1
  <2>6. CASE op[p].call = "creat"
    <3>1. puts' = [puts EXCEPT ![p] = <<UnlockPut(dp)>>] /\ Goto(p, "opened")
      BY <1>12, <2>6 DEF Filled, PutAll
    <3>2. PICK o \in OpType : /\ op' = [op EXCEPT ![p] = o] /\ o.pc = "opened" /\ o.tgt = ip /\ o.call = op[p].call
      BY <1>0, <3>1, GotoFacts DEF Labels
    <3>3. OpOK(o) /\ IpIn(o) = None
      BY <1>1, <3>2, ConstFacts DEF OpOK, IpIn, HasIp, HasTgt
    <3>4. PICK s : s = <<UnlockPut(dp)>>
      OBVIOUS
    <3>5. /\ s \in Seq([i : Inum, unlock : BOOLEAN]) /\ Len(s) = 1 /\ s # <<>> /\ s[1].i = dp /\ s[1].unlock
          /\ FirstIn(s) = dp /\ SecondIn(s) = None
      BY <1>1, <3>4, PutFacts
    <3>6. puts' = [puts EXCEPT ![p] = s]
      BY <3>1, <3>4
    <3>7. \A x \in Inum : mem'[x].ref = mem[x].ref - Is(IpIn(op[p]), x) - Is(op[p].tgt, x)
                                      + Is(IpIn(o), x) + Is(o.tgt, x) + Is(FirstIn(s), x) + Is(SecondIn(s), x)
      BY <1>2, <1>6, <2>2, <3>2, <3>3, <3>5, IsFacts
    <3>8. Live \subseteq Live'
      BY <1>1, <1>3, <2>3, <3>6, LiveGrows
    <3>9. op'[p] = o
      BY <1>0, <3>2 DEF TypeOK
    <3>10. OpAlive(op[p])'
      BY <1>4, <3>2, <3>8, <3>9 DEF OpAlive
    <3>11. /\ \A x \in Inum : lock'[x] = p <=> Holds(o, s, "no", x)
           /\ Apart(o, s) /\ o.pc \in PutsAt /\ Len(s) <= 2 /\ o.call # "gone"
      BY <1>1, <1>8, <1>9, <3>2, <3>5 DEF Holds, Apart, PutsAt
    <3> QED
      BY <1>0, <1>9, <1>10, <2>2, <2>3, <2>4, <3>2, <3>3, <3>5, <3>6, <3>7, <3>10, <3>11, StepPuts
  <2> QED
    BY <2>5, <2>6
<1>13. ASSUME NEW c, Unfilled(p, c)
       PROVE  Core'
  <2>1. /\ c \in Dinode /\ c.type = disk.ino[ip].type /\ disk'.ino[ip] = c /\ mem' = Known(mem, ip, c)
        /\ \A x \in Inum \ {ip} : disk'.ino[x] = disk.ino[x]
        /\ \A x \in Inum \ {ip} : disk'.dir[x] = disk.dir[x]
        /\ PutAll(p, <<UnlockPut(ip), UnlockPut(dp)>>, "end")
    BY <1>13 DEF Unfilled
  <2>2. disk'.ino = [disk.ino EXCEPT ![ip] = c]
    <3>1. disk.ino \in [Inum -> Dinode] /\ disk'.ino \in [Inum -> Dinode]
      BY <1>0, <1>10 DEF TypeOK, DiskType
    <3> QED
      BY <1>1, <2>1, <3>1
  <2>3. mem' \in MemType /\ (\A x \in Inum : mem'[x].ref = mem[x].ref) /\ CopyInv' /\ OwnInodes(p)
    BY <1>1, <1>4, <2>1, <2>2, WriteKnown
  <2>4. Rest(p)
    BY <1>0, <1>3, <1>13 DEF Rest, TypeOK, Unfilled
  <2> QED
    BY <1>11, <2>1, <2>3, <2>4
<1> QED
  BY <1>12, <1>13, FillFacts

(* A step of p that moves references of its own and that of one open file. *)
LEMMA RefFile ==
  ASSUME TypeOK, RefInv, NEW p \in Proc,
         \A q \in Proc \ {p} : op'[q] = op[q] /\ puts'[q] = puts[q] /\ cwd'[q] = cwd[q],
         NEW f \in File, \A g \in File \ {f} : file'[g].ip = file[g].ip,
         cwd' \in [Proc -> {None} \cup Inum],
         \A i \in Inum : mem'[i].ref = mem[i].ref - Mine(p, i) + Mine(p, i)' - Is(file[f].ip, i) + Is(file'[f].ip, i)
  PROVE  RefInv'
<1> SUFFICES ASSUME NEW i \in Inum
             PROVE  mem'[i].ref = Occ(FileIp', i) + Occ(cwd', i) + Occ(IpOf', i) + Occ(TgtOf', i)
                                  + Occ(Put1', i) + Occ(Put2', i)
  BY DEF RefInv
<1>0. IsFiniteSet(Proc) /\ IsFiniteSet(File)
  BY FiniteFacts
<1>1. /\ DOMAIN FileIp = File /\ DOMAIN FileIp' = File /\ (\A g \in File \ {f} : FileIp'[g] = FileIp[g])
      /\ FileIp[f] = file[f].ip /\ FileIp'[f] = file'[f].ip
  BY DEF FileIp
<1>2. /\ DOMAIN cwd = Proc /\ DOMAIN IpOf = Proc /\ DOMAIN TgtOf = Proc /\ DOMAIN Put1 = Proc /\ DOMAIN Put2 = Proc
      /\ DOMAIN cwd' = Proc /\ DOMAIN IpOf' = Proc /\ DOMAIN TgtOf' = Proc /\ DOMAIN Put1' = Proc /\ DOMAIN Put2' = Proc
  BY DEF TypeOK, IpOf, TgtOf, Put1, Put2
<1>3. \A q \in Proc \ {p} : /\ cwd'[q] = cwd[q] /\ IpOf'[q] = IpOf[q] /\ TgtOf'[q] = TgtOf[q]
                            /\ Put1'[q] = Put1[q] /\ Put2'[q] = Put2[q]
  BY DEF IpOf, TgtOf, Put1, Put2
<1>6. Occ(FileIp', i) = Occ(FileIp, i) - Is(file[f].ip, i) + Is(file'[f].ip, i) /\ Occ(FileIp, i) \in Nat /\ Occ(FileIp', i) \in Nat
  BY <1>0, <1>1, OccStep
<1>7. Occ(cwd', i) = Occ(cwd, i) - Is(cwd[p], i) + Is(cwd'[p], i) /\ Occ(cwd, i) \in Nat /\ Occ(cwd', i) \in Nat
  <2>1. IsFiniteSet(Proc) /\ DOMAIN cwd = Proc /\ DOMAIN cwd' = Proc /\ \A q \in Proc \ {p} : cwd'[q] = cwd[q]
    BY <1>0, <1>2
  <2> QED
    BY <2>1, OccStep
<1>8. Occ(IpOf', i) = Occ(IpOf, i) - Is(IpOf[p], i) + Is(IpOf'[p], i) /\ Occ(IpOf, i) \in Nat /\ Occ(IpOf', i) \in Nat
  BY <1>0, <1>2, <1>3, OccStep
<1>9. Occ(TgtOf', i) = Occ(TgtOf, i) - Is(TgtOf[p], i) + Is(TgtOf'[p], i) /\ Occ(TgtOf, i) \in Nat /\ Occ(TgtOf', i) \in Nat
  BY <1>0, <1>2, <1>3, OccStep
<1>10. Occ(Put1', i) = Occ(Put1, i) - Is(Put1[p], i) + Is(Put1'[p], i) /\ Occ(Put1, i) \in Nat /\ Occ(Put1', i) \in Nat
  BY <1>0, <1>2, <1>3, OccStep
<1>11. Occ(Put2', i) = Occ(Put2, i) - Is(Put2[p], i) + Is(Put2'[p], i) /\ Occ(Put2, i) \in Nat /\ Occ(Put2', i) \in Nat
  BY <1>0, <1>2, <1>3, OccStep
<1>13. mem[i].ref = Occ(FileIp, i) + Occ(cwd, i) + Occ(IpOf, i) + Occ(TgtOf, i) + Occ(Put1, i) + Occ(Put2, i)
  BY DEF RefInv
<1>14. mem'[i].ref = mem[i].ref - Mine(p, i) + Mine(p, i)' - Is(file[f].ip, i) + Is(file'[f].ip, i)
  OBVIOUS
<1>15. /\ Mine(p, i) = Is(cwd[p], i) + Is(IpOf[p], i) + Is(TgtOf[p], i) + Is(Put1[p], i) + Is(Put2[p], i)
       /\ Mine(p, i)' = Is(cwd'[p], i) + Is(IpOf'[p], i) + Is(TgtOf'[p], i) + Is(Put1'[p], i) + Is(Put2'[p], i)
  BY DEF Mine, Tally, IpOf, TgtOf, Put1, Put2
<1> QED
  <2> DEFINE f0 == Occ(FileIp, i)
             f1 == Occ(FileIp', i)
             c0 == Occ(cwd, i)
             c1 == Occ(cwd', i)
             i0 == Occ(IpOf, i)
             i1 == Occ(IpOf', i)
             t0 == Occ(TgtOf, i)
             t1 == Occ(TgtOf', i)
             a0 == Occ(Put1, i)
             a1 == Occ(Put1', i)
             b0 == Occ(Put2, i)
             b1 == Occ(Put2', i)
             m0 == Mine(p, i)
             m1 == Mine(p, i)'
             u0 == Is(file[f].ip, i)
             u1 == Is(file'[f].ip, i)
             r0 == mem[i].ref
             r1 == mem'[i].ref
  <2>1. /\ Is(cwd[p], i) \in Nat /\ Is(IpOf[p], i) \in Nat /\ Is(TgtOf[p], i) \in Nat /\ Is(Put1[p], i) \in Nat /\ Is(Put2[p], i) \in Nat
        /\ Is(cwd'[p], i) \in Nat /\ Is(IpOf'[p], i) \in Nat /\ Is(TgtOf'[p], i) \in Nat /\ Is(Put1'[p], i) \in Nat /\ Is(Put2'[p], i) \in Nat
        /\ u0 \in Nat /\ u1 \in Nat
    BY IsFacts
  <2>2. /\ m0 \in Nat /\ m1 \in Nat
        /\ c1 + i1 + t1 + a1 + b1 = c0 + i0 + t0 + a0 + b0 - m0 + m1
    BY <1>7, <1>8, <1>9, <1>10, <1>11, <1>15, <2>1
  <2>3. /\ c0 \in Nat /\ i0 \in Nat /\ t0 \in Nat /\ a0 \in Nat /\ b0 \in Nat
        /\ c1 \in Nat /\ i1 \in Nat /\ t1 \in Nat /\ a1 \in Nat /\ b1 \in Nat
    BY <1>7, <1>8, <1>9, <1>10, <1>11
  <2>4. /\ r0 = f0 + c0 + i0 + t0 + a0 + b0 /\ r1 = r0 - m0 + m1 - u0 + u1
        /\ f0 \in Nat /\ f1 \in Nat /\ f1 = f0 - u0 + u1 /\ u0 \in Nat /\ u1 \in Nat
    BY <1>6, <1>13, <1>14, <2>1
  <2> HIDE DEF f0, f1, c0, c1, i0, i1, t0, t1, a0, a1, b0, b1, m0, m1, u0, u1, r0, r1
  <2>5. r1 = f1 + c1 + i1 + t1 + a1 + b1
    BY <2>2, <2>3, <2>4
  <2> QED
    BY <2>5 DEF f1, c1, i1, t1, a1, b1, r1

(* A descriptor of p is made to refer to v. *)
LEMMA DescStep ==
  ASSUME NEW p \in Proc, NEW d \in Fd, NEW v, ofile'[p][d] = v,
         \A q \in Proc, c \in Fd : q # p \/ c # d => ofile'[q][c] = ofile[q][c], NEW x \in File
  PROVE  /\ Occ(Descriptor', x) = Occ(Descriptor, x) - Is(ofile[p][d], x) + Is(v, x)
         /\ Occ(Descriptor, x) \in Nat /\ Occ(Descriptor', x) \in Nat
<1>1. IsFiniteSet(Proc \X Fd)
  BY FiniteFacts, FS_Product
<1>2. DOMAIN Descriptor = Proc \X Fd /\ DOMAIN Descriptor' = Proc \X Fd /\ <<p, d>> \in Proc \X Fd
  BY DEF Descriptor
<1>3. Descriptor[<<p, d>>] = ofile[p][d] /\ Descriptor'[<<p, d>>] = ofile'[p][d] /\ ofile'[p][d] = v
  BY DEF Descriptor
<1>4. \A s \in (Proc \X Fd) \ {<<p, d>>} : Descriptor'[s] = Descriptor[s]
  BY DEF Descriptor
<1> QED
  BY <1>1, <1>2, <1>3, <1>4, OccStep

(* Files as they are when one slot f is changed to e. *)
LEMMA FileStep ==
  ASSUME FileInv, NEW p \in Proc, NEW d \in Fd, NEW v, ofile'[p][d] = v,
         \A q \in Proc, c \in Fd : q # p \/ c # d => ofile'[q][c] = ofile[q][c],
         NEW f \in File, NEW e, file'[f] = e, \A g \in File \ {f} : file'[g] = file[g],
         e.ref = file[f].ref - Is(ofile[p][d], f) + Is(v, f),
         e.ref = 0 => e = NoFile, e.ref > 0 => e.ip # None,
         \A g \in File \ {f} : Is(ofile[p][d], g) = Is(v, g)
  PROVE  FileInv'
<1> SUFFICES ASSUME NEW g \in File
             PROVE  /\ file'[g].ref = Occ(Descriptor', g)
                    /\ file'[g].ref = 0 => file'[g] = NoFile
                    /\ file'[g].ref > 0 => file'[g].ip # None
  BY DEF FileInv
<1>1. /\ Occ(Descriptor', g) = Occ(Descriptor, g) - Is(ofile[p][d], g) + Is(v, g)
      /\ Occ(Descriptor, g) \in Nat /\ Occ(Descriptor', g) \in Nat
  BY DescStep
<1>2. /\ file[g].ref = Occ(Descriptor, g)
      /\ file[g].ref = 0 => file[g] = NoFile
      /\ file[g].ref > 0 => file[g].ip # None
  BY DEF FileInv
<1>3. CASE g = f
  <2>1. file'[g] = e
    BY <1>3
  <2> QED
    BY <1>1, <1>2, <1>3, <2>1
<1>4. CASE g # f
  <2>1. file'[g] = file[g] /\ Is(ofile[p][d], g) = Is(v, g) /\ Is(v, g) \in {0, 1}
    BY <1>4 DEF Is
  <2> QED
    BY <1>1, <1>2, <2>1
<1> QED
  BY <1>3, <1>4

(* filealloc() and fdalloc() return an entry that is free. *)
LEMMA AllocFacts ==
  ASSUME TypeOK, NEW p \in Proc
  PROVE  /\ filealloc # None => filealloc \in File /\ file[filealloc].ref = 0
         /\ fdalloc(p) # None => fdalloc(p) \in Fd /\ ofile[p][fdalloc(p)] = None
<1>1. ASSUME filealloc # None PROVE filealloc \in File /\ file[filealloc].ref = 0
  <2> DEFINE S == {f \in File : file[f].ref = 0}
  <2>1. filealloc = Min(S) /\ S # {} /\ S \subseteq Nat
    BY <1>1 DEF filealloc, File
  <2> HIDE DEF S
  <2>2. filealloc \in S
    BY <2>1, MinIn
  <2> QED
    BY <2>2 DEF S
<1>2. ASSUME fdalloc(p) # None PROVE fdalloc(p) \in Fd /\ ofile[p][fdalloc(p)] = None
  <2> DEFINE S == {d \in Fd : ofile[p][d] = None}
  <2>1. fdalloc(p) = Min(S) /\ S # {} /\ S \subseteq Nat
    BY <1>2 DEF fdalloc, Fd
  <2> HIDE DEF S
  <2>2. fdalloc(p) \in S
    BY <2>1, MinIn
  <2> QED
    BY <2>2 DEF S
<1> QED
  BY <1>1, <1>2

(* The second half of open(), on the inode i that p has in hand. *)
LEMMA OpenFileCore ==
  ASSUME Core, NEW p \in Proc, NEW l \in {"open", "opened"}, At(p, l), NEW i \in Inum, NEW mode, NEW valid, OpenFile(p, i, mode, valid),
         i \in Live, lock[i] \in {p, NoProc},
         \A x \in Inum : Is(IpIn(op[p]), x) + Is(op[p].tgt, x) = Is(i, x),
         lock' \in [Inum -> Proc \cup {NoProc}],
         \A x \in Inum : lock'[x] = lock[x] \/ (lock[x] \in {p, NoProc} /\ lock'[x] \in {p, NoProc}),
         \A x \in Inum : lock'[x] # p,
         UNCHANGED <<durable, cwd, alive, freeing, out, boot, stray>>
  PROVE  Core'
<1> DEFINE c == disk.ino[i]
           D == itrunc(disk, i, c)
<1>0. TypeOK /\ l \in Labels \ {"idle", "exit", "end"} /\ disk \in DiskType /\ CopyInv /\ RefInv /\ FileInv /\ AliveInv
  BY DEF Core, Labels, TypeOK
<1>1. /\ op[p] \in OpType /\ puts[p] = <<>> /\ freeing[p] = "no" /\ boot = None /\ p \in alive /\ p \in out
      /\ cwd[p] \in Inum
  BY <1>0, AtFacts
<1>2. Copy(i) = c /\ c \in Dinode /\ c.type # "free"
  BY <1>0, CopyIsDisk DEF Live
<1>3. \A x \in Inum : mem[x].ref \in Nat /\ Is(IpIn(op[p]), x) \in Nat /\ Is(op[p].tgt, x) \in Nat /\ Is(i, x) \in Nat
  BY <1>0, IsFacts DEF TypeOK
<1>4. ASSUME disk' = disk, mem' = Known(mem, i, c)
      PROVE  disk' \in DiskType /\ mem' \in MemType /\ (\A x \in Inum : mem'[x].ref = mem[x].ref) /\ CopyInv' /\ OwnInodes(p)
  <2>1. disk'.ino = [disk.ino EXCEPT ![i] = c]
    BY <1>0, <1>4 DEF DiskType
  <2> QED
    BY <1>0, <1>2, <1>4, <2>1, WriteKnown
<1>5. CASE PutAll(p, <<Put(i)>>, "end") /\ mem' = Known(mem, i, c) /\ UNCHANGED <<disk, file, ofile>>
  <2>1. puts' = [puts EXCEPT ![p] = <<[i |-> i, unlock |-> FALSE]>>] /\ Goto(p, "end")
    BY <1>5 DEF PutAll, Put
  <2>2. PICK o \in OpType : /\ op' = [op EXCEPT ![p] = o] /\ o.pc = "end" /\ OpOK(o) /\ o.tgt = None /\ o.call # "gone"
                            /\ IpIn(o) = None
    BY <1>0, <2>1, GotoFacts DEF Labels
  <2>3. Rest(p)
    BY <1>0, <1>5 DEF Rest, TypeOK
  <2>4. \A x \in Inum : mem'[x].ref = mem[x].ref - Is(IpIn(op[p]), x) - Is(op[p].tgt, x)
                                       + Is(IpIn(o), x) + Is(o.tgt, x) + Is(i, x)
    BY <1>3, <1>4, <1>5, <2>2, IsFacts
  <2>5. /\ o.pc \in PutsAt /\ (o.pc \in {"opened", "unlink3"} => i # o.tgt)
        /\ \A x \in Inum : lock'[x] = p <=> (FALSE /\ x = i) \/ (o.pc \in {"opened", "unlink3"} /\ o.tgt = x)
    BY <2>2 DEF PutsAt
  <2>6. op'[p] = o
    BY <1>0, <2>2 DEF TypeOK
  <2>7. OpAlive(op[p])'
    BY <2>2, <2>6 DEF OpAlive
  <2> QED
    BY <1>0, <1>4, <1>5, <2>1, <2>2, <2>3, <2>4, <2>5, <2>7, StepPut
<1>6. CASE /\ filealloc # None /\ fdalloc(p) # None
           /\ file' = [file EXCEPT ![filealloc] = [ref |-> 1, ip |-> i, off |-> 0, writable |-> mode # "rdonly"]]
           /\ ofile' = [ofile EXCEPT ![p][fdalloc(p)] = filealloc]
           /\ \/ disk' = D /\ mem' = Known(mem, i, D.ino[i])
              \/ mem' = Known(mem, i, c) /\ disk' = disk
           /\ Goto(p, "end") /\ puts' = puts
  <2>1. disk' \in DiskType /\ mem' \in MemType /\ (\A x \in Inum : mem'[x].ref = mem[x].ref) /\ CopyInv' /\ OwnInodes(p)
    <3>1. CASE disk' = D /\ mem' = Known(mem, i, D.ino[i])
      <4>1. /\ D \in DiskType
            /\ D.ino = [disk.ino EXCEPT ![i] = [disk.ino[i] EXCEPT !.size = 0, !.addrs = Zero.addrs]]
            /\ D.ino[i] \in Dinode /\ D.ino[i].type = c.type
            /\ D.dir = [disk.dir EXCEPT ![i] = NoEntries]
        BY <1>0, TruncOne
      <4> HIDE DEF D
      <4>2. D.ino = [disk.ino EXCEPT ![i] = D.ino[i]] /\ \A x \in Inum \ {i} : D.dir[x] = disk.dir[x]
        BY <1>0, <4>1 DEF DiskType
      <4> QED
        BY <1>0, <1>2, <3>1, <4>1, <4>2, WriteKnown
    <3>2. CASE mem' = Known(mem, i, c) /\ disk' = disk
      BY <1>4, <3>2
    <3> QED
      BY <1>6, <3>1, <3>2
  <2>2. PICK o \in OpType : /\ op' = [op EXCEPT ![p] = o] /\ o.pc = "end" /\ OpOK(o) /\ o.tgt = None /\ o.call # "gone"
                            /\ IpIn(o) = None
    BY <1>0, <1>6, GotoFacts DEF Labels
  <2>3. PICK a \in File, b \in Fd : a = filealloc /\ b = fdalloc(p) /\ file[a].ref = 0 /\ ofile[p][b] = None
    BY <1>0, <1>6, AllocFacts
  <2>e. PICK e : e = [ref |-> 1, ip |-> i, off |-> 0, writable |-> mode # "rdonly"]
    OBVIOUS
  <2>4. file' = [file EXCEPT ![a] = e] /\ ofile' = [ofile EXCEPT ![p][b] = a]
    BY <1>6, <2>3, <2>e
  <2>5. /\ e.ref = 1 /\ e.ip = i /\ e \in [ref : Nat, ip : {None} \cup Inum, off : Nat, writable : BOOLEAN]
    BY <2>e
  <2>6. file' \in [File -> [ref : Nat, ip : {None} \cup Inum, off : Nat, writable : BOOLEAN]]
        /\ ofile' \in [Proc -> [Fd -> {None} \cup File]]
    BY <1>0, <2>3, <2>4, <2>5 DEF TypeOK
  <2>7. op'[p] = o /\ \A q \in Proc \ {p} : op'[q] = op[q] /\ ofile'[q] = ofile[q]
    BY <1>0, <2>2, <2>4 DEF TypeOK
  <2>8. TypeOK'
    BY <1>0, <1>6, <2>1, <2>2, <2>6 DEF TypeOK, MemType
  <2>9. Own(p)
    BY <1>6, <2>7 DEF Own
  <2>10. ProcOK(p)'
    BY <1>0, <1>1, <1>6, <2>2, <2>7, ConstFacts DEF ProcOK
  <2>11. FileInv'
    <3>1. e.ref = file[a].ref - Is(ofile[p][b], a) + Is(a, a)
      BY <2>3, <2>5, ConstFacts DEF Is
    <3>2. \A g \in File \ {a} : Is(ofile[p][b], g) = Is(a, g)
      BY <2>3, ConstFacts DEF Is
    <3>3. (e.ref = 0 => e = NoFile) /\ (e.ref > 0 => e.ip # None)
      BY <2>5, ConstFacts
    <3>4. /\ FileInv /\ a \in File /\ b \in Fd /\ file'[a] = e /\ ofile'[p][b] = a
          /\ \A g \in File \ {a} : file'[g] = file[g]
          /\ \A q \in Proc, x \in Fd : q # p \/ x # b => ofile'[q][x] = ofile[q][x]
      BY <1>0, <2>3, <2>4 DEF TypeOK
    <3> QED
      BY <3>1, <3>2, <3>3, <3>4, FileStep
  <2>12. file[a].ip = None /\ file'[a].ip = i /\ \A g \in File \ {a} : file'[g].ip = file[g].ip
    <3>1. file[a] = NoFile
      BY <1>0, <2>3 DEF FileInv
    <3>2. file'[a] = e /\ \A g \in File \ {a} : file'[g] = file[g]
      BY <1>0, <2>3, <2>4 DEF TypeOK
    <3> QED
      BY <2>5, <3>1, <3>2 DEF NoFile
  <2>13. RefInv'
    <3>1. \A x \in Inum : mem'[x].ref = mem[x].ref - Mine(p, x) + Mine(p, x)' - Is(file[a].ip, x) + Is(file'[a].ip, x)
      <4> SUFFICES ASSUME NEW x \in Inum
                   PROVE  mem'[x].ref = mem[x].ref - Mine(p, x) + Mine(p, x)' - Is(file[a].ip, x) + Is(file'[a].ip, x)
        OBVIOUS
      <4>1. Mine(p, x) = Is(cwd[p], x) + Is(IpIn(op[p]), x) + Is(op[p].tgt, x)
        BY <1>1, TallyFacts DEF Mine
      <4>2. Mine(p, x)' = Is(cwd[p], x) + Is(IpIn(o), x) + Is(o.tgt, x)
        BY <1>1, <1>6, <2>7, TallyFacts DEF Mine
      <4>3. Is(cwd[p], x) \in Nat /\ Is(IpIn(o), x) = 0 /\ Is(o.tgt, x) = 0 /\ Is(file[a].ip, x) = 0 /\ Is(file'[a].ip, x) = Is(i, x)
        BY <2>2, <2>12, IsFacts
      <4>4. mem'[x].ref = mem[x].ref /\ mem[x].ref \in Nat /\ Is(IpIn(op[p]), x) \in Nat /\ Is(op[p].tgt, x) \in Nat
            /\ Is(IpIn(op[p]), x) + Is(op[p].tgt, x) = Is(i, x)
        BY <1>3, <2>1
      <4> QED
        BY <4>1, <4>2, <4>3, <4>4
    <3>2. /\ \A q \in Proc \ {p} : op'[q] = op[q] /\ puts'[q] = puts[q] /\ cwd'[q] = cwd[q]
          /\ cwd' \in [Proc -> {None} \cup Inum]
      BY <1>0, <1>6, <2>7 DEF TypeOK
    <3> QED
      BY <1>0, <2>3, <2>12, <3>1, <3>2, RefFile
  <2>14. \A f \in File : file'[f].ip # None => file'[f].ip \in Live
    BY <1>0, <2>12 DEF AliveInv
  <2>15. OwnLocks(p)
    <3>1. \A x \in Inum : ~Locks(p, x)'
      BY <1>1, <1>6, <2>2, <2>7 DEF Locks, Holds
    <3>2. Apart(op'[p], puts'[p])
      BY <1>1, <1>6, <2>2, <2>7 DEF Apart
    <3> QED
      BY <3>1, <3>2 DEF OwnLocks
  <2>16. OpAlive(op[p])'
    BY <2>2, <2>7 DEF OpAlive
  <2>17. boot' = None /\ OpOK(op'[p]) /\ freeing'[p] # "trunc" /\ op'[p].pc # "fill"
    BY <1>1, <2>2, <2>7
  <2> QED
    BY <2>1, <2>8, <2>9, <2>10, <2>11, <2>13, <2>14, <2>15, <2>16, <2>17, CoreGen
<1> QED
  BY <1>2, <1>5, <1>6 DEF OpenFile

(* sys_open() of a file that is there keeps Core. *)
LEMMA OpenCore ==
  ASSUME Core, NEW p \in Proc, Open(p)
  PROVE  Core'
<1> DEFINE i == op[p].ip
<1>0. TypeOK /\ "open" \in Labels /\ At(p, "open") /\ ilock(i)
  BY DEF Core, Labels, Open
<1>1. /\ op[p] \in OpType /\ OpOK(op[p]) /\ op[p].pc = "open" /\ i \in Inum /\ puts[p] = <<>>
  BY <1>0, AtFacts DEF HasIp, Labels
<1>2. IpIn(op[p]) = i /\ op[p].tgt = None
  BY <1>1 DEF IpIn, HasIp, HasTgt, OpOK
<1>3. i \in Live /\ lock[i] = NoProc
  BY <1>0, <1>1, LockedLive
<1>4. PICK mode \in Modes, valid \in BOOLEAN : OpenFile(p, i, mode, valid)
  BY DEF Open
<1>5. \A x \in Inum : lock[x] # p
  BY <1>1, NoLocks
<1>6. UNCHANGED <<durable, lock, cwd, alive, freeing, out, boot, stray>>
  BY DEF Open
<1>7. \A x \in Inum : Is(IpIn(op[p]), x) + Is(op[p].tgt, x) = Is(i, x)
  BY <1>2, IsFacts
<1>8. lock' \in [Inum -> Proc \cup {NoProc}]
  BY <1>0, <1>6 DEF TypeOK
<1> QED
  BY <1>0, <1>1, <1>3, <1>4, <1>5, <1>6, <1>7, <1>8, OpenFileCore

(* sys_open() of a file that create() made keeps Core. *)
LEMMA OpenCreatedCore ==
  ASSUME Core, NEW p \in Proc, OpenCreated(p)
  PROVE  Core'
<1> DEFINE i == op[p].tgt
<1>0. TypeOK /\ "opened" \in Labels /\ At(p, "opened") /\ AliveInv /\ LockInv
  BY DEF Core, Labels, OpenCreated
<1>1. /\ op[p] \in OpType /\ OpOK(op[p]) /\ op[p].pc = "opened" /\ i \in Inum /\ puts[p] = <<>> /\ OpAlive(op[p])
  BY <1>0, AtFacts DEF OpOK, HasTgt, Labels, AliveInv
<1>2. IpIn(op[p]) = None
  BY <1>1 DEF IpIn, HasIp
<1>3. i \in Live
  BY <1>1 DEF OpAlive
<1>4. PICK mode \in Modes, valid \in BOOLEAN : OpenFile(p, i, mode, valid)
  BY DEF OpenCreated
<1>5. \A x \in Inum : lock[x] = p <=> x = i
  BY <1>0, <1>1 DEF LockInv, Locks, Holds
<1>6. UNCHANGED <<durable, cwd, alive, freeing, out, boot, stray>> /\ lock' = [lock EXCEPT ![i] = NoProc]
  BY DEF OpenCreated
<1>7. \A x \in Inum : Is(IpIn(op[p]), x) + Is(op[p].tgt, x) = Is(i, x)
  BY <1>2, IsFacts
<1>8. /\ lock' \in [Inum -> Proc \cup {NoProc}]
      /\ \A x \in Inum : lock'[x] = lock[x] \/ (lock[x] \in {p, NoProc} /\ lock'[x] \in {p, NoProc})
      /\ \A x \in Inum : lock'[x] # p
  BY <1>0, <1>1, <1>5, <1>6, FsAssumption DEF TypeOK
<1> QED
  BY <1>0, <1>1, <1>3, <1>4, <1>5, <1>6, <1>7, <1>8, OpenFileCore

(* A descriptor that is open. *)
LEMMA OpenDesc ==
  ASSUME Core, NEW p \in Proc, NEW d \in argfd(p)
  PROVE  /\ d \in Fd /\ ofile[p][d] \in File /\ file[ofile[p][d]].ref \in Nat /\ file[ofile[p][d]].ref > 0
         /\ file[ofile[p][d]].ip \in Inum /\ file[ofile[p][d]].ip \in Live
         /\ p \in alive /\ op[p].call # "gone"
<1> DEFINE f == ofile[p][d]
<1>1. d \in Fd /\ f # None /\ f \in File /\ TypeOK /\ FileInv /\ PcInv /\ AliveInv
  BY DEF Core, argfd, TypeOK
<1>2. IsFiniteSet(Proc \X Fd) /\ DOMAIN Descriptor = Proc \X Fd /\ <<p, d>> \in Proc \X Fd /\ Descriptor[<<p, d>>] = f
  BY <1>1, FiniteFacts, FS_Product DEF Descriptor
<1>3. Occ(Descriptor, f) \in Nat /\ Occ(Descriptor, f) # 0
  BY <1>2, OccSome
<1>4. file[f].ref = Occ(Descriptor, f) /\ file[f].ref > 0 /\ file[f].ref \in Nat
  BY <1>1, <1>3 DEF FileInv
<1>5. file[f].ip # None
  BY <1>1, <1>4 DEF FileInv
<1>6. file[f].ip \in Inum /\ file[f].ip \in Live
  BY <1>1, <1>5 DEF TypeOK, AliveInv
<1>7. p \in alive /\ op[p].call # "gone"
  BY <1>1 DEF PcInv, ProcOK
<1> QED
  BY <1>1, <1>4, <1>6, <1>7

FileType == [File -> [ref : Nat, ip : {None} \cup Inum, off : Nat, writable : BOOLEAN]]
OfileType == [Proc -> [Fd -> {None} \cup File]]

(* A step of p between two calls: it is about an open file and its inode. *)
LEMMA IdleStep ==
  ASSUME Core, NEW p \in Proc, At(p, "idle"), UNCHANGED <<lock, cwd, alive, op, puts, freeing, out, boot, stray>>,
         p \in alive, op[p].call # "gone",
         disk' \in DiskType, durable' \in DiskType, mem' \in MemType, file' \in FileType, ofile' \in OfileType,
         \A q \in Proc \ {p} : ofile'[q] = ofile[q], FileInv',
         \A f \in File : file'[f].ip = file[f].ip, \A x \in Inum : mem'[x].ref = mem[x].ref,
         CopyInv', OwnInodes(p)
  PROVE  Core'
<1>0. TypeOK /\ PcInv /\ LockInv
  BY DEF Core
<1>1. puts[p] = <<>> /\ boot = None /\ op[p].pc = "idle" /\ OpOK(op[p]) /\ ProcOK(p) /\ freeing[p] = "no"
  BY <1>0 DEF At, PcInv, ProcOK, TypeOK
<1>2. TypeOK'
  BY <1>0 DEF TypeOK, MemType, FileType, OfileType
<1>3. Own(p)
  BY DEF Own
<1>4. ProcOK(p)'
  BY <1>1 DEF ProcOK
<1>5. \A x \in Inum : Mine(p, x)' = Mine(p, x) /\ Mine(p, x) \in Nat /\ mem[x].ref \in Nat
  BY <1>0, IsFacts DEF Mine, Tally, TypeOK
<1>6. \A x \in Inum : mem'[x].ref = mem[x].ref - Mine(p, x) + Mine(p, x)'
  BY <1>5
<1>7. OwnLocks(p)
  BY <1>0 DEF OwnLocks, LockInv, Locks
<1>8. OpAlive(op[p])'
  BY <1>1 DEF OpAlive
<1>9. boot' = None /\ OpOK(op'[p]) /\ freeing'[p] # "trunc" /\ op'[p].pc # "fill"
  BY <1>1
<1> QED
  BY <1>2, <1>3, <1>4, <1>6, <1>7, <1>8, <1>9, CoreStep

(* Nothing about files changes but an offset. *)
LEMMA FileOff ==
  ASSUME FileInv, ofile' = ofile,
         \A f \in File : \/ file'[f] = file[f]
                         \/ file'[f].ref = file[f].ref /\ file'[f].ip = file[f].ip /\ file[f].ref > 0
  PROVE  FileInv' /\ \A f \in File : file'[f].ip = file[f].ip
<1>1. Descriptor' = Descriptor
  BY DEF Descriptor
<1> SUFFICES ASSUME NEW f \in File
             PROVE  /\ file'[f].ref = Occ(Descriptor', f)
                    /\ file'[f].ref = 0 => file'[f] = NoFile
                    /\ file'[f].ref > 0 => file'[f].ip # None
                    /\ file'[f].ip = file[f].ip
  BY DEF FileInv
<1>2. /\ file[f].ref = Occ(Descriptor, f) /\ (file[f].ref = 0 => file[f] = NoFile) /\ (file[f].ref > 0 => file[f].ip # None)
  BY DEF FileInv
<1> QED
  BY <1>1, <1>2

(* sys_fstat() keeps Core. *)
LEMMA FstatCore ==
  ASSUME Core, NEW p \in Proc, Fstat(p)
  PROVE  Core'
<1>0. TypeOK /\ FileInv
  BY DEF Core
<1>1. /\ At(p, "idle") /\ UNCHANGED <<disk, durable, lock, file, ofile, cwd, alive, op, puts, freeing, out, boot, stray>>
  BY DEF Fstat, procvars
<1>2. PICK d \in argfd(p) : ilock(file[ofile[p][d]].ip) /\ mem' = Known(mem, file[ofile[p][d]].ip, Copy(file[ofile[p][d]].ip))
  BY DEF Fstat
<1>3. file[ofile[p][d]].ip \in Inum /\ p \in alive /\ op[p].call # "gone"
  BY OpenDesc
<1>4. mem' \in MemType /\ (\A x \in Inum : mem'[x].ref = mem[x].ref) /\ CopyInv' /\ OwnInodes(p)
  BY <1>1, <1>2, <1>3, ReadKnown
<1>5. FileInv' /\ disk' \in DiskType /\ durable' \in DiskType /\ file' \in FileType /\ ofile' \in OfileType
  BY <1>0, <1>1, FileSame DEF TypeOK, FileType, OfileType
<1> QED
  BY <1>1, <1>3, <1>4, <1>5, IdleStep

(* sys_read() keeps Core. *)
LEMMA ReadCore ==
  ASSUME Core, NEW p \in Proc, Read(p)
  PROVE  Core'
<1>0. TypeOK /\ FileInv
  BY DEF Core
<1>1. /\ At(p, "idle") /\ UNCHANGED <<disk, durable, lock, ofile, cwd, alive, op, puts, freeing, out, boot, stray>>
  BY DEF Read, procvars
<1>2. PICK d \in argfd(p) :
        LET f == ofile[p][d] IN
        /\ ilock(file[f].ip)
        /\ mem' = Known(mem, file[f].ip, Copy(file[f].ip))
        /\ file' = [file EXCEPT ![f].off = @ + 1]
  BY DEF Read
<1>3. /\ file[ofile[p][d]].ip \in Inum /\ p \in alive /\ op[p].call # "gone" /\ ofile[p][d] \in File
      /\ file[ofile[p][d]].ref > 0
  BY OpenDesc
<1>4. mem' \in MemType /\ (\A x \in Inum : mem'[x].ref = mem[x].ref) /\ CopyInv' /\ OwnInodes(p)
  BY <1>1, <1>2, <1>3, ReadKnown
<1> DEFINE f == ofile[p][d]
<1>5. f \in File /\ file[f].ref > 0 /\ file' = [file EXCEPT ![f].off = @ + 1]
  BY <1>2, <1>3
<1> HIDE DEF f
<1>6. /\ file' \in FileType
      /\ \A g \in File : \/ file'[g] = file[g]
                         \/ file'[g].ref = file[g].ref /\ file'[g].ip = file[g].ip /\ file[g].ref > 0
  <2> DEFINE n == file[f].off + 1
  <2>1. n \in Nat /\ file' = [file EXCEPT ![f].off = n]
    BY <1>0, <1>5 DEF TypeOK
  <2> HIDE DEF n
  <2>2. f \in File /\ file[f].ref > 0
    BY <1>5
  <2>3. /\ file' \in FileType /\ file'[f].ref = file[f].ref /\ file'[f].ip = file[f].ip
        /\ \A g \in File \ {f} : file'[g] = file[g]
    BY <1>0, <2>1, <2>2 DEF TypeOK, FileType
  <2> QED
    BY <2>2, <2>3
<1>7. FileInv' /\ \A g \in File : file'[g].ip = file[g].ip
  BY <1>0, <1>1, <1>6, FileOff
<1>8. disk' \in DiskType /\ durable' \in DiskType /\ ofile' \in OfileType
  BY <1>0, <1>1 DEF TypeOK, OfileType
<1> QED
  BY <1>1, <1>3, <1>4, <1>6, <1>7, <1>8, IdleStep

(* filewrite(): what becomes of the inode i and of the disk. *)
LEMMA WriteFacts ==
  ASSUME Core, NEW p \in Proc, Write(p)
  PROVE  \E i \in Inum, f \in File : \E c :
           /\ ilock(i) /\ lock[i] = NoProc /\ disk.ino[i].type = "file"
           /\ Rewritten(disk, i, disk', c) /\ disk'.dir = disk.dir /\ mem' = Known(mem, i, c)
           /\ file[f].ref > 0
           /\ file' \in FileType /\ file'[f].ref = file[f].ref /\ file'[f].ip = file[f].ip
           /\ \A g \in File \ {f} : file'[g] = file[g]
           /\ p \in alive /\ op[p].call # "gone"
<1>0. TypeOK /\ disk \in DiskType
  BY DEF Core, TypeOK
<1>1. PICK d \in argfd(p), copied \in BOOLEAN :
       LET f == ofile[p][d] IN
       /\ ilock(file[f].ip)
       /\ Copy(file[f].ip).type = "file"
       /\ LET i == file[f].ip
              w == writei(disk, i, Copy(i), file[f].off, copied)
          IN /\ disk' = w.D
             /\ mem' = Known(mem, i, w.c)
             /\ file' = [file EXCEPT ![f].off = IF w.ok THEN @ + 1 ELSE @]
  BY DEF Write
<1>2. PICK f \in File, i \in Inum : f = ofile[p][d] /\ i = file[f].ip /\ file[f].ref > 0 /\ p \in alive /\ op[p].call # "gone"
  BY OpenDesc
<1>3. ilock(i) /\ Copy(i).type = "file"
  BY <1>1, <1>2
<1>4. lock[i] = NoProc /\ Copy(i) = disk.ino[i]
  BY <1>3, LockedLive
<1>5. file[f].off \in Nat
  BY <1>0 DEF TypeOK
<1> DEFINE w == writei(disk, i, disk.ino[i], file[f].off, copied)
<1>6. /\ disk' = w.D /\ mem' = Known(mem, i, w.c)
      /\ file' = [file EXCEPT ![f].off = IF w.ok THEN @ + 1 ELSE @]
  BY <1>1, <1>2, <1>4
<1>7. Rewritten(disk, i, w.D, w.c) /\ w.D.dir = disk.dir
  BY <1>0, <1>5, WriteOne
<1> HIDE DEF w
<1>8. /\ file' \in FileType /\ file'[f].ref = file[f].ref /\ file'[f].ip = file[f].ip
      /\ \A g \in File \ {f} : file'[g] = file[g]
  <2> DEFINE n == IF w.ok THEN file[f].off + 1 ELSE file[f].off
  <2>1. n \in Nat /\ file' = [file EXCEPT ![f].off = n]
    BY <1>5, <1>6
  <2> HIDE DEF n
  <2> QED
    BY <1>0, <2>1 DEF TypeOK, FileType
<1>9. Rewritten(disk, i, disk', w.c) /\ disk'.dir = disk.dir /\ mem' = Known(mem, i, w.c) /\ disk.ino[i].type = "file"
  BY <1>3, <1>4, <1>6, <1>7
<1> QED
  BY <1>2, <1>3, <1>4, <1>8, <1>9

(* sys_write() keeps Core. *)
LEMMA WriteCore ==
  ASSUME Core, NEW p \in Proc, Write(p)
  PROVE  Core'
<1>0. TypeOK /\ FileInv
  BY DEF Core
<1>1. /\ At(p, "idle") /\ UNCHANGED <<lock, ofile, cwd, alive, op, puts, freeing, out, boot, stray>>
      /\ durable' = disk' \/ durable' = durable
  BY DEF Write, procvars
<1>2. PICK i \in Inum, f \in File : \E c :
           /\ ilock(i) /\ lock[i] = NoProc /\ disk.ino[i].type = "file"
           /\ Rewritten(disk, i, disk', c) /\ disk'.dir = disk.dir /\ mem' = Known(mem, i, c)
           /\ file[f].ref > 0
           /\ file' \in FileType /\ file'[f].ref = file[f].ref /\ file'[f].ip = file[f].ip
           /\ \A g \in File \ {f} : file'[g] = file[g]
           /\ p \in alive /\ op[p].call # "gone"
  BY WriteFacts
<1>a. PICK c : Rewritten(disk, i, disk', c) /\ disk'.dir = disk.dir /\ mem' = Known(mem, i, c)
  BY <1>2
<1>3. disk' \in DiskType /\ c \in Dinode /\ c.type = disk.ino[i].type /\ disk'.ino = [disk.ino EXCEPT ![i] = c]
  BY <1>a DEF Rewritten
<1>4. mem' \in MemType /\ (\A x \in Inum : mem'[x].ref = mem[x].ref) /\ CopyInv' /\ OwnInodes(p)
  BY <1>2, <1>a, <1>3, WriteKnown
<1>5. FileInv' /\ \A g \in File : file'[g].ip = file[g].ip
  BY <1>0, <1>1, <1>2, FileOff
<1>6. durable' \in DiskType /\ ofile' \in OfileType
  BY <1>0, <1>1, <1>3 DEF TypeOK, OfileType
<1> QED
  BY <1>1, <1>2, <1>3, <1>4, <1>5, <1>6, IdleStep

(* sys_dup() keeps Core. *)
LEMMA DupCore ==
  ASSUME Core, NEW p \in Proc, Dup(p)
  PROVE  Core'
<1>0. TypeOK /\ FileInv
  BY DEF Core
<1>1. /\ At(p, "idle") /\ UNCHANGED <<disk, durable, mem, lock, cwd, alive, op, puts, freeing, out, boot, stray>>
      /\ fdalloc(p) # None
  BY DEF Dup
<1>2. PICK d \in argfd(p) : /\ ofile' = [ofile EXCEPT ![p][fdalloc(p)] = ofile[p][d]]
                            /\ file' = filedup(ofile[p][d])
  BY DEF Dup
<1>3. PICK f \in File : f = ofile[p][d] /\ file[f].ref > 0 /\ p \in alive /\ op[p].call # "gone" /\ file[f].ip \in Inum
  BY OpenDesc
<1>4. PICK b \in Fd : b = fdalloc(p) /\ ofile[p][b] = None
  BY <1>0, <1>1, AllocFacts
<1>5. ofile' = [ofile EXCEPT ![p][b] = f] /\ file' = [file EXCEPT ![f].ref = @ + 1]
  BY <1>2, <1>3, <1>4 DEF filedup
<1>6. PICK e : e = file'[f]
  OBVIOUS
<1>7. /\ file' \in FileType /\ e.ref = file[f].ref + 1 /\ e.ip = file[f].ip /\ file[f].ref \in Nat
      /\ \A g \in File \ {f} : file'[g] = file[g]
  <2> DEFINE n == file[f].ref + 1
  <2>1. n \in Nat /\ file' = [file EXCEPT ![f].ref = n]
    BY <1>0, <1>5 DEF TypeOK
  <2>2. file[f].ref \in Nat /\ n = file[f].ref + 1
    BY <1>0 DEF TypeOK
  <2> HIDE DEF n
  <2>3. /\ file' \in FileType /\ e.ref = n /\ e.ip = file[f].ip
        /\ \A g \in File \ {f} : file'[g] = file[g]
    BY <1>0, <1>6, <2>1 DEF TypeOK, FileType
  <2> QED
    BY <2>2, <2>3
<1>8. /\ ofile' \in OfileType /\ ofile'[p][b] = f /\ (\A q \in Proc \ {p} : ofile'[q] = ofile[q])
      /\ \A q \in Proc, c \in Fd : q # p \/ c # b => ofile'[q][c] = ofile[q][c]
  BY <1>0, <1>5 DEF TypeOK, OfileType
<1>9. /\ e.ref = file[f].ref - Is(ofile[p][b], f) + Is(f, f)
      /\ (e.ref = 0 => e = NoFile) /\ (e.ref > 0 => e.ip # None)
      /\ \A g \in File \ {f} : Is(ofile[p][b], g) = Is(f, g)
  BY <1>3, <1>4, <1>7, ConstFacts DEF Is
<1>10. FileInv'
  BY <1>0, <1>6, <1>7, <1>8, <1>9, FileStep
<1>11. mem' \in MemType /\ CopyInv' /\ OwnInodes(p) /\ \A x \in Inum : mem'[x].ref = mem[x].ref
  BY <1>1, MemSame
<1>12. \A g \in File : file'[g].ip = file[g].ip
  BY <1>6, <1>7
<1>13. disk' \in DiskType /\ durable' \in DiskType
  BY <1>0, <1>1 DEF TypeOK
<1> QED
  BY <1>1, <1>3, <1>7, <1>8, <1>10, <1>11, <1>12, <1>13, IdleStep

(* A step of p outside the inodes: p holds no lock before and none after it. *)
LEMMA Quiet ==
  ASSUME Core, NEW p \in Proc, puts[p] = <<>>, boot = None, op[p].pc \in {"idle", "exit", "end"},
         NEW o \in OpType, op' = [op EXCEPT ![p] = o], o.pc \in {"idle", "exit", "end"}, OpOK(o),
         NEW s \in Seq([i : Inum, unlock : BOOLEAN]), puts' = [puts EXCEPT ![p] = s],
         Len(s) <= 1, s # <<>> => ~s[1].unlock,
         UNCHANGED <<disk, mem, lock, freeing, boot, stray>>, TypeOK', ProcOK(p)',
         \A q \in Proc \ {p} : /\ cwd'[q] = cwd[q] /\ ofile'[q] = ofile[q]
                               /\ (q \in alive' <=> q \in alive) /\ (q \in out' <=> q \in out),
         FileInv', RefInv', \A f \in File : file'[f].ip # None => file'[f].ip \in Live
  PROVE  Core'
<1>0. TypeOK /\ PcInv
  BY DEF Core
<1>1. /\ op'[p] = o /\ puts'[p] = s /\ freeing[p] = "no"
      /\ \A q \in Proc \ {p} : op'[q] = op[q] /\ puts'[q] = puts[q]
  BY <1>0 DEF TypeOK, PcInv, ProcOK
<1>2. Own(p)
  BY <1>1 DEF Own
<1>3. \A x \in Inum : lock[x] # p
  BY NoLocks
<1>4. \A x \in Inum : ~Locks(p, x)'
  BY <1>1 DEF Locks, Holds
<1>5. Apart(op'[p], puts'[p])
  BY <1>1 DEF Apart
<1>6. OwnLocks(p)
  BY <1>3, <1>4, <1>5 DEF OwnLocks
<1>7. CopyInv' /\ OwnInodes(p)
  BY MemSame
<1>8. OpAlive(op[p])'
  BY <1>1 DEF OpAlive
<1>9. boot' = None /\ OpOK(op'[p]) /\ freeing'[p] # "trunc" /\ op'[p].pc # "fill"
  BY <1>1
<1> QED
  BY <1>2, <1>6, <1>7, <1>8, <1>9, CoreGen

(* Nothing to put. *)
LEMMA EmptyPuts ==
  ASSUME TypeOK, NEW p \in Proc, puts[p] = <<>>
  PROVE  <<>> \in Seq([i : Inum, unlock : BOOLEAN]) /\ Len(<<>>) = 0 /\ puts = [puts EXCEPT ![p] = <<>>]
<1>1. puts = [puts EXCEPT ![p] = <<>>]
  BY DEF TypeOK
<1>2. <<>> \in Seq([i : Inum, unlock : BOOLEAN]) /\ Len(<<>>) = 0
  OBVIOUS
<1> QED
  BY <1>1, <1>2

(* References that no step touches stay counted. *)
LEMMA RefSame ==
  ASSUME Core, NEW p \in Proc, NEW o \in OpType, op' = [op EXCEPT ![p] = o], IpIn(o) = IpIn(op[p]), o.tgt = op[p].tgt,
         UNCHANGED <<mem, puts, cwd>>, \A f \in File : file'[f].ip = file[f].ip
  PROVE  RefInv'
<1>0. TypeOK /\ RefInv
  BY DEF Core
<1>1. op'[p] = o /\ \A q \in Proc \ {p} : op'[q] = op[q] /\ puts'[q] = puts[q] /\ cwd'[q] = cwd[q]
  BY <1>0 DEF TypeOK
<1>2. \A x \in Inum : Mine(p, x)' = Mine(p, x) /\ Mine(p, x) \in Nat /\ mem[x].ref \in Nat
  BY <1>0, <1>1, IsFacts DEF Mine, Tally, TypeOK
<1>3. \A x \in Inum : mem'[x].ref = mem[x].ref - Mine(p, x) + Mine(p, x)'
  BY <1>2
<1>4. cwd' \in [Proc -> {None} \cup Inum]
  BY <1>0 DEF TypeOK
<1> QED
  BY <1>0, <1>1, <1>3, <1>4, RefStep

(* A process in kexit(). *)
LEMMA ExitType ==
  LET o == [Idle EXCEPT !.call = "exit", !.pc = "exit"] IN
  o \in OpType /\ o.pc = "exit" /\ o.call = "exit" /\ o.tgt = None /\ OpOK(o) /\ IpIn(o) = None
<1> DEFINE o == [Idle EXCEPT !.call = "exit", !.pc = "exit"]
<1>1. o \in OpType /\ o.pc = "exit" /\ o.call = "exit" /\ o.tgt = None
  BY IdleType DEF OpType, Labels
<1> HIDE DEF o
<1>2. OpOK(o) /\ IpIn(o) = None
  BY <1>1 DEF OpOK, IpIn, HasIp, HasTgt
<1> QED
  BY <1>1, <1>2 DEF o

(* The start of kexit() keeps Core. *)
LEMMA ExitCore ==
  ASSUME Core, NEW p \in Proc, Exit(p)
  PROVE  Core'
<1>0. TypeOK /\ PcInv /\ FileInv /\ AliveInv
  BY DEF Core
<1>1. At(p, "idle") /\ p \in alive /\ UNCHANGED <<disk, durable, mem, lock, file, ofile, cwd, alive, puts, freeing, out, boot, stray>>
  BY DEF Exit, procvars
<1>2. PICK o \in OpType : /\ op' = [op EXCEPT ![p] = o] /\ o.pc = "exit" /\ o.call = "exit" /\ o.tgt = None
                          /\ OpOK(o) /\ IpIn(o) = None
  BY ExitType DEF Exit
<1>3. puts[p] = <<>> /\ boot = None /\ op[p].pc = "idle" /\ ProcOK(p) /\ op[p].call # "gone" /\ cwd[p] # None
      /\ op[p].tgt = None /\ IpIn(op[p]) = None
  BY <1>0, <1>1 DEF At, PcInv, ProcOK, OpOK, HasTgt, IpIn, HasIp
<1>4. op'[p] = o
  BY <1>0, <1>2 DEF TypeOK
<1>5. TypeOK'
  BY <1>0, <1>1, <1>2 DEF TypeOK
<1>6. ProcOK(p)'
  BY <1>1, <1>2, <1>3, <1>4 DEF ProcOK
<1>7. FileInv' /\ RefInv'
  BY <1>0, <1>1, <1>2, <1>3, FileSame, RefSame
<1>8. \A f \in File : file'[f].ip # None => file'[f].ip \in Live
  BY <1>0, <1>1 DEF AliveInv
<1>9. PICK s \in Seq([i : Inum, unlock : BOOLEAN]) : s = <<>> /\ Len(s) = 0 /\ puts' = [puts EXCEPT ![p] = s]
  BY <1>0, <1>1, <1>3, EmptyPuts
<1>10. Len(s) <= 1 /\ (s # <<>> => ~s[1].unlock)
  BY <1>9
<1>11. puts' = [puts EXCEPT ![p] = s] /\ op' = [op EXCEPT ![p] = o]
  BY <1>9, <1>2, Zenon
<1>12. /\ puts[p] = <<>> /\ boot = None /\ op[p].pc \in {"idle", "exit", "end"} /\ o.pc \in {"idle", "exit", "end"}
       /\ OpOK(o) /\ UNCHANGED <<disk, mem, lock, freeing, boot, stray>>
       /\ \A q \in Proc \ {p} : /\ cwd'[q] = cwd[q] /\ ofile'[q] = ofile[q]
                                /\ (q \in alive' <=> q \in alive) /\ (q \in out' <=> q \in out)
  BY <1>1, <1>2, <1>3
<1> QED
  BY <1>5, <1>6, <1>7, <1>8, <1>10, <1>11, <1>12, Quiet

(* end_op() *)
LEMMA EndCore ==
  ASSUME Core, NEW p \in Proc, End(p)
  PROVE  Core'
<1>0. TypeOK /\ PcInv /\ FileInv /\ AliveInv /\ "end" \in Labels
  BY DEF Core, Labels
<1>1. /\ At(p, "end") /\ UNCHANGED <<disk, mem, lock, file, ofile, cwd, puts, freeing, boot, stray>>
      /\ out' = out \ {p} /\ durable' \in {disk, durable} /\ alive' = IF op[p].call = "gone" THEN alive \ {p} ELSE alive
  BY DEF End
<1>2. PICK o \in OpType : /\ op' = [op EXCEPT ![p] = o] /\ o.pc \in {"idle", "exit"} /\ o.tgt = None
                          /\ OpOK(o) /\ IpIn(o) = None /\ o.call # "gone" /\ (o.pc = "exit" => op[p].call = "exit")
  <2>1. CASE op[p].call = "exit"
    <3>1. op' = [op EXCEPT ![p] = [Idle EXCEPT !.call = "exit", !.pc = "exit"]]
      BY <2>1 DEF End
    <3> QED
      BY <2>1, <3>1, ExitType
  <2>2. CASE op[p].call # "exit"
    <3>1. op' = [op EXCEPT ![p] = Idle]
      BY <2>2 DEF End
    <3>2. Idle \in OpType /\ Idle.pc = "idle" /\ Idle.tgt = None /\ Idle.call = "none"
      BY IdleType
    <3> DEFINE I == Idle
    <3> HIDE DEF I
    <3>3. OpOK(Idle) /\ IpIn(Idle) = None
      BY <3>2 DEF OpOK, IpIn, HasIp, HasTgt
    <3> QED
      BY <3>1, <3>2, <3>3
  <2> QED
    BY <2>1, <2>2
<1>3. puts[p] = <<>> /\ boot = None /\ op[p].pc = "end" /\ ProcOK(p) /\ p \in alive
      /\ op[p].tgt = None /\ IpIn(op[p]) = None
  BY <1>0, <1>1 DEF At, PcInv, ProcOK, OpOK, HasTgt, IpIn, HasIp
<1>4. op'[p] = o
  BY <1>0, <1>2 DEF TypeOK
<1>5. TypeOK'
  BY <1>0, <1>1, <1>2 DEF TypeOK
<1>6. ProcOK(p)'
  BY <1>1, <1>2, <1>3, <1>4 DEF ProcOK
<1>7. FileInv' /\ RefInv'
  BY <1>0, <1>1, <1>2, <1>3, FileSame, RefSame
<1>8. \A f \in File : file'[f].ip # None => file'[f].ip \in Live
  BY <1>0, <1>1 DEF AliveInv
<1>9. PICK s \in Seq([i : Inum, unlock : BOOLEAN]) : s = <<>> /\ Len(s) = 0 /\ puts' = [puts EXCEPT ![p] = s]
  BY <1>0, <1>1, <1>3, EmptyPuts
<1>10. Len(s) <= 1 /\ (s # <<>> => ~s[1].unlock)
  BY <1>9
<1>11. puts' = [puts EXCEPT ![p] = s] /\ op' = [op EXCEPT ![p] = o]
  BY <1>9, <1>2, Zenon
<1>12. /\ puts[p] = <<>> /\ boot = None /\ op[p].pc \in {"idle", "exit", "end"} /\ o.pc \in {"idle", "exit", "end"}
       /\ OpOK(o) /\ UNCHANGED <<disk, mem, lock, freeing, boot, stray>>
       /\ \A q \in Proc \ {p} : /\ cwd'[q] = cwd[q] /\ ofile'[q] = ofile[q]
                                /\ (q \in alive' <=> q \in alive) /\ (q \in out' <=> q \in out)
  BY <1>1, <1>2, <1>3
<1> QED
  BY <1>5, <1>6, <1>7, <1>8, <1>10, <1>11, <1>12, Quiet

(* kexit() that gives up its directory keeps Core. *)
LEMMA ExitCwdCore ==
  ASSUME Core, NEW p \in Proc, ExitCwd(p)
  PROVE  Core'
<1>0. TypeOK /\ PcInv /\ FileInv /\ AliveInv /\ RefInv /\ "exit" \in Labels
  BY DEF Core, Labels
<1>1. /\ At(p, "exit") /\ UNCHANGED <<disk, durable, mem, lock, file, ofile, alive, freeing, boot, stray>>
      /\ out' = out \cup {p} /\ puts' = [puts EXCEPT ![p] = <<Put(cwd[p])>>] /\ cwd' = [cwd EXCEPT ![p] = None]
      /\ op' = [op EXCEPT ![p].pc = "end", ![p].call = "gone"] /\ argfd(p) = {}
  BY DEF ExitCwd
<1>3. puts[p] = <<>> /\ boot = None /\ op[p].pc = "exit" /\ ProcOK(p) /\ p \in alive /\ op[p].call # "gone"
      /\ op[p].tgt = None /\ IpIn(op[p]) = None /\ cwd[p] \in Inum /\ op[p] \in OpType
  BY <1>0, <1>1 DEF At, PcInv, ProcOK, OpOK, HasTgt, IpIn, HasIp, TypeOK
<1>2. PICK o \in OpType : /\ op' = [op EXCEPT ![p] = o] /\ o.pc = "end" /\ o.tgt = None /\ o.call = "gone"
  <2> DEFINE o == [op[p] EXCEPT !.pc = "end", !.call = "gone"]
  <2>1. op' = [op EXCEPT ![p] = o]
    BY <1>0, <1>1 DEF TypeOK
  <2>2. o \in OpType /\ o.pc = "end" /\ o.tgt = None /\ o.call = "gone"
    BY <1>3 DEF OpType, Labels
  <2> QED
    BY <2>1, <2>2
<1>4. op'[p] = o /\ cwd'[p] = None /\ OpOK(o) /\ IpIn(o) = None
  BY <1>0, <1>1, <1>2 DEF TypeOK, OpOK, IpIn, HasIp, HasTgt
<1>5. PICK s : s = <<Put(cwd[p])>>
  OBVIOUS
<1>6. s \in Seq([i : Inum, unlock : BOOLEAN]) /\ Len(s) = 1 /\ s # <<>> /\ ~s[1].unlock
      /\ FirstIn(s) = cwd[p] /\ SecondIn(s) = None
  BY <1>3, <1>5, PutFacts
<1>7. puts' = [puts EXCEPT ![p] = s] /\ puts'[p] = s
  BY <1>0, <1>1, <1>5 DEF TypeOK
<1>8. TypeOK'
  <2>1. op' \in [Proc -> OpType]
    BY <1>0, <1>2 DEF TypeOK
  <2>2. puts' \in [Proc -> Seq([i : Inum, unlock : BOOLEAN])]
    BY <1>0, <1>6, <1>7 DEF TypeOK
  <2>3. cwd' \in [Proc -> {None} \cup Inum] /\ out' \in SUBSET Proc
    BY <1>0, <1>1 DEF TypeOK
  <2>4. UNCHANGED <<disk, durable, mem, lock, file, ofile, alive, freeing, boot, stray>>
    BY <1>1
  <2> QED
    BY <1>0, <2>1, <2>2, <2>3, <2>4 DEF TypeOK
<1>9. ProcOK(p)'
  BY <1>1, <1>2, <1>3, <1>4, <1>6, <1>7 DEF ProcOK, PutsAt, argfd
<1>10. RefInv'
  <2>1. \A q \in Proc \ {p} : op'[q] = op[q] /\ puts'[q] = puts[q] /\ cwd'[q] = cwd[q]
    BY <1>0, <1>1, <1>2, <1>7 DEF TypeOK
  <2>2. \A x \in Inum : mem'[x].ref = mem[x].ref - Mine(p, x) + Mine(p, x)'
    <3> SUFFICES ASSUME NEW x \in Inum PROVE mem'[x].ref = mem[x].ref - Mine(p, x) + Mine(p, x)'
      OBVIOUS
    <3>1. Mine(p, x) = Is(cwd[p], x) + Is(IpIn(op[p]), x) + Is(op[p].tgt, x)
      BY <1>3, TallyFacts DEF Mine
    <3>2. Mine(p, x)' = Is(None, x) + Is(IpIn(o), x) + Is(o.tgt, x) + Is(cwd[p], x)
      BY <1>4, <1>6, <1>7, TallyFacts DEF Mine
    <3>3. mem[x].ref \in Nat /\ Is(None, x) = 0 /\ Is(cwd[p], x) \in Nat /\ Is(IpIn(op[p]), x) = 0 /\ Is(op[p].tgt, x) = 0
          /\ Is(IpIn(o), x) = 0 /\ Is(o.tgt, x) = 0
      BY <1>0, <1>2, <1>3, <1>4, IsFacts DEF TypeOK
    <3> QED
      BY <1>1, <3>1, <3>2, <3>3
  <2>3. cwd' \in [Proc -> {None} \cup Inum] /\ \A f \in File : file'[f].ip = file[f].ip
    BY <1>1, <1>8 DEF TypeOK
  <2> QED
    BY <1>0, <2>1, <2>2, <2>3, RefStep
<1>11. \A q \in Proc \ {p} : /\ cwd'[q] = cwd[q] /\ ofile'[q] = ofile[q]
                             /\ (q \in alive' <=> q \in alive) /\ (q \in out' <=> q \in out)
  BY <1>0, <1>1 DEF TypeOK
<1>12. FileInv' /\ \A f \in File : file'[f].ip # None => file'[f].ip \in Live
  BY <1>0, <1>1, FileSame DEF AliveInv
<1>13. /\ puts[p] = <<>> /\ boot = None /\ op[p].pc \in {"idle", "exit", "end"} /\ o.pc \in {"idle", "exit", "end"}
       /\ OpOK(o) /\ UNCHANGED <<disk, mem, lock, freeing, boot, stray>> /\ Len(s) <= 1 /\ (s # <<>> => ~s[1].unlock)
  BY <1>1, <1>2, <1>3, <1>4, <1>6
<1>14. puts' = [puts EXCEPT ![p] = s] /\ op' = [op EXCEPT ![p] = o] /\ s \in Seq([i : Inum, unlock : BOOLEAN])
  BY <1>2, <1>6, <1>7, Zenon
<1> QED
  BY <1>8, <1>9, <1>10, <1>11, <1>12, <1>13, <1>14, Quiet

(* The entry of an open file with a reference less. *)
LEMMA CloseEntry ==
  ASSUME TypeOK, NEW f \in File, file[f].ref \in Nat, file[f].ref > 0,
         file' = [file EXCEPT ![f] = IF @.ref = 1 THEN NoFile ELSE [file[f] EXCEPT !.ref = file[f].ref - 1]]
  PROVE  /\ file' \in FileType /\ \A g \in File \ {f} : file'[g] = file[g]
         /\ file[f].ref = 1 => file'[f] = NoFile
         /\ file[f].ref # 1 => file'[f].ref = file[f].ref - 1 /\ file'[f].ref > 0 /\ file'[f].ip = file[f].ip
<1> DEFINE n == file[f].ref - 1
<1>1. file[f] \in [ref : Nat, ip : {None} \cup Inum, off : Nat, writable : BOOLEAN] /\ file \in FileType
  BY DEF TypeOK, FileType
<1>2. n \in Nat /\ file[f].ref = n + 1
  OBVIOUS
<1>3. NoFile \in [ref : Nat, ip : {None} \cup Inum, off : Nat, writable : BOOLEAN]
  BY DEF NoFile
<1> DEFINE c == [file[f] EXCEPT !.ref = n]
<1>4. c \in [ref : Nat, ip : {None} \cup Inum, off : Nat, writable : BOOLEAN] /\ c.ref = n /\ c.ip = file[f].ip
  <2> HIDE DEF n
  <2> QED
    BY <1>1, <1>2
<1> DEFINE e == IF file[f].ref = 1 THEN NoFile ELSE c
<1>5. file' = [file EXCEPT ![f] = e]
  BY <1>1
<1> HIDE DEF n, c
<1>6. e \in [ref : Nat, ip : {None} \cup Inum, off : Nat, writable : BOOLEAN]
  BY <1>3, <1>4
<1>7. (file[f].ref = 1 => e = NoFile) /\ (file[f].ref # 1 => e = c)
  OBVIOUS
<1> HIDE DEF e
<1>8. file'[f] = e /\ file' \in FileType /\ \A g \in File \ {f} : file'[g] = file[g]
  BY <1>1, <1>5, <1>6 DEF FileType
<1> QED
  BY <1>2, <1>4, <1>7, <1>8

(* fileclose() *)
LEMMA FilecloseCore ==
  ASSUME Core, NEW p \in Proc, NEW l \in {"idle", "exit"}, At(p, l), NEW d \in argfd(p), fileclose(p, d, l),
         UNCHANGED <<disk, durable, mem, lock, cwd, alive, freeing, boot, stray>>
  PROVE  Core'
<1> DEFINE f == ofile[p][d]
<1>0. TypeOK /\ PcInv /\ FileInv /\ AliveInv /\ RefInv /\ "end" \in Labels /\ l \in Labels
  BY DEF Core, Labels
<1>1. /\ d \in Fd /\ f \in File /\ file[f].ref \in Nat /\ file[f].ref > 0
      /\ file[f].ip \in Inum /\ file[f].ip \in Live /\ p \in alive /\ op[p].call # "gone"
  BY OpenDesc
<1>2. puts[p] = <<>> /\ boot = None /\ op[p].pc = l /\ ProcOK(p) /\ op[p].tgt = None /\ IpIn(op[p]) = None /\ op[p] \in OpType
      /\ cwd[p] \in Inum /\ OpOK(op[p])
  BY <1>0, <1>1 DEF At, PcInv, ProcOK, OpOK, HasTgt, IpIn, HasIp, TypeOK
<1>3. ofile' = [ofile EXCEPT ![p][d] = None]
  BY DEF fileclose
<1>4. /\ file' \in FileType /\ \A g \in File \ {f} : file'[g] = file[g]
      /\ file[f].ref = 1 => file'[f] = NoFile
      /\ file[f].ref # 1 => file'[f].ref = file[f].ref - 1 /\ file'[f].ref > 0 /\ file'[f].ip = file[f].ip
  <2>1. file' = [file EXCEPT ![f] = IF @.ref = 1 THEN NoFile ELSE [file[f] EXCEPT !.ref = file[f].ref - 1]]
    BY DEF fileclose
  <2> HIDE DEF f
  <2> QED
    BY <1>0, <1>1, <2>1, CloseEntry
<1>5. /\ ofile' \in OfileType /\ ofile'[p][d] = None
      /\ \A q \in Proc, c \in Fd : q # p \/ c # d => ofile'[q][c] = ofile[q][c]
      /\ \A q \in Proc \ {p} : ofile'[q] = ofile[q]
  BY <1>0, <1>1, <1>3 DEF TypeOK, OfileType
<1>6. FileInv'
  <2>1. PICK e : e = file'[f]
    OBVIOUS
  <2>2. NoFile.ref = 0 /\ None # f
    BY <1>1, ConstFacts DEF NoFile
  <2>3. /\ e.ref = file[f].ref - Is(ofile[p][d], f) + Is(None, f)
        /\ (e.ref = 0 => e = NoFile) /\ (e.ref > 0 => e.ip # None)
    BY <1>1, <1>4, <2>1, <2>2, ConstFacts DEF Is
  <2>4. \A g \in File \ {f} : Is(ofile[p][d], g) = Is(None, g)
    BY ConstFacts DEF Is
  <2>5. file'[f] = e /\ \A g \in File \ {f} : file'[g] = file[g]
    BY <1>4, <2>1
  <2> QED
    BY <1>0, <1>1, <1>5, <2>3, <2>4, <2>5, FileStep
<1>7. \A g \in File : file'[g].ip # None => file'[g].ip \in Live
  <2>1. NoFile.ip = None
    BY DEF NoFile
  <2> QED
    BY <1>0, <1>1, <1>4, <2>1 DEF AliveInv
<1>8. CASE file[f].ref = 1
  <2>1. PutAll(p, <<Put(file[f].ip)>>, "end") /\ out' = out \cup {p}
    BY <1>8 DEF fileclose
  <2>2. PICK o \in OpType : /\ op' = [op EXCEPT ![p] = o] /\ o.pc = "end" /\ OpOK(o) /\ o.tgt = None
                            /\ o.call # "gone" /\ IpIn(o) = None
    BY <1>0, <2>1, GotoFacts DEF PutAll
  <2>3. PICK s : s = <<Put(file[f].ip)>>
    OBVIOUS
  <2>4. s \in Seq([i : Inum, unlock : BOOLEAN]) /\ Len(s) = 1 /\ s # <<>> /\ ~s[1].unlock
        /\ FirstIn(s) = file[f].ip /\ SecondIn(s) = None
    BY <1>1, <2>3, PutFacts
  <2>5. puts' = [puts EXCEPT ![p] = s]
    BY <2>1, <2>3 DEF PutAll
  <2>6. puts'[p] = s /\ puts' \in [Proc -> Seq([i : Inum, unlock : BOOLEAN])]
        /\ \A q \in Proc \ {p} : puts'[q] = puts[q]
    BY <1>0, <2>4, <2>5 DEF TypeOK
  <2>7. op'[p] = o /\ op' \in [Proc -> OpType] /\ \A q \in Proc \ {p} : op'[q] = op[q]
    BY <1>0, <2>2 DEF TypeOK
  <2>8. TypeOK'
    BY <1>0, <1>4, <1>5, <2>1, <2>6, <2>7 DEF TypeOK, FileType, OfileType
  <2>9. ProcOK(p)'
    <3>1. op'[p].pc = "end" /\ op'[p].call # "gone" /\ p \in out' /\ p \in alive' /\ cwd'[p] # None
      BY <1>1, <1>2, <2>1, <2>2, <2>7, ConstFacts
    <3>2. Len(puts'[p]) <= 2 /\ puts'[p] # <<>>
      <4>1. Len(s) = 1 /\ s # <<>>
        BY <2>4, Zenon
      <4>2. puts'[p] = s
        BY <2>6, Zenon
      <4>3. Len(puts'[p]) = 1 /\ puts'[p] # <<>>
        BY <4>1, <4>2, Zenon
      <4> QED
        BY <4>3
    <3> QED
      BY <3>1, <3>2 DEF ProcOK, PutsAt
  <2>10. RefInv'
    <3>1. \A q \in Proc \ {p} : op'[q] = op[q] /\ puts'[q] = puts[q] /\ cwd'[q] = cwd[q]
      BY <2>6, <2>7
    <3>2. \A x \in Inum : mem'[x].ref = mem[x].ref - Mine(p, x) + Mine(p, x)' - Is(file[f].ip, x) + Is(file'[f].ip, x)
      <4> SUFFICES ASSUME NEW x \in Inum
                   PROVE mem'[x].ref = mem[x].ref - Mine(p, x) + Mine(p, x)' - Is(file[f].ip, x) + Is(file'[f].ip, x)
        OBVIOUS
      <4>1. Mine(p, x) = Is(cwd[p], x) + Is(IpIn(op[p]), x) + Is(op[p].tgt, x)
        BY <1>2, TallyFacts DEF Mine
      <4>2. Mine(p, x)' = Is(cwd[p], x) + Is(IpIn(o), x) + Is(o.tgt, x) + Is(file[f].ip, x)
        BY <2>4, <2>6, <2>7, TallyFacts DEF Mine
      <4>3. mem[x].ref \in Nat /\ Is(cwd[p], x) \in Nat /\ Is(IpIn(op[p]), x) = 0 /\ Is(op[p].tgt, x) = 0
            /\ Is(IpIn(o), x) = 0 /\ Is(o.tgt, x) = 0 /\ Is(file[f].ip, x) \in Nat
        BY <1>0, <1>2, <2>2, IsFacts DEF TypeOK
      <4>4. file'[f].ip = None /\ Is(None, x) = 0
        BY <1>4, <1>8, IsFacts DEF NoFile
      <4> QED
        BY <4>1, <4>2, <4>3, <4>4
    <3>3. cwd' \in [Proc -> {None} \cup Inum] /\ \A g \in File \ {f} : file'[g].ip = file[g].ip
      BY <1>4, <2>8 DEF TypeOK
    <3> QED
      BY <1>0, <1>1, <3>1, <3>2, <3>3, RefFile
  <2>11. /\ puts[p] = <<>> /\ boot = None /\ op[p].pc \in {"idle", "exit", "end"} /\ o.pc \in {"idle", "exit", "end"}
         /\ OpOK(o) /\ UNCHANGED <<disk, mem, lock, freeing, boot, stray>> /\ Len(s) <= 1 /\ (s # <<>> => ~s[1].unlock)
    BY <1>2, <2>2, <2>4
  <2>12. puts' = [puts EXCEPT ![p] = s] /\ op' = [op EXCEPT ![p] = o] /\ s \in Seq([i : Inum, unlock : BOOLEAN])
    BY <2>2, <2>4, <2>5, Zenon
  <2>13. \A q \in Proc \ {p} : /\ cwd'[q] = cwd[q] /\ ofile'[q] = ofile[q]
                               /\ (q \in alive' <=> q \in alive) /\ (q \in out' <=> q \in out)
    BY <1>5, <2>1
  <2> QED
    BY <1>6, <1>7, <2>8, <2>9, <2>10, <2>11, <2>12, <2>13, Quiet
<1>9. CASE file[f].ref # 1
  <2>1. Goto(p, l) /\ out' = out /\ puts' = puts
    BY <1>9 DEF fileclose
  <2>2. PICK o \in OpType : /\ op' = [op EXCEPT ![p] = o] /\ o.pc = l /\ o.tgt = op[p].tgt /\ o.call = op[p].call
    BY <1>0, <2>1, GotoFacts
  <2>3. OpOK(o) /\ IpIn(o) = None
    BY <1>2, <2>2 DEF OpOK, IpIn, HasIp, HasTgt
  <2>7. op'[p] = o /\ op' \in [Proc -> OpType]
    BY <1>0, <2>2 DEF TypeOK
  <2>8. TypeOK'
    BY <1>0, <1>4, <1>5, <2>1, <2>7 DEF TypeOK, FileType, OfileType
  <2>9. ProcOK(p)'
    BY <1>1, <1>2, <2>1, <2>2, <2>7 DEF ProcOK
  <2>10. RefInv'
    <3>1. \A g \in File : file'[g].ip = file[g].ip
      BY <1>4, <1>9
    <3> QED
      BY <1>2, <2>1, <2>2, <2>3, <3>1, RefSame
  <2>11. PICK s \in Seq([i : Inum, unlock : BOOLEAN]) : s = <<>> /\ Len(s) = 0 /\ puts' = [puts EXCEPT ![p] = s]
    BY <1>0, <1>2, <2>1, EmptyPuts
  <2>12. /\ puts[p] = <<>> /\ boot = None /\ op[p].pc \in {"idle", "exit", "end"} /\ o.pc \in {"idle", "exit", "end"}
         /\ OpOK(o) /\ UNCHANGED <<disk, mem, lock, freeing, boot, stray>> /\ Len(s) <= 1 /\ (s # <<>> => ~s[1].unlock)
    BY <1>2, <2>2, <2>3, <2>11
  <2>13. puts' = [puts EXCEPT ![p] = s] /\ op' = [op EXCEPT ![p] = o]
    BY <2>2, <2>11, Zenon
  <2>14. \A q \in Proc \ {p} : /\ cwd'[q] = cwd[q] /\ ofile'[q] = ofile[q]
                               /\ (q \in alive' <=> q \in alive) /\ (q \in out' <=> q \in out)
    BY <1>5, <2>1
  <2> QED
    BY <1>6, <1>7, <2>8, <2>9, <2>10, <2>12, <2>13, <2>14, Quiet
<1> QED
  BY <1>8, <1>9

(* sys_close() keeps Core. *)
LEMMA CloseCore ==
  ASSUME Core, NEW p \in Proc, Close(p)
  PROVE  Core'
<1>1. PICK d \in argfd(p) : fileclose(p, d, "idle")
  BY DEF Close
<1>2. At(p, "idle") /\ UNCHANGED <<disk, durable, mem, lock, cwd, alive, freeing, boot, stray>>
  BY DEF Close
<1> QED
  BY <1>1, <1>2, FilecloseCore

(* A fileclose() of kexit() keeps Core. *)
LEMMA ExitCloseCore ==
  ASSUME Core, NEW p \in Proc, ExitClose(p)
  PROVE  Core'
<1>1. fileclose(p, Min(argfd(p)), "exit") /\ argfd(p) # {}
  BY DEF ExitClose
<1>2. At(p, "exit") /\ UNCHANGED <<disk, durable, mem, lock, cwd, alive, freeing, boot, stray>>
  BY DEF ExitClose
<1>3. argfd(p) \subseteq Nat
  BY DEF argfd, Fd
<1>4. Min(argfd(p)) \in argfd(p)
  BY <1>1, <1>3, MinIn
<1> QED
  BY <1>1, <1>2, <1>4, FilecloseCore

(* Row q of the descriptors, empty before, becomes a copy of row p. *)
LEMMA DescCopy ==
  ASSUME TypeOK, NEW p \in Proc, NEW q \in Proc \ {p}, \A d \in Fd : ofile[q][d] = None,
         ofile' = [ofile EXCEPT ![q] = ofile[p]], NEW f \in File
  PROVE  Occ(Descriptor', f) = Occ(Descriptor, f) + Cardinality({d \in Fd : ofile[p][d] = f})
<1> DEFINE S == {d \in Fd : ofile[p][d] = f}
           A == {s \in Proc \X Fd : Descriptor[s] = f}
           B == {s \in Proc \X Fd : Descriptor'[s] = f}
<1>1. IsFiniteSet(Proc \X Fd) /\ IsFiniteSet(Fd) /\ IsFiniteSet({q}) /\ Cardinality({q}) = 1
  BY FiniteFacts, FS_Product, FS_Singleton
<1>2. IsFiniteSet(A) /\ IsFiniteSet(S)
  BY <1>1, FS_Subset
<1>3. IsFiniteSet({q} \X S) /\ Cardinality({q} \X S) = 1 * Cardinality(S)
  BY <1>1, <1>2, FS_Product
<1>4. B = A \cup ({q} \X S)
  BY ConstFacts DEF Descriptor, TypeOK
<1>5. A \cap ({q} \X S) = {}
  BY ConstFacts DEF Descriptor, TypeOK
<1>6. Cardinality(A) \in Nat /\ Cardinality(S) \in Nat /\ Cardinality({}) = 0
  BY <1>2, FS_CardinalityType, FS_EmptySet
<1>7. Cardinality(B) = Cardinality(A) + Cardinality(S)
  <2>1. Cardinality(A \cup ({q} \X S)) = Cardinality(A) + Cardinality({q} \X S) - Cardinality(A \cap ({q} \X S))
    BY <1>2, <1>3, FS_Union
  <2>2. Cardinality(A \cap ({q} \X S)) = 0
    BY <1>5, <1>6, Zenon
  <2>3. Cardinality(B) = Cardinality(A) + Cardinality({q} \X S) - Cardinality(A \cap ({q} \X S))
    BY <1>4, <2>1, Zenon
  <2> DEFINE a == Cardinality(A)
             x == Cardinality({q} \X S)
             n == Cardinality(A \cap ({q} \X S))
             c == Cardinality(S)
             b == Cardinality(B)
  <2>4. b = a + x - n /\ n = 0 /\ x = 1 * c /\ a \in Nat /\ c \in Nat
    BY <1>3, <1>6, <2>2, <2>3
  <2>5. b = a + c
    <3> HIDE DEF a, x, n, c, b
    <3> QED
      BY <2>4
  <2> QED
    BY <2>5
<1>8. Occ(Descriptor, f) = Cardinality(A) /\ Occ(Descriptor', f) = Cardinality(B)
  BY DEF Occ, Descriptor
<1> QED
  BY <1>7, <1>8

(* A process that does not exist. *)
LEMMA AbsentProc ==
  ASSUME Core, NEW q \in Proc, q \notin alive
  PROVE  /\ op[q].pc = "idle" /\ op[q] \in OpType /\ OpOK(op[q]) /\ op[q].call # "gone" /\ op[q].tgt = None /\ IpIn(op[q]) = None
         /\ puts[q] = <<>> /\ freeing[q] = "no" /\ cwd[q] = None /\ \A d \in Fd : ofile[q][d] = None
<1>1. TypeOK /\ OpOK(op[q]) /\ ProcOK(q)
  BY DEF Core, PcInv
<1>2. op[q].pc = "idle" /\ op[q] \in OpType /\ cwd[q] = None /\ \A d \in Fd : ofile[q][d] = None
  BY <1>1 DEF ProcOK, TypeOK
<1>3. puts[q] = <<>>
  BY <1>1, <1>2 DEF ProcOK, PutsAt
<1>4. freeing[q] = "no"
  BY <1>1, <1>3 DEF ProcOK
<1>5. op[q].call # "gone" /\ op[q].tgt = None /\ IpIn(op[q]) = None
  BY <1>1, <1>2 DEF OpOK, IpIn, HasIp, HasTgt
<1> QED
  BY <1>1, <1>2, <1>3, <1>4, <1>5

(* A process comes to exist, in a directory. *)
LEMMA BornCore ==
  ASSUME Core, NEW q \in Proc, q \notin alive, NEW w \in Inum, boot' = None,
         UNCHANGED <<disk, lock, op, puts, freeing, out, stray>>, durable' = durable,
         alive' = alive \cup {q}, cwd' = [cwd EXCEPT ![q] = w], mem' = iget(mem, w),
         ofile' \in OfileType, \A r \in Proc \ {q} : ofile'[r] = ofile[r],
         file' \in FileType, \A f \in File : file'[f].ip = file[f].ip, FileInv'
  PROVE  Core'
<1>0. TypeOK /\ LockInv /\ RefInv
  BY DEF Core
<1>1. /\ op[q].pc = "idle" /\ op[q] \in OpType /\ OpOK(op[q]) /\ op[q].call # "gone" /\ op[q].tgt = None /\ IpIn(op[q]) = None
      /\ puts[q] = <<>> /\ freeing[q] = "no" /\ cwd[q] = None
  BY AbsentProc
<1>2. mem' \in MemType /\ (\A x \in Inum : mem'[x].ref = mem[x].ref + Is(w, x)) /\ CopyInv' /\ OwnInodes(q)
  BY GetFacts
<1>3. cwd'[q] = w /\ cwd' \in [Proc -> {None} \cup Inum] /\ \A r \in Proc \ {q} : cwd'[r] = cwd[r]
  BY <1>0 DEF TypeOK
<1>4. TypeOK'
  <2>1. boot' \in 0 .. NINODES + 1
    BY FsAssumption DEF None
  <2> QED
    BY <1>0, <1>2, <1>3, <2>1 DEF TypeOK, MemType, FileType, OfileType
<1>5. Own(q)
  BY <1>3 DEF Own
<1>6. ProcOK(q)'
  BY <1>1, <1>3, ConstFacts DEF ProcOK
<1>7. \A x \in Inum : mem'[x].ref = mem[x].ref - Mine(q, x) + Mine(q, x)'
  <2> SUFFICES ASSUME NEW x \in Inum PROVE mem'[x].ref = mem[x].ref - Mine(q, x) + Mine(q, x)'
    OBVIOUS
  <2>1. Mine(q, x) = Is(cwd[q], x) + Is(IpIn(op[q]), x) + Is(op[q].tgt, x)
    BY <1>1, TallyFacts DEF Mine
  <2>2. Mine(q, x)' = Is(w, x) + Is(IpIn(op[q]), x) + Is(op[q].tgt, x)
    BY <1>1, <1>3, TallyFacts DEF Mine
  <2>3. Is(cwd[q], x) = 0 /\ Is(IpIn(op[q]), x) = 0 /\ Is(op[q].tgt, x) = 0 /\ Is(w, x) \in Nat /\ mem[x].ref \in Nat
    BY <1>0, <1>1, IsFacts DEF TypeOK
  <2> QED
    BY <1>2, <2>1, <2>2, <2>3
<1>8. OwnLocks(q)
  BY <1>0 DEF OwnLocks, LockInv, Locks
<1>9. OpAlive(op[q])'
  BY <1>1 DEF OpAlive
<1>10. OpOK(op'[q]) /\ freeing'[q] # "trunc" /\ op'[q].pc # "fill"
  BY <1>1
<1> QED
  BY <1>2, <1>4, <1>5, <1>6, <1>7, <1>8, <1>9, <1>10, CoreStep

(* kfork() keeps Core: the child's references are counted. *)
LEMMA ForkCore ==
  ASSUME Core, NEW p \in Proc, Fork(p)
  PROVE  Core'
<1>0. TypeOK /\ FileInv
  BY DEF Core
<1>1. At(p, "idle") /\ p \in alive /\ UNCHANGED <<disk, durable, lock, op, puts, freeing, out, boot, stray>>
      /\ mem' = iget(mem, cwd[p])
  BY DEF Fork
<1>2. PICK q \in Proc \ alive : /\ alive' = alive \cup {q} /\ ofile' = [ofile EXCEPT ![q] = ofile[p]]
                                /\ cwd' = [cwd EXCEPT ![q] = cwd[p]]
  BY DEF Fork
<1>3. cwd[p] \in Inum /\ q # p /\ boot' = None
  BY <1>1, <1>2, IdleFacts DEF At
<1>4. \A d \in Fd : ofile[q][d] = None
  BY AbsentProc
<1> DEFINE N(f) == Cardinality({d \in Fd : ofile[p][d] = f})
<1>5. file' = [f \in File |-> [file[f] EXCEPT !.ref = @ + N(f)]]
  BY DEF Fork
<1>6. \A f \in File : N(f) \in Nat
  BY FiniteFacts, FS_Subset, FS_CardinalityType
<1>7. \A f \in File : Occ(Descriptor', f) = Occ(Descriptor, f) + N(f)
  BY <1>0, <1>2, <1>3, <1>4, DescCopy
<1>8. \A f \in File : /\ file[f] \in [ref : Nat, ip : {None} \cup Inum, off : Nat, writable : BOOLEAN]
                      /\ file[f].ref \in Nat /\ file[f].ref = Occ(Descriptor, f)
                      /\ (file[f].ref = 0 => file[f] = NoFile) /\ (file[f].ref > 0 => file[f].ip # None)
  BY <1>0 DEF TypeOK, FileInv
<1> HIDE DEF N
<1>9. \A f \in File : /\ file'[f] = [file[f] EXCEPT !.ref = file[f].ref + N(f)]
                      /\ file'[f].ref = file[f].ref + N(f) /\ file'[f].ip = file[f].ip
                      /\ file'[f] \in [ref : Nat, ip : {None} \cup Inum, off : Nat, writable : BOOLEAN]
  BY <1>5, <1>6, <1>8
<1>10. file' \in FileType
  BY <1>5, <1>9 DEF FileType
<1>11. \A f \in File : file[f].ref > 0 \/ N(f) = 0
  <2> SUFFICES ASSUME NEW f \in File, N(f) # 0 PROVE file[f].ref > 0
    BY <1>6
  <2>1. {d \in Fd : ofile[p][d] = f} # {}
    BY FS_EmptySet DEF N
  <2>2. PICK d \in Fd : ofile[p][d] = f
    BY <2>1
  <2>3. d \in argfd(p)
    BY <2>2, ConstFacts DEF argfd
  <2> QED
    BY <2>2, <2>3, OpenDesc
<1>12. FileInv'
  <2> SUFFICES ASSUME NEW f \in File
               PROVE /\ file'[f].ref = Occ(Descriptor', f) /\ (file'[f].ref = 0 => file'[f] = NoFile)
                     /\ (file'[f].ref > 0 => file'[f].ip # None)
    BY DEF FileInv
  <2>1. file'[f].ref = Occ(Descriptor', f)
    BY <1>7, <1>8, <1>9
  <2>0. file'[f].ref = file[f].ref + N(f) /\ file'[f].ip = file[f].ip /\ N(f) \in Nat /\ file[f].ref \in Nat
    BY <1>6, <1>8, <1>9
  <2>2. ASSUME file'[f].ref = 0 PROVE file'[f] = NoFile
    <3>1. file[f].ref = 0 /\ N(f) = 0
      BY <2>0, <2>2
    <3>2. file[f] = NoFile /\ file[f].ref + N(f) = 0
      BY <1>8, <3>1
    <3> QED
      BY <1>9, <3>2 DEF NoFile
  <2>3. ASSUME file'[f].ref > 0 PROVE file'[f].ip # None
    <3>1. file[f].ref > 0
      BY <1>11, <2>0, <2>3
    <3> QED
      BY <1>8, <2>0, <3>1
  <2> QED
    BY <2>1, <2>2, <2>3
<1>13. ofile' \in OfileType /\ \A r \in Proc \ {q} : ofile'[r] = ofile[r]
  BY <1>0, <1>2 DEF TypeOK, OfileType
<1>14. \A f \in File : file'[f].ip = file[f].ip
  BY <1>9
<1>15. UNCHANGED <<disk, lock, op, puts, freeing, out, stray>> /\ durable' = durable
  BY <1>1
<1> QED
  BY <1>1, <1>2, <1>3, <1>10, <1>12, <1>13, <1>14, <1>15, BornCore

(* The start of the first process keeps Core. *)
LEMMA BootedCore ==
  ASSUME Core, Booted
  PROVE  Core'
<1>0. TypeOK /\ FileInv /\ BootInv
  BY DEF Core
<1>1. /\ boot = NINODES + 1 /\ boot' = None /\ alive' = {First} /\ mem' = iget(mem, ROOTINO)
      /\ cwd' = [cwd EXCEPT ![First] = ROOTINO] /\ UNCHANGED <<disk, lock, op, puts, freeing, out, stray>> /\ durable' = durable
      /\ UNCHANGED <<file, ofile>>
  BY DEF Booted
<1>2. boot # None /\ alive = {} /\ First \in Proc /\ ROOTINO \in Inum
  BY <1>0, <1>1, FsAssumption, ConstFacts DEF BootInv, None
<1>3. alive' = alive \cup {First} /\ First \notin alive
  BY <1>1, <1>2
<1>4. ofile' \in OfileType /\ file' \in FileType /\ FileInv'
  BY <1>0, <1>1, FileSame DEF TypeOK, OfileType, FileType
<1>5. (\A r \in Proc \ {First} : ofile'[r] = ofile[r]) /\ \A f \in File : file'[f].ip = file[f].ip
  BY <1>1
<1> QED
  BY <1>1, <1>2, <1>3, <1>4, <1>5, BornCore

(* What a process refers to has a reference. *)
LEMMA Referred ==
  ASSUME TypeOK, RefInv, NEW q \in Proc, NEW x \in Inum,
         cwd[q] = x \/ IpOf[q] = x \/ TgtOf[q] = x \/ Put1[q] = x \/ Put2[q] = x
  PROVE  mem[x].ref > 0 /\ mem[x].ref \in Nat
<1>0. IsFiniteSet(Proc) /\ IsFiniteSet(File)
  BY FiniteFacts
<1>1. /\ DOMAIN cwd = Proc /\ DOMAIN IpOf = Proc /\ DOMAIN TgtOf = Proc /\ DOMAIN Put1 = Proc /\ DOMAIN Put2 = Proc
      /\ DOMAIN FileIp = File
  BY DEF TypeOK, IpOf, TgtOf, Put1, Put2, FileIp
<1>2. /\ Occ(cwd, x) \in Nat /\ Occ(IpOf, x) \in Nat /\ Occ(TgtOf, x) \in Nat /\ Occ(Put1, x) \in Nat
      /\ Occ(Put2, x) \in Nat /\ Occ(FileIp, x) \in Nat
  BY <1>0, <1>1, OccSome
<1>4. Occ(cwd, x) # 0 \/ Occ(IpOf, x) # 0 \/ Occ(TgtOf, x) # 0 \/ Occ(Put1, x) # 0 \/ Occ(Put2, x) # 0
  BY <1>0, <1>1, OccSome
<1>5. mem[x].ref = Occ(FileIp, x) + Occ(cwd, x) + Occ(IpOf, x) + Occ(TgtOf, x) + Occ(Put1, x) + Occ(Put2, x)
  BY DEF RefInv
<1> DEFINE a == Occ(FileIp, x)
           b == Occ(cwd, x)
           c == Occ(IpOf, x)
           d == Occ(TgtOf, x)
           e == Occ(Put1, x)
           f == Occ(Put2, x)
           r == mem[x].ref
<1>6. /\ a \in Nat /\ b \in Nat /\ c \in Nat /\ d \in Nat /\ e \in Nat /\ f \in Nat
      /\ r = a + b + c + d + e + f /\ (b # 0 \/ c # 0 \/ d # 0 \/ e # 0 \/ f # 0)
  BY <1>2, <1>4, <1>5
<1> HIDE DEF a, b, c, d, e, f, r
<1>7. r > 0 /\ r \in Nat
  BY <1>6
<1> QED
  BY <1>7 DEF r

(* A process that has an inode locked refers to it. *)
LEMMA LocksRefer ==
  ASSUME NEW q \in Proc, NEW x \in Inum, Locks(q, x)
  PROVE  \/ IpOf[q] = x \/ TgtOf[q] = x \/ Put2[q] = x
         \/ Put1[q] = x /\ (freeing[q] = "trunc" \/ (freeing[q] = "no" /\ puts[q][1].unlock))
  BY DEF Locks, Holds, IpOf, TgtOf, Put1, Put2, IpIn, FirstIn, SecondIn, HasIp

(* The inode that iput() is about to put, the last reference to it being this
   one: nobody else has it locked.                                         *)
LEMMA LastPut ==
  ASSUME Core, NEW p \in Proc, puts[p] # <<>>, NEW i \in Inum, i = puts[p][1].i, mem[i].ref = 1
  PROVE  /\ \A q \in Proc : cwd[q] # i /\ IpOf[q] # i /\ TgtOf[q] # i /\ Put2[q] # i /\ (q # p => Put1[q] # i)
         /\ \A f \in File : file[f].ip # i
         /\ \A q \in Proc : q # p => ~Locks(q, i)
         /\ lock[i] \in {p, NoProc}
         /\ lock[i] = p => freeing[p] = "trunc" \/ (freeing[p] = "no" /\ puts[p][1].unlock)
<1>0. TypeOK /\ RefInv /\ LockInv
  BY DEF Core
<1>1. Put1[p] = i
  BY DEF Put1, FirstIn
<1>2. /\ \A q \in Proc : cwd[q] # i /\ IpOf[q] # i /\ TgtOf[q] # i /\ Put2[q] # i /\ (q # p => Put1[q] # i)
      /\ \A f \in File : file[f].ip # i
  BY <1>0, <1>1, OnlyHolder
<1>3. \A q \in Proc : q # p => ~Locks(q, i)
  BY <1>2, LocksRefer
<1>4. lock[i] \in {p, NoProc}
  BY <1>0, <1>3 DEF LockInv, TypeOK
<1>5. lock[i] = p => freeing[p] = "trunc" \/ (freeing[p] = "no" /\ puts[p][1].unlock)
  BY <1>0, <1>2, LocksRefer DEF LockInv
<1> QED
  BY <1>2, <1>3, <1>4, <1>5

(* A process with something to put. *)
LEMMA PutterFacts ==
  ASSUME Core, NEW p \in Proc, puts[p] # <<>>
  PROVE  /\ op[p].pc \in PutsAt /\ p \in alive /\ boot = None /\ Len(puts[p]) \in {1, 2}
         /\ puts[p][1].i \in Inum /\ puts[p][1].unlock \in BOOLEAN /\ Head(puts[p]) = puts[p][1]
         /\ op[p] \in OpType /\ OpOK(op[p])
<1>1. /\ puts[p][1].i \in Inum /\ puts[p][1].unlock \in BOOLEAN /\ Head(puts[p]) = puts[p][1]
      /\ Len(puts[p]) > 0 /\ Len(puts[p]) \in Nat
  BY FirstPut DEF Core
<1>2. TypeOK /\ OpOK(op[p]) /\ ProcOK(p) /\ BootInv
  BY DEF Core, PcInv
<1>3. op[p].pc \in PutsAt /\ Len(puts[p]) <= 2
  BY <1>2 DEF ProcOK
<1>4. p \in alive
  BY <1>2, <1>3 DEF ProcOK, PutsAt
<1>5. boot = None
  BY <1>2, <1>4 DEF BootInv
<1>6. Len(puts[p]) \in {1, 2}
  <2> DEFINE n == Len(puts[p])
  <2>1. n > 0 /\ n \in Nat /\ n <= 2
    BY <1>1, <1>3
  <2> HIDE DEF n
  <2>2. n \in {1, 2}
    BY <2>1
  <2> QED
    BY <2>2 DEF n
<1>7. op[p] \in OpType
  BY <1>2 DEF TypeOK
<1> QED
  BY <1>1, <1>2, <1>3, <1>4, <1>5, <1>6, <1>7

(* An entry of the inode table with a reference less. *)
LEMMA UnrefFacts ==
  ASSUME TypeOK, NEW i \in Inum, mem[i].ref > 0, mem' = [mem EXCEPT ![i] = Unref(@)]
  PROVE  /\ mem' \in MemType /\ \A x \in Inum : mem'[x].ref = mem[x].ref - Is(i, x)
         /\ \A x \in Inum \ {i} : mem'[x] = mem[x]
         /\ mem[i].ref # 1 => mem'[i].valid = mem[i].valid /\ mem'[i].c = mem[i].c
         /\ mem[i].ref = 1 => mem'[i] = Absent /\ ~mem'[i].valid
<1> DEFINE n == mem[i].ref - 1
<1>1. mem[i] \in [ref : Nat, valid : BOOLEAN, c : Dinode] /\ mem \in MemType /\ mem[i].ref \in Nat
  BY DEF TypeOK, MemType
<1>2. n \in Nat /\ mem[i].ref = n + 1
  BY <1>1
<1>3. Absent \in [ref : Nat, valid : BOOLEAN, c : Dinode] /\ Absent.ref = 0 /\ ~Absent.valid
  BY ZeroType DEF Absent
<1> DEFINE c == [mem[i] EXCEPT !.ref = n]
<1>4. c \in [ref : Nat, valid : BOOLEAN, c : Dinode] /\ c.ref = n /\ c.valid = mem[i].valid /\ c.c = mem[i].c
  <2> HIDE DEF n
  <2> QED
    BY <1>1, <1>2
<1> DEFINE e == IF mem[i].ref = 1 THEN Absent ELSE c
<1>5. mem' = [mem EXCEPT ![i] = e]
  BY <1>1 DEF Unref
<1>6. (mem[i].ref = 1 => e = Absent) /\ (mem[i].ref # 1 => e = c)
  OBVIOUS
<1> HIDE DEF n, c, e
<1>7. e \in [ref : Nat, valid : BOOLEAN, c : Dinode] /\ e.ref = n
  BY <1>2, <1>3, <1>4, <1>6
<1>8. mem'[i] = e /\ mem' \in MemType /\ \A x \in Inum \ {i} : mem'[x] = mem[x]
  BY <1>1, <1>5, <1>7 DEF MemType
<1>9. \A x \in Inum : mem'[x].ref = mem[x].ref - Is(i, x)
  <2> SUFFICES ASSUME NEW x \in Inum PROVE mem'[x].ref = mem[x].ref - Is(i, x)
    OBVIOUS
  <2>1. mem[x].ref \in Nat
    BY DEF TypeOK
  <2> QED
    BY <1>2, <1>7, <1>8, <2>1 DEF Is
<1> QED
  BY <1>3, <1>4, <1>6, <1>8, <1>9

(* iput() is done with the first inode that p has to put. *)
LEMMA PutDone ==
  ASSUME Core, NEW p \in Proc, puts[p] # <<>>, freeing[p] \in {"no", "drop"}, NEW i \in Inum, i = puts[p][1].i,
         mem' = [mem EXCEPT ![i] = Unref(@)], puts' = [puts EXCEPT ![p] = Tail(@)],
         freeing' = [freeing EXCEPT ![p] = "no"],
         lock' = IF freeing[p] = "no" /\ puts[p][1].unlock THEN [lock EXCEPT ![i] = NoProc] ELSE lock,
         UNCHANGED <<disk, durable, file, ofile, cwd, alive, op, out, boot, stray>>
  PROVE  Core'
<1>0. TypeOK /\ PcInv /\ LockInv /\ RefInv /\ FileInv /\ AliveInv /\ CopyInv
  BY DEF Core
<1>1. /\ op[p].pc \in PutsAt /\ p \in alive /\ boot = None /\ Len(puts[p]) \in {1, 2}
      /\ puts[p][1].unlock \in BOOLEAN /\ Head(puts[p]) = puts[p][1] /\ op[p] \in OpType /\ OpOK(op[p])
  BY PutterFacts
<1>2. PICK s : s = Tail(puts[p])
  OBVIOUS
<1>3. /\ s \in Seq([i : Inum, unlock : BOOLEAN]) /\ Len(s) = Len(puts[p]) - 1
      /\ Len(puts[p]) = 1 => s = <<>>
      /\ Len(puts[p]) = 2 => s # <<>> /\ s[1] = puts[p][2]
      /\ Len(puts[p]) > 1 => puts[p][2].i \in Inum /\ puts[p][2].unlock \in BOOLEAN
  BY <1>0, <1>2, FirstPut
<1>4. puts' = [puts EXCEPT ![p] = s]
  BY <1>0, <1>2 DEF TypeOK
<1>5. puts'[p] = s /\ puts' \in [Proc -> Seq([i : Inum, unlock : BOOLEAN])] /\ \A q \in Proc \ {p} : puts'[q] = puts[q]
  BY <1>0, <1>3, <1>4 DEF TypeOK
<1>6. freeing'[p] = "no" /\ freeing' \in [Proc -> {"no", "trunc", "drop"}] /\ \A q \in Proc \ {p} : freeing'[q] = freeing[q]
  BY <1>0 DEF TypeOK
<1>7. Put1[p] = i /\ mem[i].ref > 0
  <2>1. Put1[p] = i
    BY DEF Put1, FirstIn
  <2> QED
    BY <1>0, <2>1, Referred
<1>8. /\ mem' \in MemType /\ \A x \in Inum : mem'[x].ref = mem[x].ref - Is(i, x)
      /\ \A x \in Inum \ {i} : mem'[x] = mem[x]
      /\ mem[i].ref # 1 => mem'[i].valid = mem[i].valid /\ mem'[i].c = mem[i].c
      /\ mem[i].ref = 1 => mem'[i] = Absent /\ ~mem'[i].valid
  BY <1>0, <1>7, UnrefFacts
<1>9. /\ lock' \in [Inum -> Proc \cup {NoProc}] /\ \A x \in Inum \ {i} : lock'[x] = lock[x]
      /\ freeing[p] = "no" /\ puts[p][1].unlock => lock'[i] = NoProc
      /\ ~(freeing[p] = "no" /\ puts[p][1].unlock) => lock'[i] = lock[i]
  BY <1>0 DEF TypeOK
<1>10. TypeOK'
  BY <1>0, <1>5, <1>6, <1>8, <1>9 DEF TypeOK, MemType
<1>11. Own(p)
  BY <1>5, <1>6 DEF Own
<1>12. OpOK(op'[p]) /\ freeing'[p] # "trunc" /\ op'[p].pc # "fill" /\ boot' = None
  BY <1>1, <1>6 DEF PutsAt
<1>13. Len(s) \in {0, 1} /\ Len(s) # 2 /\ (Len(puts[p]) = 1 => Len(puts[p]) # 2)
  <2> DEFINE n == Len(puts[p])
             m == Len(s)
  <2>1. n \in {1, 2} /\ m = n - 1
    BY <1>1, <1>3
  <2> HIDE DEF n, m
  <2>2. m \in {0, 1} /\ m # 2 /\ (n = 1 => n # 2)
    BY <2>1
  <2> QED
    BY <2>2 DEF n, m
<1>14. ProcOK(p)'
  <2>1. ProcOK(p)
    BY <1>0 DEF PcInv
  <2>2. Len(puts'[p]) <= 2
    <3> DEFINE m == Len(puts'[p])
    <3>1. m \in {0, 1}
      BY <1>5, <1>13
    <3> HIDE DEF m
    <3>2. m <= 2
      BY <3>1
    <3> QED
      BY <3>2 DEF m
  <2>3. freeing'[p] = "no" /\ op'[p].pc \in PutsAt
    BY <1>1, <1>6
  <2> QED
    BY <1>1, <2>1, <2>2, <2>3 DEF ProcOK
<1>15. FirstIn(s) = SecondIn(puts[p]) /\ SecondIn(s) = None /\ FirstIn(puts[p]) = i
  <2>1. SecondIn(s) = None /\ FirstIn(puts[p]) = i
    BY <1>13 DEF SecondIn, FirstIn
  <2>2. CASE Len(puts[p]) = 1
    BY <1>3, <1>13, <2>1, <2>2, NoPuts DEF SecondIn
  <2>3. CASE Len(puts[p]) = 2
    BY <1>3, <2>1, <2>3 DEF SecondIn, FirstIn
  <2> QED
    BY <1>1, <2>2, <2>3
<1>16. \A x \in Inum : mem'[x].ref = mem[x].ref - Mine(p, x) + Mine(p, x)'
  <2> SUFFICES ASSUME NEW x \in Inum PROVE mem'[x].ref = mem[x].ref - Mine(p, x) + Mine(p, x)'
    OBVIOUS
  <2>1. Mine(p, x) = Is(cwd[p], x) + Is(IpIn(op[p]), x) + Is(op[p].tgt, x) + Is(i, x) + Is(SecondIn(puts[p]), x)
    BY <1>15 DEF Mine, Tally
  <2>2. Mine(p, x)' = Is(cwd[p], x) + Is(IpIn(op[p]), x) + Is(op[p].tgt, x) + Is(SecondIn(puts[p]), x) + Is(None, x)
    BY <1>5, <1>15 DEF Mine, Tally
  <2> DEFINE a == Is(cwd[p], x)
             b == Is(IpIn(op[p]), x)
             c == Is(op[p].tgt, x)
             d == Is(SecondIn(puts[p]), x)
             e == Is(i, x)
             r == mem[x].ref
  <2>3. a \in Nat /\ b \in Nat /\ c \in Nat /\ d \in Nat /\ e \in Nat /\ r \in Nat /\ Is(None, x) = 0
    BY <1>0, IsFacts DEF TypeOK
  <2>4. mem'[x].ref = r - e /\ Mine(p, x) = a + b + c + e + d /\ Mine(p, x)' = a + b + c + d + Is(None, x)
    BY <1>8, <2>1, <2>2
  <2> HIDE DEF a, b, c, d, e, r
  <2>5. mem'[x].ref = r - Mine(p, x) + Mine(p, x)'
    BY <2>3, <2>4
  <2> QED
    BY <2>5 DEF r
<1>17. Apart(op[p], puts[p]) /\ \A x \in Inum : lock[x] = p <=> Locks(p, x)
  BY <1>0 DEF LockInv
<1>18. Apart(op'[p], puts'[p])
  <2>1. op[p].pc \in {"opened", "unlink3"} => Len(puts[p]) = 1
    BY <1>17 DEF Apart
  <2> QED
    BY <1>3, <1>5, <1>13, <2>1 DEF Apart
<1>19. \A x \in Inum : lock'[x] = p <=> Locks(p, x)'
  <2> SUFFICES ASSUME NEW x \in Inum PROVE lock'[x] = p <=> Locks(p, x)'
    OBVIOUS
  <2>1. op[p].pc \notin {"fill", "unlink2"} /\ p # NoProc
    BY <1>1, FsAssumption DEF PutsAt
  <2>2. lock[x] = p <=> \/ op[p].pc \in {"opened", "unlink3"} /\ op[p].tgt = x
                        \/ i = x /\ (freeing[p] = "no" /\ puts[p][1].unlock)
                        \/ Len(puts[p]) = 2 /\ puts[p][2].unlock /\ puts[p][2].i = x
    BY <1>17, <2>1 DEF Locks, Holds
  <2>3. Locks(p, x)' <=> \/ op[p].pc \in {"opened", "unlink3"} /\ op[p].tgt = x
                         \/ Len(puts[p]) = 2 /\ puts[p][2].unlock /\ puts[p][2].i = x
    <3>1. Locks(p, x)' <=> \/ op[p].pc \in {"opened", "unlink3"} /\ op[p].tgt = x
                           \/ s # <<>> /\ s[1].i = x /\ s[1].unlock
      <4>1. puts'[p] = s /\ freeing'[p] = "no" /\ op'[p] = op[p] /\ Len(s) # 2
        BY <1>5, <1>6, <1>13, Zenon
      <4>2. Locks(p, x)' <=> Holds(op[p], s, "no", x)
        BY <4>1 DEF Locks
      <4> QED
        BY <2>1, <4>1, <4>2 DEF Holds
    <3> QED
      BY <1>1, <1>3, <1>13, <3>1
  <2>4. CASE x = i /\ freeing[p] = "no" /\ puts[p][1].unlock
    <3>1. op[p].pc \in {"opened", "unlink3"} => op[p].tgt # i
      BY <1>17 DEF Apart
    <3>2. Len(puts[p]) = 2 /\ puts[p][2].unlock => puts[p][2].i # i
      BY <1>17 DEF Apart
    <3> QED
      BY <1>9, <2>1, <2>3, <2>4, <3>1, <3>2
  <2>5. CASE ~(x = i /\ freeing[p] = "no" /\ puts[p][1].unlock)
    BY <1>9, <2>2, <2>3, <2>5
  <2> QED
    BY <2>4, <2>5
<1>20. OwnLocks(p)
  <2>1. freeing[p] = "no" /\ puts[p][1].unlock => lock[i] = p
    BY <1>17 DEF Locks, Holds
  <2>2. \A x \in Inum : lock'[x] = lock[x] \/ (lock[x] \in {p, NoProc} /\ lock'[x] \in {p, NoProc})
    BY <1>9, <2>1
  <2> QED
    BY <1>18, <1>19, <2>2 DEF OwnLocks
<1>21. CopyInv'
  BY <1>0, <1>8 DEF CopyInv
<1>22. OwnInodes(p)
  <2>1. mem[i].ref = 1 => lock[i] \in {p, NoProc}
    BY LastPut
  <2> QED
    BY <1>8, <2>1 DEF OwnInodes
<1>23. OpAlive(op[p])'
  <2>1. \A x \in Inum : Dying(x)' <=> Dying(x)
    BY <1>5, <1>6 DEF Dying
  <2>2. Live' = Live
    BY <2>1 DEF Live
  <2>3. OpAlive(op[p])
    BY <1>0 DEF AliveInv
  <2>4. op[p].pc = "unlink3" => mem'[op[p].tgt] = mem[op[p].tgt]
    <3>1. ASSUME op[p].pc = "unlink3" PROVE op[p].tgt # i /\ op[p].tgt \in Inum
      BY <1>1, <1>17, <3>1 DEF Apart, OpOK, HasTgt, OpType
    <3> QED
      BY <1>8, <3>1
  <2> QED
    BY <2>2, <2>3, <2>4 DEF OpAlive
<1>24. FileInv' /\ \A f \in File : file'[f].ip = file[f].ip
  BY <1>0, FileSame
<1> QED
  BY <1>10, <1>11, <1>12, <1>14, <1>16, <1>20, <1>21, <1>22, <1>23, <1>24, CoreStep

(* iput() of the last reference to an inode without links: it takes the lock,
   which is free.                                                          *)
LEMMA IputLastCore ==
  ASSUME Core, NEW p \in Proc, puts[p] # <<>>, freeing[p] = "no", NEW i \in Inum, i = puts[p][1].i,
         mem[i].ref = 1, mem[i].valid, mem[i].c.nlink = 0,
         freeing' = [freeing EXCEPT ![p] = "trunc"],
         lock' \in [Inum -> Proc \cup {NoProc}], lock'[i] = p, \A x \in Inum \ {i} : lock'[x] = lock[x],
         UNCHANGED <<disk, durable, mem, file, ofile, cwd, alive, op, puts, out, boot, stray>>
  PROVE  Core'
<1>0. TypeOK /\ PcInv /\ LockInv /\ RefInv /\ FileInv /\ AliveInv /\ CopyInv /\ BootInv
  BY DEF Core
<1>1. /\ \A q \in Proc : cwd[q] # i /\ IpOf[q] # i /\ TgtOf[q] # i /\ Put2[q] # i /\ (q # p => Put1[q] # i)
      /\ \A f \in File : file[f].ip # i
      /\ \A q \in Proc : q # p => ~Locks(q, i)
  BY LastPut
<1>2. freeing'[p] = "trunc" /\ freeing' \in [Proc -> {"no", "trunc", "drop"}] /\ \A q \in Proc \ {p} : freeing'[q] = freeing[q]
  BY <1>0 DEF TypeOK
<1>3. TypeOK'
  BY <1>0, <1>2 DEF TypeOK
<1>4. PcInv'
  BY <1>0, <1>2 DEF PcInv, ProcOK
<1>5. BootInv' /\ FileInv' /\ CopyInv'
  BY <1>0, FileSame DEF BootInv, CopyInv
<1>6. RefInv'
  BY <1>0 DEF RefInv, FileIp, IpOf, TgtOf, Put1, Put2
<1>7. LockInv'
  <2>1. \A q \in Proc, x \in Inum : q # p => (Locks(q, x)' <=> Locks(q, x))
    BY <1>2 DEF Locks
  <2>2. \A x \in Inum : x # i => (Locks(p, x)' <=> Locks(p, x))
    BY <1>2 DEF Locks, Holds
  <2>3. Locks(p, i)'
    BY <1>2 DEF Locks, Holds
  <2>4. \A q \in Proc, x \in Inum : lock'[x] = q <=> Locks(q, x)'
    BY <1>0, <1>1, <2>1, <2>2, <2>3 DEF LockInv
  <2> QED
    BY <1>0, <2>4 DEF LockInv
<1>8. \A x \in Inum : Dying(x)' <=> Dying(x) \/ x = i
  BY <1>2 DEF Dying
<1>9. Live' = Live \ {i}
  BY <1>8 DEF Live
<1>10. AliveInv'
  <2>1. \A f \in File : file'[f].ip # None => file'[f].ip \in Live'
    BY <1>0, <1>1, <1>9 DEF AliveInv
  <2>2. \A q \in Proc : OpAlive(op[q])'
    <3> SUFFICES ASSUME NEW q \in Proc PROVE OpAlive(op[q])'
      OBVIOUS
    <3>1. OpAlive(op[q]) /\ op[q].tgt # i /\ (HasIp(op[q]) => op[q].ip # i)
      BY <1>0, <1>1 DEF AliveInv, IpOf, TgtOf, IpIn
    <3> QED
      BY <1>9, <3>1 DEF OpAlive, HasIp
  <2>3. \A q \in Proc : freeing'[q] = "trunc" => mem'[puts'[q][1].i].valid /\ mem'[puts'[q][1].i].c.nlink = 0
    BY <1>0, <1>2 DEF AliveInv
  <2> QED
    BY <1>0, <2>1, <2>2, <2>3 DEF AliveInv
<1> QED
  BY <1>3, <1>4, <1>5, <1>6, <1>7, <1>10 DEF Core

(* iput() keeps Core, and never waits for the lock of an inode to which
   it has the last reference.                                             *)
LEMMA IputCore ==
  ASSUME Core, NEW p \in Proc, Iput(p)
  PROVE  Core' /\ panic' = panic
<1> DEFINE i == puts[p][1].i
           unlocked == IF puts[p][1].unlock THEN [lock EXCEPT ![i] = NoProc] ELSE lock
<1>0. TypeOK
  BY DEF Core
<1>1. puts[p] # <<>> /\ freeing[p] = "no" /\ UNCHANGED <<disk, durable, file, ofile, cwd, alive, op, out, boot, stray>>
  BY DEF Iput, procvars
<1>2. i \in Inum /\ puts[p][1].unlock \in BOOLEAN /\ Head(puts[p]) = puts[p][1] /\ boot = None
  BY <1>1, PutterFacts
<1>3. CASE mem[i].ref = 1 /\ mem[i].valid /\ mem[i].c.nlink = 0
  <2>1. /\ lock' = [unlocked EXCEPT ![i] = p]
        /\ panic' = IF unlocked[i] = NoProc THEN panic ELSE "sched locks"
        /\ freeing' = [freeing EXCEPT ![p] = "trunc"]
        /\ UNCHANGED <<mem, puts>>
    <3>1. Head(puts[p]) = puts[p][1] /\ mem[i].ref = 1 /\ mem[i].valid /\ mem[i].c.nlink = 0
      BY <1>2, <1>3
    <3>2. freeing' = [freeing EXCEPT ![p] = "trunc"] /\ UNCHANGED <<mem, puts>>
      BY <3>1 DEF Iput
    <3>3. CASE puts[p][1].unlock
      <4>1. Head(puts[p]).unlock
        BY <3>1, <3>3
      <4>2. /\ lock' = [[lock EXCEPT ![i] = NoProc] EXCEPT ![i] = p]
            /\ panic' = IF [lock EXCEPT ![i] = NoProc][i] = NoProc THEN panic ELSE "sched locks"
        BY <3>1, <4>1 DEF Iput
      <4>3. unlocked = [lock EXCEPT ![i] = NoProc]
        BY <3>3
      <4> HIDE DEF unlocked, i
      <4> QED
        BY <3>2, <4>2, <4>3, Zenon
    <3>4. CASE ~puts[p][1].unlock
      <4>1. ~Head(puts[p]).unlock
        BY <3>1, <3>4
      <4>2. lock' = [lock EXCEPT ![i] = p] /\ panic' = IF lock[i] = NoProc THEN panic ELSE "sched locks"
        BY <3>1, <4>1 DEF Iput
      <4>3. unlocked = lock
        BY <3>4
      <4> HIDE DEF unlocked, i
      <4> QED
        BY <3>2, <4>2, <4>3, Zenon
    <3> QED
      BY <3>3, <3>4
  <2>2. lock[i] \in {p, NoProc} /\ (lock[i] = p => puts[p][1].unlock)
    BY <1>1, <1>2, <1>3, LastPut
  <2>3. unlocked[i] = NoProc /\ unlocked \in [Inum -> Proc \cup {NoProc}] /\ \A x \in Inum \ {i} : unlocked[x] = lock[x]
    BY <1>0, <1>2, <2>2 DEF TypeOK
  <2> HIDE DEF unlocked
  <2>4. panic' = panic
    BY <2>1, <2>3
  <2>5. lock' \in [Inum -> Proc \cup {NoProc}] /\ lock'[i] = p /\ \A x \in Inum \ {i} : lock'[x] = lock[x]
    BY <1>2, <2>1, <2>3
  <2>6. UNCHANGED <<disk, durable, mem, file, ofile, cwd, alive, op, puts, out, boot, stray>>
    BY <1>1, <2>1
  <2>7. freeing' = [freeing EXCEPT ![p] = "trunc"] /\ i = puts[p][1].i
    BY <2>1, Zenon
  <2> HIDE DEF i
  <2>8. Core'
    BY <1>1, <1>2, <1>3, <2>5, <2>6, <2>7, IputLastCore
  <2> QED
    BY <2>4, <2>8
<1>4. CASE ~(mem[i].ref = 1 /\ mem[i].valid /\ mem[i].c.nlink = 0)
  <2>1. /\ lock' = unlocked /\ mem' = [mem EXCEPT ![i] = Unref(@)]
        /\ puts' = [puts EXCEPT ![p] = Tail(@)] /\ UNCHANGED <<panic, freeing>>
    BY <1>2, <1>4 DEF Iput
  <2>2. freeing' = [freeing EXCEPT ![p] = "no"]
    BY <1>0, <1>1, <2>1 DEF TypeOK
  <2>3. lock' = IF freeing[p] = "no" /\ puts[p][1].unlock THEN [lock EXCEPT ![i] = NoProc] ELSE lock
    BY <1>1, <2>1
  <2>4. i = puts[p][1].i /\ mem' = [mem EXCEPT ![i] = Unref(@)] /\ puts' = [puts EXCEPT ![p] = Tail(@)]
    BY <2>1, Zenon
  <2>5. panic' = panic
    BY <2>1
  <2>6. freeing[p] \in {"no", "drop"}
    BY <1>1
  <2> HIDE DEF i, unlocked
  <2>7. Core'
    BY <1>1, <1>2, <2>2, <2>3, <2>4, <2>6, PutDone
  <2> QED
    BY <2>5, <2>7
<1> QED
  BY <1>3, <1>4

(* The end of an iput() that has freed its inode keeps Core. *)
LEMMA IputDropCore ==
  ASSUME Core, NEW p \in Proc, IputDrop(p)
  PROVE  Core'
<1>0. TypeOK /\ PcInv
  BY DEF Core
<1>1. freeing[p] = "drop" /\ UNCHANGED <<disk, durable, lock, file, ofile, cwd, alive, op, out, boot, stray>>
      /\ puts' = [puts EXCEPT ![p] = Tail(@)] /\ freeing' = [freeing EXCEPT ![p] = "no"]
  BY DEF IputDrop, procvars
<1>2. puts[p] # <<>>
  BY <1>0, <1>1 DEF PcInv, ProcOK
<1>3. puts[p][1].i \in Inum /\ Head(puts[p]) = puts[p][1]
  BY <1>2, PutterFacts
<1>4. PICK i \in Inum : i = puts[p][1].i
  BY <1>3
<1>5. mem' = [mem EXCEPT ![i] = Unref(@)]
  BY <1>3, <1>4 DEF IputDrop
<1>6. lock' = IF freeing[p] = "no" /\ puts[p][1].unlock THEN [lock EXCEPT ![i] = NoProc] ELSE lock
  BY <1>1
<1>7. freeing[p] \in {"no", "drop"} /\ UNCHANGED <<disk, durable, file, ofile, cwd, alive, op, out, boot, stray>>
      /\ puts' = [puts EXCEPT ![p] = Tail(@)] /\ freeing' = [freeing EXCEPT ![p] = "no"]
  BY <1>1
<1> QED
  BY <1>2, <1>4, <1>5, <1>6, <1>7, PutDone

(* What iput() does to the inode that it frees. *)
LEMMA FreeFacts ==
  ASSUME Core, NEW p \in Proc, IputFree(p)
  PROVE  /\ puts[p] # <<>> /\ puts[p][1].i \in Inum /\ freeing[p] = "trunc" /\ boot = None /\ op[p].pc \in PutsAt
         /\ disk' = iupdate(itrunc(disk, puts[p][1].i, disk.ino[puts[p][1].i]), puts[p][1].i, Zero)
         /\ mem' \in MemType /\ mem'[puts[p][1].i].ref = mem[puts[p][1].i].ref /\ ~mem'[puts[p][1].i].valid
         /\ \A x \in Inum \ {puts[p][1].i} : mem'[x] = mem[x]
         /\ lock' = [lock EXCEPT ![puts[p][1].i] = NoProc]
         /\ freeing' = [freeing EXCEPT ![p] = "drop"]
         /\ UNCHANGED <<durable, file, ofile, cwd, alive, op, puts, out, boot, stray>>
         /\ disk.ino[puts[p][1].i].nlink = 0
         /\ panic' = IF BlocksOf(disk, disk.ino[puts[p][1].i]) \subseteq disk.used THEN panic ELSE "freeing free block"
<1>0. TypeOK /\ PcInv /\ AliveInv /\ CopyInv
  BY DEF Core
<1>1. freeing[p] = "trunc" /\ UNCHANGED <<durable, file, ofile, cwd, alive, op, puts, out, boot, stray>>
      /\ freeing' = [freeing EXCEPT ![p] = "drop"]
  BY DEF IputFree, procvars
<1>2. puts[p] # <<>>
  BY <1>0, <1>1 DEF PcInv, ProcOK
<1>3. puts[p][1].i \in Inum /\ Head(puts[p]) = puts[p][1] /\ boot = None /\ op[p].pc \in PutsAt
  BY <1>2, PutterFacts
<1>4. PICK i \in Inum : i = puts[p][1].i
  BY <1>3
<1>5. mem[i].valid /\ mem[i].c.nlink = 0 /\ mem[i].c = disk.ino[i]
  BY <1>0, <1>1, <1>4 DEF AliveInv, CopyInv
<1>6. /\ disk' = iupdate(itrunc(disk, i, mem[i].c), i, Zero)
      /\ mem' = [mem EXCEPT ![i].valid = FALSE, ![i].c = Zero]
      /\ lock' = [lock EXCEPT ![i] = NoProc]
      /\ panic' = IF BlocksOf(disk, mem[i].c) \subseteq disk.used THEN panic ELSE "freeing free block"
  BY <1>3, <1>4 DEF IputFree
<1>7. mem \in MemType
  BY <1>0 DEF TypeOK, MemType
<1>8. mem' \in MemType /\ mem'[i].ref = mem[i].ref /\ ~mem'[i].valid /\ \A x \in Inum \ {i} : mem'[x] = mem[x]
  BY <1>6, <1>7, ZeroType DEF MemType
<1> QED
  BY <1>1, <1>2, <1>3, <1>4, <1>5, <1>6, <1>8

(* itrunc() and the iupdate() of a free inode in iput() keep Core. *)
LEMMA IputFreeCore ==
  ASSUME Core, NEW p \in Proc, IputFree(p)
  PROVE  Core'
<1>0. TypeOK /\ PcInv /\ LockInv /\ RefInv /\ FileInv /\ AliveInv /\ CopyInv /\ BootInv
  BY DEF Core
<1>1. PICK i : i = puts[p][1].i
  OBVIOUS
<1>2. /\ puts[p] # <<>> /\ i \in Inum /\ freeing[p] = "trunc" /\ boot = None /\ op[p].pc \in PutsAt
      /\ disk' = iupdate(itrunc(disk, i, disk.ino[i]), i, Zero)
      /\ mem' \in MemType /\ mem'[i].ref = mem[i].ref /\ ~mem'[i].valid
      /\ \A x \in Inum \ {i} : mem'[x] = mem[x]
      /\ UNCHANGED <<durable, file, ofile, cwd, alive, op, puts, out, boot, stray>>
  BY <1>1, FreeFacts
<1>3. lock' = [lock EXCEPT ![i] = NoProc] /\ freeing' = [freeing EXCEPT ![p] = "drop"]
  BY <1>1, FreeFacts
<1>4. disk' \in DiskType /\ disk'.ino = [disk.ino EXCEPT ![i] = Zero] /\ disk'.dir = [disk.dir EXCEPT ![i] = NoEntries]
  BY <1>0, <1>2, FreeOne DEF TypeOK
<1>5. /\ \A x \in Inum \ {i} : disk'.ino[x] = disk.ino[x] /\ disk'.dir[x] = disk.dir[x]
      /\ disk'.ino[i] = Zero
  BY <1>0, <1>2, <1>4 DEF TypeOK, DiskType
<1>6. /\ lock' \in [Inum -> Proc \cup {NoProc}] /\ lock'[i] = NoProc /\ \A x \in Inum \ {i} : lock'[x] = lock[x]
      /\ freeing'[p] = "drop" /\ freeing' \in [Proc -> {"no", "trunc", "drop"}] /\ \A q \in Proc \ {p} : freeing'[q] = freeing[q]
  BY <1>0, <1>2, <1>3 DEF TypeOK
<1>7. TypeOK'
  BY <1>0, <1>2, <1>4, <1>6 DEF TypeOK, MemType
<1>8. PcInv'
  BY <1>0, <1>2, <1>6 DEF PcInv, ProcOK
<1>9. BootInv' /\ FileInv' /\ CopyInv'
  BY <1>0, <1>2, <1>5, FileSame DEF BootInv, CopyInv
<1>10. RefInv'
  <2>1. \A x \in Inum : mem'[x].ref = mem[x].ref
    BY <1>2
  <2> QED
    BY <1>0, <1>2, <2>1 DEF RefInv, FileIp, IpOf, TgtOf, Put1, Put2
<1>11. lock[i] = p /\ \A q \in Proc : q # p => ~Locks(q, i)
  BY <1>0, <1>1, <1>2 DEF LockInv, Locks, Holds
<1>12. LockInv'
  <2>1. \A q \in Proc, x \in Inum : q # p => (Locks(q, x)' <=> Locks(q, x))
    BY <1>2, <1>6 DEF Locks
  <2>2. \A x \in Inum : x # i => (Locks(p, x)' <=> Locks(p, x))
    BY <1>1, <1>2, <1>6 DEF Locks, Holds
  <2>3. ~Locks(p, i)'
    <3>1. Apart(op[p], puts[p]) /\ op[p].pc \notin {"fill", "unlink2"}
      BY <1>0, <1>2 DEF LockInv, PutsAt
    <3>2. ~(op[p].pc \in {"opened", "unlink3"} /\ op[p].tgt = i)
      BY <1>1, <1>2, <3>1 DEF Apart
    <3>3. ~(Len(puts[p]) = 2 /\ puts[p][2].unlock /\ puts[p][2].i = i)
      BY <1>1, <3>1 DEF Apart
    <3>4. Locks(p, i)' <=> Holds(op[p], puts[p], "drop", i)
      BY <1>2, <1>6 DEF Locks
    <3> QED
      BY <3>1, <3>2, <3>3, <3>4 DEF Holds
  <2>4. NoProc \notin Proc
    BY FsAssumption
  <2>5. \A q \in Proc, x \in Inum : lock'[x] = q <=> Locks(q, x)'
    BY <1>0, <1>2, <1>6, <1>11, <2>1, <2>2, <2>3, <2>4 DEF LockInv
  <2> QED
    BY <1>0, <1>2, <2>5 DEF LockInv
<1>13. Dying(i) /\ \A x \in Inum \ {i} : Dying(x)' <=> Dying(x)
  BY <1>1, <1>2, <1>6 DEF Dying
<1>14. Live \subseteq Live' /\ i \notin Live
  BY <1>5, <1>13 DEF Live
<1>15. AliveInv'
  <2>1. \A f \in File : file'[f].ip # None => file'[f].ip \in Live'
    BY <1>0, <1>2, <1>14 DEF AliveInv
  <2>2. \A q \in Proc : OpAlive(op[q])'
    <3> SUFFICES ASSUME NEW q \in Proc PROVE OpAlive(op[q])'
      OBVIOUS
    <3>1. OpAlive(op[q]) /\ op'[q] = op[q]
      BY <1>0, <1>2 DEF AliveInv
    <3>2. \A x \in Live : x \in Live' /\ disk'.ino[x] = disk.ino[x] /\ disk'.dir[x] = disk.dir[x] /\ mem'[x] = mem[x]
      BY <1>2, <1>5, <1>14 DEF Live
    <3> QED
      BY <3>1, <3>2 DEF OpAlive
  <2>3. ASSUME NEW q \in Proc, freeing'[q] = "trunc" PROVE mem'[puts'[q][1].i].valid /\ mem'[puts'[q][1].i].c.nlink = 0
    <3>1. q # p /\ freeing[q] = "trunc" /\ puts[q] # <<>>
      BY <1>0, <1>6, <2>3 DEF PcInv, ProcOK
    <3>2. puts[q][1].i # i /\ puts[q][1].i \in Inum
      BY <1>11, <3>1, PutterFacts DEF Locks, Holds
    <3> QED
      BY <1>0, <1>2, <3>1, <3>2 DEF AliveInv
  <2> QED
    BY <1>0, <1>2, <2>1, <2>2, <2>3 DEF AliveInv
<1> QED
  BY <1>7, <1>8, <1>9, <1>10, <1>12, <1>15 DEF Core

corevars == <<disk, durable, mem, lock, file, ofile, cwd, alive, op, puts, freeing, out, boot, stray>>

(* A step that leaves everything but panic alone keeps Core. *)
LEMMA StutterCore ==
  ASSUME Core, UNCHANGED corevars
  PROVE  Core'
<1>0. TypeOK /\ PcInv /\ LockInv /\ RefInv /\ FileInv /\ AliveInv /\ CopyInv /\ BootInv
  BY DEF Core
<1>1. UNCHANGED <<disk, durable, mem, lock, file, ofile, cwd, alive, op, puts, freeing, out, boot, stray>>
  BY DEF corevars
<1>2. TypeOK'
  BY <1>0, <1>1 DEF TypeOK
<1>3. PcInv'
  BY <1>0, <1>1 DEF PcInv, ProcOK
<1>4. BootInv' /\ FileInv' /\ CopyInv'
  BY <1>0, <1>1, FileSame DEF BootInv, CopyInv
<1>5. RefInv'
  BY <1>0, <1>1 DEF RefInv, FileIp, IpOf, TgtOf, Put1, Put2
<1>6. LockInv'
  BY <1>0, <1>1 DEF LockInv, Locks
<1>7. \A x \in Inum : Dying(x)' <=> Dying(x)
  BY <1>1 DEF Dying
<1>8. Live' = Live
  BY <1>1, <1>7 DEF Live
<1>9. AliveInv'
  BY <1>0, <1>1, <1>8 DEF AliveInv, OpAlive
<1> QED
  BY <1>2, <1>3, <1>4, <1>5, <1>6, <1>9 DEF Core

(* A function that is None everywhere takes no other value. *)
LEMMA OccNone ==
  ASSUME NEW S, IsFiniteSet(S), NEW F, DOMAIN F = S, \A s \in S : F[s] = None, NEW x, x # None
  PROVE  Occ(F, x) = 0
  BY OccSome

(* Idle processes. *)
LEMMA IdleProc ==
  ASSUME NEW o, o = Idle, NEW s, s = <<>>, NEW f, f = "no"
  PROVE  /\ o \in OpType /\ o.pc = "idle" /\ o.call = "none" /\ o.tgt = None /\ IpIn(o) = None /\ OpOK(o)
         /\ FirstIn(s) = None /\ SecondIn(s) = None /\ Len(s) = 0 /\ s \in Seq([i : Inum, unlock : BOOLEAN])
         /\ Apart(o, s) /\ \A x \in Inum : ~Holds(o, s, f, x)
<1>1. o \in OpType /\ o.pc = "idle" /\ o.call = "none" /\ o.tgt = None
  BY IdleType
<1>2. IpIn(o) = None /\ OpOK(o)
  BY <1>1 DEF OpOK, IpIn, HasIp, HasTgt
<1>3. FirstIn(s) = None /\ SecondIn(s) = None /\ s = <<>> /\ Len(s) = 0
  BY NoPuts
<1>4. s \in Seq([i : Inum, unlock : BOOLEAN])
  OBVIOUS
<1>5. Len(s) # 2
  BY <1>3
<1>6. Apart(o, s)
  BY <1>1, <1>3, <1>5 DEF Apart
<1>7. \A x \in Inum : ~Holds(o, s, f, x)
  BY <1>1, <1>3, <1>5 DEF Holds
<1> QED
  BY <1>1, <1>2, <1>3, <1>4, <1>6, <1>7

(* A crash keeps Core. *)
LEMMA CrashCore ==
  ASSUME Core, Crash
  PROVE  Core'
<1>0. TypeOK
  BY DEF Core
<1>1. /\ disk' = durable /\ durable' = durable /\ stray' = stray /\ boot' = 1 /\ alive' = {} /\ out' = {}
      /\ mem' = [i \in Inum |-> Absent] /\ lock' = [i \in Inum |-> NoProc] /\ file' = [f \in File |-> NoFile]
      /\ ofile' = [p \in Proc |-> [d \in Fd |-> None]] /\ cwd' = [p \in Proc |-> None]
      /\ op' = [p \in Proc |-> Idle] /\ puts' = [p \in Proc |-> <<>>] /\ freeing' = [p \in Proc |-> "no"]
  BY DEF Crash
<1>2. \A p \in Proc : op'[p] = Idle /\ puts'[p] = <<>> /\ freeing'[p] = "no" /\ cwd'[p] = None /\ \A d \in Fd : ofile'[p][d] = None
  BY <1>1
<1>3. \A p \in Proc :
         /\ op'[p] \in OpType /\ op'[p].pc = "idle" /\ op'[p].call = "none" /\ op'[p].tgt = None /\ IpIn(op'[p]) = None /\ OpOK(op'[p])
         /\ FirstIn(puts'[p]) = None /\ SecondIn(puts'[p]) = None /\ Len(puts'[p]) = 0
         /\ puts'[p] \in Seq([i : Inum, unlock : BOOLEAN])
         /\ Apart(op'[p], puts'[p]) /\ \A x \in Inum : ~Holds(op'[p], puts'[p], freeing'[p], x)
  BY <1>2, IdleProc
<1>4. /\ \A i \in Inum : mem'[i] = Absent /\ mem'[i].ref = 0 /\ ~mem'[i].valid
      /\ mem' \in MemType
  BY <1>1, ZeroType DEF Absent, MemType
<1>5. /\ \A f \in File : file'[f] = NoFile /\ file'[f].ref = 0 /\ file'[f].ip = None
      /\ file' \in FileType
  BY <1>1 DEF NoFile, FileType
<1>6. op' \in [Proc -> OpType] /\ puts' \in [Proc -> Seq([i : Inum, unlock : BOOLEAN])]
  BY <1>1, <1>3
<1>7. TypeOK'
  <2>1. boot' \in 0 .. NINODES + 1
    BY <1>1, FsAssumption
  <2>2. lock' \in [Inum -> Proc \cup {NoProc}] /\ ofile' \in [Proc -> [Fd -> {None} \cup File]]
        /\ cwd' \in [Proc -> {None} \cup Inum] /\ freeing' \in [Proc -> {"no", "trunc", "drop"}]
    BY <1>1
  <2>3. disk' \in DiskType /\ durable' \in DiskType /\ alive' \in SUBSET Proc /\ out' \in SUBSET Proc /\ stray' \in BOOLEAN
    BY <1>0, <1>1 DEF TypeOK
  <2> QED
    BY <1>4, <1>5, <1>6, <2>1, <2>2, <2>3 DEF TypeOK, MemType, FileType
<1>8. PcInv'
  <2> SUFFICES ASSUME NEW p \in Proc PROVE OpOK(op'[p]) /\ ProcOK(p)'
    BY DEF PcInv
  <2>1. OpOK(op'[p]) /\ op'[p].pc = "idle" /\ op'[p].call # "gone" /\ Len(puts'[p]) <= 2
    BY <1>3
  <2>2. puts'[p] = <<>> /\ freeing'[p] = "no" /\ cwd'[p] = None /\ (\A d \in Fd : ofile'[p][d] = None) /\ p \notin alive'
    BY <1>1, <1>2
  <2> QED
    BY <2>1, <2>2 DEF ProcOK
<1>9. BootInv'
  BY <1>1, <1>4, <1>5 DEF BootInv
<1>10. FileInv'
  <2>1. IsFiniteSet(Proc \X Fd) /\ DOMAIN Descriptor' = Proc \X Fd /\ \A s \in Proc \X Fd : Descriptor'[s] = None
    BY <1>2, FiniteFacts, FS_Product DEF Descriptor
  <2>2. \A f \in File : Occ(Descriptor', f) = 0
    BY <2>1, OccNone, ConstFacts
  <2> QED
    BY <1>5, <2>2 DEF FileInv
<1>11. RefInv'
  <2>1. /\ DOMAIN cwd' = Proc /\ DOMAIN IpOf' = Proc /\ DOMAIN TgtOf' = Proc /\ DOMAIN Put1' = Proc /\ DOMAIN Put2' = Proc
        /\ DOMAIN FileIp' = File
    BY <1>1 DEF IpOf, TgtOf, Put1, Put2, FileIp
  <2>2. /\ \A p \in Proc : cwd'[p] = None /\ IpOf'[p] = None /\ TgtOf'[p] = None /\ Put1'[p] = None /\ Put2'[p] = None
        /\ \A f \in File : FileIp'[f] = None
    BY <1>2, <1>3, <1>5 DEF IpOf, TgtOf, Put1, Put2, FileIp
  <2>3. ASSUME NEW i \in Inum
        PROVE /\ Occ(FileIp', i) = 0 /\ Occ(cwd', i) = 0 /\ Occ(IpOf', i) = 0 /\ Occ(TgtOf', i) = 0
              /\ Occ(Put1', i) = 0 /\ Occ(Put2', i) = 0
    BY <2>1, <2>2, FiniteFacts, OccNone, ConstFacts
  <2>4. \A i \in Inum : mem'[i].ref = 0
    BY <1>4
  <2> QED
    BY <2>3, <2>4 DEF RefInv
<1>12. LockInv'
  <2>1. \A i \in Inum : lock'[i] = NoProc /\ NoProc \notin Proc
    BY <1>1, FsAssumption
  <2> QED
    BY <1>3, <2>1 DEF LockInv, Locks
<1>13. CopyInv'
  BY <1>4 DEF CopyInv
<1>14. AliveInv'
  <2>1. \A p \in Proc : OpAlive(op[p])'
    BY <1>3 DEF OpAlive
  <2> QED
    BY <1>2, <1>3, <1>5, <2>1 DEF AliveInv
<1> QED
  BY <1>7, <1>8, <1>9, <1>10, <1>11, <1>12, <1>13, <1>14 DEF Core

(* A step of ireclaim() keeps Core. *)
LEMMA ReclaimCore ==
  ASSUME Core, Reclaim
  PROVE  Core'
<1>0. TypeOK /\ PcInv /\ LockInv /\ RefInv /\ FileInv /\ AliveInv /\ CopyInv /\ BootInv
  BY DEF Core
<1>1. /\ boot \in Inum /\ boot' = boot + 1 /\ durable' = disk'
      /\ UNCHANGED <<mem, lock, file, ofile, cwd, alive, op, puts, freeing, out, stray>>
  BY DEF Reclaim, procvars
<1>2. disk' \in DiskType
  <2>1. disk \in DiskType
    BY <1>0 DEF TypeOK
  <2>2. disk' = disk \/ disk' = iupdate(itrunc(disk, boot, disk.ino[boot]), boot, Zero)
    BY DEF Reclaim
  <2> QED
    BY <1>1, <2>1, <2>2, FreeOne
<1>3. boot # None /\ boot' # None /\ boot' \in 0 .. NINODES + 1
  BY <1>1, FsAssumption DEF Inum, None
<1>4. /\ alive = {} /\ \A i \in Inum : mem[i] = Absent
      /\ \A f \in File : file[f] = NoFile
  BY <1>0, <1>3 DEF BootInv
<1>5. \A p \in Proc : op[p].pc = "idle" /\ freeing[p] = "no"
  BY <1>4, AbsentProc
<1>6. TypeOK'
  BY <1>0, <1>1, <1>2, <1>3 DEF TypeOK
<1>7. PcInv'
  BY <1>0, <1>1 DEF PcInv, ProcOK
<1>8. BootInv' /\ FileInv'
  BY <1>0, <1>1, <1>3, FileSame DEF BootInv
<1>9. RefInv'
  BY <1>0, <1>1 DEF RefInv, FileIp, IpOf, TgtOf, Put1, Put2
<1>10. LockInv'
  BY <1>0, <1>1 DEF LockInv, Locks
<1>11. CopyInv'
  BY <1>1, <1>4 DEF CopyInv, Absent
<1>12. AliveInv'
  <2>1. \A p \in Proc : OpAlive(op[p])'
    BY <1>1, <1>5 DEF OpAlive
  <2>2. \A f \in File : file'[f].ip = None
    BY <1>1, <1>4 DEF NoFile
  <2> QED
    BY <1>1, <1>5, <2>1, <2>2 DEF AliveInv
<1> QED
  BY <1>6, <1>7, <1>8, <1>9, <1>10, <1>11, <1>12 DEF Core

---------------------------------------------------------------------------
(* The disk at first.                                                      *)

(* The disk that mkfs starts with. *)
LEMMA BlankType ==
  /\ Blank \in DiskType /\ (\A i \in Inum : Blank.ino[i] = Zero /\ Blank.dir[i] = NoEntries) /\ Blank.used = {}
  BY ZeroType, NoEntriesType DEF Blank, DiskType, None

(* What the ialloc() of mkfs makes of the disk. *)
LEMMA MkInodeFacts ==
  ASSUME NEW D \in DiskType, NEW i \in Inum, NEW c, c = [Zero EXCEPT !.type = "dir", !.nlink = 1]
  PROVE  /\ c \in Dinode /\ c.type = "dir" /\ c.nlink = 1 /\ c.addrs = Zero.addrs
         /\ MkInode(D, i, "dir") \in DiskType /\ MkInode(D, i, "dir").ino = [D.ino EXCEPT ![i] = c]
         /\ MkInode(D, i, "dir").dir = D.dir /\ MkInode(D, i, "dir").used = D.used /\ MkInode(D, i, "dir").ind = D.ind
<1>0. c = [type |-> "dir", nlink |-> 1, size |-> 0, addrs |-> Zero.addrs]
  BY DEF Zero
<1>1. c \in Dinode /\ c.type = "dir" /\ c.nlink = 1 /\ c.addrs = Zero.addrs
  <2>1. PICK a \in [0 .. NDIRECT -> {None} \cup Block] : a = Zero.addrs
    BY ZeroType
  <2>2. c = [type |-> "dir", nlink |-> 1, size |-> 0, addrs |-> a]
    BY <1>0, <2>1
  <2> QED
    BY <2>1, <2>2 DEF Dinode, Kind
<1>2. MkInode(D, i, "dir") = iupdate(D, i, c)
  BY DEF MkInode, iupdate
<1> QED
  BY <1>0, <1>1, <1>2, UpdateOne

(* mkfs's iappend() gives the directory an entry, and its block if need be. *)
LEMMA AppendFacts ==
  ASSUME NEW D \in DiskType, NEW dp \in Inum, NEW name \in DirNames, NEW i \in Inum, NEW b \in Block,
         b = IF D.ino[dp].addrs[0] = 0 THEN Cardinality(D.used) + 1 ELSE D.ino[dp].addrs[0],
         NEW E, E = iappend(D, dp, name, i)
  PROVE  /\ E \in DiskType /\ E.used = D.used \cup {b} /\ E.ind = D.ind
         /\ \A x \in Inum \ {dp} : E.ino[x] = D.ino[x] /\ E.dir[x] = D.dir[x]
         /\ E.ino[dp].addrs = [D.ino[dp].addrs EXCEPT ![0] = b] /\ E.ino[dp].type = D.ino[dp].type
         /\ E.ino[dp].nlink = D.ino[dp].nlink
         /\ E.dir[dp] = [D.dir[dp] EXCEPT ![name] = i]
<1>1. E = [D EXCEPT !.dir[dp][name] = i, !.ino[dp].addrs[0] = b, !.used = D.used \cup {b}]
  BY DEF iappend
<1>2. PICK c : c = [D.ino[dp] EXCEPT !.addrs[0] = b]
  OBVIOUS
<1>3. D.ino[dp] \in Dinode /\ 0 \in 0 .. NDIRECT /\ b \in {None} \cup Block
  BY ConstFacts DEF DiskType
<1>4. c \in Dinode /\ c.addrs = [D.ino[dp].addrs EXCEPT ![0] = b] /\ c.type = D.ino[dp].type /\ c.nlink = D.ino[dp].nlink
  BY <1>2, <1>3, SetAddr
<1>5. PICK e : e = [D.dir[dp] EXCEPT ![name] = i]
  OBVIOUS
<1>6. e \in [DirNames -> {None} \cup Inum]
  BY <1>5 DEF DiskType
<1>7. E = [D EXCEPT !.dir[dp] = e, !.ino[dp] = c, !.used = D.used \cup {b}]
  BY <1>1, <1>2, <1>5 DEF DiskType
<1>8. E.dir = [D.dir EXCEPT ![dp] = e] /\ E.ino = [D.ino EXCEPT ![dp] = c] /\ E.used = D.used \cup {b} /\ E.ind = D.ind
      /\ E \in DiskType
  <2> DEFINE F == [D EXCEPT !.dir = [D.dir EXCEPT ![dp] = e], !.ino = [D.ino EXCEPT ![dp] = c], !.used = D.used \cup {b}]
  <2>1. E = F
    BY <1>7 DEF DiskType
  <2>2. [D.dir EXCEPT ![dp] = e] \in [Inum -> [DirNames -> {None} \cup Inum]] /\ [D.ino EXCEPT ![dp] = c] \in [Inum -> Dinode]
        /\ D.used \cup {b} \in SUBSET Block
    BY <1>4, <1>6 DEF DiskType
  <2>3. F \in DiskType
    BY <2>2 DEF DiskType
  <2>4. F.dir = [D.dir EXCEPT ![dp] = e] /\ F.ino = [D.ino EXCEPT ![dp] = c] /\ F.used = D.used \cup {b} /\ F.ind = D.ind
    BY DEF DiskType
  <2> HIDE DEF F
  <2> QED
    BY <2>1, <2>3, <2>4
<1>9. \A x \in Inum \ {dp} : E.ino[x] = D.ino[x] /\ E.dir[x] = D.dir[x]
  BY <1>8 DEF DiskType
<1>10. E.ino[dp] = c /\ E.dir[dp] = e
  BY <1>8 DEF DiskType
<1> QED
  BY <1>4, <1>5, <1>8, <1>9, <1>10

(* A disk with the directories 1 .. n + 1, each in the one before. *)
Shape(D, n, dirs) ==
  /\ D \in DiskType /\ D.used = 1 .. n + 1
  /\ \A i \in Inum : i > n + 1 => D.ino[i] = Zero /\ D.dir[i] = NoEntries
  /\ \A i \in Inum : i <= n + 1 =>
       /\ D.ino[i].type = "dir" /\ D.ino[i].nlink = (IF i > n THEN 1 ELSE 2)
       /\ D.ino[i].addrs[0] = i /\ \A m \in 1 .. NDIRECT : D.ino[i].addrs[m] = None
       /\ D.dir[i]["."] = i /\ D.dir[i][".."] = (IF i = ROOTINO THEN i ELSE i - 1)
       /\ \A m \in Names : D.dir[i][m] = (IF i <= n /\ m = dirs[i] THEN i + 1 ELSE None)

(* The image of mkfs has the root and nothing else. *)
LEMMA ImageFacts == Shape(Image, 0, <<>>)
<1>1. PICK c : c = [Zero EXCEPT !.type = "dir", !.nlink = 1]
  OBVIOUS
<1>2. PICK R : R = MkInode(Blank, ROOTINO, "dir")
  OBVIOUS
<1>3. /\ c.type = "dir" /\ c.nlink = 1 /\ c.addrs = Zero.addrs
      /\ R \in DiskType /\ R.ino = [Blank.ino EXCEPT ![ROOTINO] = c] /\ R.dir = Blank.dir /\ R.used = {}
  BY <1>1, <1>2, BlankType, ConstFacts, MkInodeFacts
<1>4. R.ino[ROOTINO] = c /\ \A x \in Inum \ {ROOTINO} : R.ino[x] = Zero /\ R.dir[x] = NoEntries
  BY <1>3, BlankType, ConstFacts DEF DiskType
<1>5. R.dir[ROOTINO] = NoEntries
  BY <1>3, BlankType, ConstFacts
<1>6. PICK b \in Block : b = 1 /\ b = IF R.ino[ROOTINO].addrs[0] = 0 THEN Cardinality(R.used) + 1 ELSE R.ino[ROOTINO].addrs[0]
  <2>1. R.ino[ROOTINO].addrs[0] = 0 /\ Cardinality(R.used) = 0
    BY <1>3, <1>4, ZeroType, ConstFacts, FS_EmptySet DEF None
  <2>2. 1 \in Block
    BY FsAssumption DEF Block
  <2> QED
    BY <2>1, <2>2
<1>7. PICK S : S = iappend(R, ROOTINO, ".", ROOTINO)
  OBVIOUS
<1>8. /\ S \in DiskType /\ S.used = R.used \cup {b}
      /\ \A x \in Inum \ {ROOTINO} : S.ino[x] = R.ino[x] /\ S.dir[x] = R.dir[x]
      /\ S.ino[ROOTINO].addrs = [R.ino[ROOTINO].addrs EXCEPT ![0] = b] /\ S.ino[ROOTINO].type = R.ino[ROOTINO].type
      /\ S.ino[ROOTINO].nlink = R.ino[ROOTINO].nlink
      /\ S.dir[ROOTINO] = [R.dir[ROOTINO] EXCEPT !["."] = ROOTINO]
  <2>1. R \in DiskType /\ ROOTINO \in Inum /\ "." \in DirNames /\ S = iappend(R, ROOTINO, ".", ROOTINO)
        /\ b = IF R.ino[ROOTINO].addrs[0] = 0 THEN Cardinality(R.used) + 1 ELSE R.ino[ROOTINO].addrs[0]
    BY <1>3, <1>6, <1>7, ConstFacts
  <2> QED
    BY <2>1, AppendFacts
<1>9. S.ino[ROOTINO].addrs \in [0 .. NDIRECT -> {None} \cup Block] /\ S.ino[ROOTINO].addrs[0] = 1
      /\ \A m \in 1 .. NDIRECT : S.ino[ROOTINO].addrs[m] = None
  BY <1>3, <1>4, <1>6, <1>8, ZeroType, ConstFacts DEF DiskType, Dinode
<1>10. b = IF S.ino[ROOTINO].addrs[0] = 0 THEN Cardinality(S.used) + 1 ELSE S.ino[ROOTINO].addrs[0]
  BY <1>6, <1>9
<1>11. PICK T : T = iappend(S, ROOTINO, "..", ROOTINO)
  OBVIOUS
<1>12. /\ T \in DiskType /\ T.used = S.used \cup {b}
       /\ \A x \in Inum \ {ROOTINO} : T.ino[x] = S.ino[x] /\ T.dir[x] = S.dir[x]
       /\ T.ino[ROOTINO].addrs = [S.ino[ROOTINO].addrs EXCEPT ![0] = b] /\ T.ino[ROOTINO].type = S.ino[ROOTINO].type
       /\ T.ino[ROOTINO].nlink = S.ino[ROOTINO].nlink
       /\ T.dir[ROOTINO] = [S.dir[ROOTINO] EXCEPT ![".."] = ROOTINO]
  <2>1. S \in DiskType /\ ROOTINO \in Inum /\ ".." \in DirNames /\ T = iappend(S, ROOTINO, "..", ROOTINO)
        /\ b = IF S.ino[ROOTINO].addrs[0] = 0 THEN Cardinality(S.used) + 1 ELSE S.ino[ROOTINO].addrs[0]
    BY <1>8, <1>10, <1>11, ConstFacts
  <2> QED
    BY <2>1, AppendFacts
<1>13. /\ T.ino[ROOTINO].addrs[0] = 1 /\ \A m \in 1 .. NDIRECT : T.ino[ROOTINO].addrs[m] = None
  BY <1>6, <1>9, <1>12, ConstFacts
<1>14. /\ T.dir[ROOTINO]["."] = ROOTINO /\ T.dir[ROOTINO][".."] = ROOTINO
       /\ \A m \in Names : T.dir[ROOTINO][m] = None
  <2>1. NoEntries \in [DirNames -> {None} \cup Inum] /\ \A m \in DirNames : NoEntries[m] = None
    BY NoEntriesType
  <2>2. S.dir[ROOTINO] = [NoEntries EXCEPT !["."] = ROOTINO]
    BY <1>5, <1>8
  <2> QED
    BY <1>12, <2>1, <2>2, ConstFacts
<1>15. Image = [T EXCEPT !.ino[ROOTINO].size = 1]
  BY <1>2, <1>7, <1>11 DEF Image
<1>16. PICK d : d = [T.ino[ROOTINO] EXCEPT !.size = 1]
  OBVIOUS
<1>17. d \in Dinode /\ d.type = T.ino[ROOTINO].type /\ d.nlink = T.ino[ROOTINO].nlink /\ d.addrs = T.ino[ROOTINO].addrs
  <2>1. T.ino[ROOTINO] \in Dinode
    BY <1>12, ConstFacts DEF DiskType
  <2> QED
    BY <1>16, <2>1 DEF Dinode
<1>18. Image = [T EXCEPT !.ino[ROOTINO] = d]
  BY <1>12, <1>15, <1>16, ConstFacts DEF DiskType
<1>19. /\ Image \in DiskType /\ Image.used = T.used /\ Image.dir = T.dir /\ Image.ino[ROOTINO] = d
       /\ \A x \in Inum \ {ROOTINO} : Image.ino[x] = T.ino[x]
  BY <1>12, <1>17, <1>18, ConstFacts DEF DiskType
<1>20. Image.used = 1 .. 0 + 1
  BY <1>3, <1>6, <1>8, <1>12, <1>19
<1>21. \A i \in Inum : i > 0 + 1 => Image.ino[i] = Zero /\ Image.dir[i] = NoEntries
  BY <1>4, <1>8, <1>12, <1>19 DEF ROOTINO
<1>22. \A i \in Inum : i <= 0 + 1 => i = ROOTINO
  BY DEF ROOTINO, Inum
<1>23. Image.ino[ROOTINO].type = "dir" /\ Image.ino[ROOTINO].nlink = 1
  BY <1>3, <1>4, <1>8, <1>12, <1>17, <1>19
<1>24. Image.ino[ROOTINO].addrs[0] = 1 /\ \A m \in 1 .. NDIRECT : Image.ino[ROOTINO].addrs[m] = None
  BY <1>13, <1>17, <1>19
<1>25. ROOTINO = 1 /\ ROOTINO > 0 /\ ~(ROOTINO <= 0)
  BY DEF ROOTINO
<1> QED
  BY <1>14, <1>19, <1>20, <1>21, <1>22, <1>23, <1>24, <1>25 DEF Shape

(* The image with some directories, each in the one before, has their
   shape.                                                                 *)
LEMMA NestFacts ==
  ASSUME NEW dirs \in Seq(Names), NEW n \in Nat, n = Len(dirs), n < NINODES, n < FSSIZE
  PROVE  Shape(Nest(dirs), n, dirs)
<1>1. Image \in DiskType /\ NINODES \in Nat /\ FSSIZE \in Nat
  BY ImageFacts, FsAssumption DEF Shape
<1>2. \A i \in Inum : i <= n => dirs[i] \in Names
  BY DEF Inum
<1> DEFINE Addrs(i) == [Zero.addrs EXCEPT ![0] = i]
           Dino(i) == [type |-> "dir", nlink |-> IF i > n THEN 1 ELSE 2, size |-> 1, addrs |-> Addrs(i)]
           Ent(i) == [m \in DirNames |-> IF m = "." THEN i
                                         ELSE IF m = ".." THEN (IF i = ROOTINO THEN i ELSE i - 1)
                                         ELSE IF i <= n /\ m = dirs[i] THEN i + 1 ELSE None]
           I == [i \in Inum |-> IF i > n + 1 THEN Zero ELSE Dino(i)]
           E == [i \in Inum |-> IF i > n + 1 THEN NoEntries ELSE Ent(i)]
<1>3. \A i \in Inum : i <= n + 1 => i \in Block
  BY <1>1 DEF Inum, Block
<1>4. \A i \in Inum : i <= n + 1 => /\ Addrs(i) \in [0 .. NDIRECT -> {None} \cup Block] /\ Addrs(i)[0] = i
                                    /\ \A m \in 1 .. NDIRECT : Addrs(i)[m] = None
  BY <1>3, ZeroType, ConstFacts
<1>5. \A i \in Inum : i <= n + 1 => /\ Dino(i) \in Dinode /\ Dino(i).type = "dir" /\ Dino(i).nlink = (IF i > n THEN 1 ELSE 2)
                                    /\ Dino(i).addrs = Addrs(i)
  <2> HIDE DEF Addrs
  <2> QED
    BY <1>4 DEF Dinode, Kind
<1>6. \A i \in Inum : i <= n + 1 => Ent(i) \in [DirNames -> {None} \cup Inum]
  BY <1>1 DEF Inum, ROOTINO
<1>7. \A i \in Inum : /\ Ent(i)["."] = i /\ Ent(i)[".."] = (IF i = ROOTINO THEN i ELSE i - 1)
                      /\ \A m \in Names : Ent(i)[m] = (IF i <= n /\ m = dirs[i] THEN i + 1 ELSE None)
  BY ConstFacts
<1>8. Nest(dirs) = [Image EXCEPT !.ino = I, !.dir = E, !.used = 1 .. n + 1]
  BY DEF Nest
<1> HIDE DEF Dino, Ent, Addrs
<1>9. I \in [Inum -> Dinode] /\ E \in [Inum -> [DirNames -> {None} \cup Inum]] /\ 1 .. n + 1 \subseteq Block
  <2>1. \A i \in Inum : i > n + 1 \/ i <= n + 1
    BY DEF Inum
  <2>2. 1 .. n + 1 \subseteq Block
    BY <1>1 DEF Block
  <2> QED
    BY <1>5, <1>6, <2>1, <2>2, ZeroType, NoEntriesType
<1>10. \A i \in Inum : /\ i > n + 1 => I[i] = Zero /\ E[i] = NoEntries
                       /\ i <= n + 1 => I[i] = Dino(i) /\ E[i] = Ent(i)
  BY DEF Inum
<1> HIDE DEF I, E
<1>11. Nest(dirs) \in DiskType /\ Nest(dirs).ino = I /\ Nest(dirs).dir = E /\ Nest(dirs).used = 1 .. n + 1
  BY <1>1, <1>8, <1>9 DEF DiskType
<1> QED
  BY <1>4, <1>5, <1>7, <1>10, <1>11 DEF Shape

(* The disk at first. *)
LEMMA InitDisk ==
  ASSUME Init
  PROVE  \E dirs \in Nested : \E n \in Nat :
           /\ Shape(disk, n, dirs) /\ n = Len(dirs) /\ n < NINODES /\ dirs \in Seq(Names)
           /\ mem = [i \in Inum |-> IF i = n + ROOTINO THEN [Absent EXCEPT !.ref = 1] ELSE Absent]
           /\ cwd = [p \in Proc |-> IF p = First THEN n + ROOTINO ELSE None]
<1>1. PICK dirs \in Nested :
        /\ disk = IF dirs = <<>> THEN Image ELSE Nest(dirs)
        /\ mem = [i \in Inum |-> IF i = Len(dirs) + ROOTINO THEN [Absent EXCEPT !.ref = 1] ELSE Absent]
        /\ cwd = [p \in Proc |-> IF p = First THEN Len(dirs) + ROOTINO ELSE None]
  BY DEF Init
<1>2. dirs \in Seq(Names) /\ Len(dirs) < NINODES /\ Len(dirs) < FSSIZE
  BY FsAssumption
<1>3. PICK n \in Nat : n = Len(dirs)
  BY <1>2
<1>4. Shape(disk, n, dirs)
  <2>1. CASE dirs = <<>>
    <3>1. n = 0
      BY <1>3, <2>1
    <3> QED
      BY <1>1, <2>1, <3>1, ImageFacts
  <2>2. CASE dirs # <<>>
    BY <1>1, <1>2, <1>3, <2>2, NestFacts
  <2> QED
    BY <2>1, <2>2
<1> QED
  BY <1>1, <1>2, <1>3, <1>4

(* Core holds at first. *)
LEMMA InitCore ==
  ASSUME Init
  PROVE  Core
<1>1. PICK dirs \in Nested : \E n \in Nat :
        /\ Shape(disk, n, dirs) /\ n < NINODES
        /\ mem = [i \in Inum |-> IF i = n + ROOTINO THEN [Absent EXCEPT !.ref = 1] ELSE Absent]
        /\ cwd = [p \in Proc |-> IF p = First THEN n + ROOTINO ELSE None]
  BY InitDisk
<1>2. PICK n \in Nat :
        /\ Shape(disk, n, dirs) /\ n < NINODES
        /\ mem = [i \in Inum |-> IF i = n + ROOTINO THEN [Absent EXCEPT !.ref = 1] ELSE Absent]
        /\ cwd = [p \in Proc |-> IF p = First THEN n + ROOTINO ELSE None]
  BY <1>1
<1>3. PICK w \in Inum : w = n + ROOTINO
  BY <1>2, FsAssumption DEF Inum, ROOTINO
<1>4. /\ durable = disk /\ lock = [i \in Inum |-> NoProc] /\ file = [f \in File |-> NoFile]
      /\ ofile = [p \in Proc |-> [d \in Fd |-> None]] /\ alive = {First} /\ op = [p \in Proc |-> Idle]
      /\ puts = [p \in Proc |-> <<>>] /\ freeing = [p \in Proc |-> "no"] /\ out = {} /\ boot = None /\ stray = FALSE
  BY DEF Init
<1>5. \A p \in Proc : op[p] = Idle /\ puts[p] = <<>> /\ freeing[p] = "no" /\ \A d \in Fd : ofile[p][d] = None
  BY <1>4
<1>6. cwd[First] = w /\ (\A p \in Proc \ {First} : cwd[p] = None) /\ First \in Proc /\ cwd \in [Proc -> {None} \cup Inum]
  BY <1>2, <1>3, FsAssumption
<1>7. \A p \in Proc :
         /\ op[p] \in OpType /\ op[p].pc = "idle" /\ op[p].call = "none" /\ op[p].tgt = None /\ IpIn(op[p]) = None /\ OpOK(op[p])
         /\ FirstIn(puts[p]) = None /\ SecondIn(puts[p]) = None /\ Len(puts[p]) = 0
         /\ puts[p] \in Seq([i : Inum, unlock : BOOLEAN])
         /\ Apart(op[p], puts[p]) /\ \A x \in Inum : ~Holds(op[p], puts[p], freeing[p], x)
  BY <1>5, IdleProc
<1>8. /\ \A i \in Inum : ~mem[i].valid /\ mem[i].ref = Is(w, i)
      /\ mem \in MemType
  <2>1. Absent = [ref |-> 0, valid |-> FALSE, c |-> Zero] /\ Absent \in [ref : Nat, valid : BOOLEAN, c : Dinode]
    BY ZeroType DEF Absent
  <2>2. PICK e : e = [Absent EXCEPT !.ref = 1]
    OBVIOUS
  <2>3. e \in [ref : Nat, valid : BOOLEAN, c : Dinode] /\ e.ref = 1 /\ ~e.valid
    BY <2>1, <2>2
  <2>4. mem = [i \in Inum |-> IF i = w THEN e ELSE Absent]
    BY <1>2, <1>3, <2>2
  <2>5. mem \in MemType
    BY <2>1, <2>3, <2>4 DEF MemType
  <2>6. \A i \in Inum : ~mem[i].valid /\ mem[i].ref = Is(w, i)
    BY <2>1, <2>3, <2>4 DEF Is
  <2> QED
    BY <2>5, <2>6
<1>9. /\ \A f \in File : file[f] = NoFile /\ file[f].ref = 0 /\ file[f].ip = None
      /\ file \in FileType
  BY <1>4 DEF NoFile, FileType
<1>10. TypeOK
  <2>1. boot \in 0 .. NINODES + 1
    BY <1>4, FsAssumption DEF None
  <2>2. lock \in [Inum -> Proc \cup {NoProc}] /\ ofile \in [Proc -> [Fd -> {None} \cup File]]
        /\ freeing \in [Proc -> {"no", "trunc", "drop"}]
    BY <1>4
  <2>3. disk \in DiskType /\ durable \in DiskType /\ alive \in SUBSET Proc /\ out \in SUBSET Proc /\ stray \in BOOLEAN
    BY <1>2, <1>4, FsAssumption DEF Shape
  <2>4. op \in [Proc -> OpType] /\ puts \in [Proc -> Seq([i : Inum, unlock : BOOLEAN])]
    BY <1>4, <1>7
  <2> QED
    BY <1>6, <1>8, <1>9, <2>1, <2>2, <2>3, <2>4 DEF TypeOK, MemType, FileType
<1>11. PcInv
  <2> SUFFICES ASSUME NEW p \in Proc PROVE OpOK(op[p]) /\ ProcOK(p)
    BY DEF PcInv
  <2>1. OpOK(op[p]) /\ op[p].pc = "idle" /\ op[p].call # "gone" /\ Len(puts[p]) <= 2
    BY <1>7
  <2>2. puts[p] = <<>> /\ freeing[p] = "no" /\ (\A d \in Fd : ofile[p][d] = None)
    BY <1>5
  <2>3. (p \in alive => cwd[p] # None) /\ (p \notin alive => cwd[p] = None)
    BY <1>4, <1>6, ConstFacts
  <2> QED
    BY <2>1, <2>2, <2>3 DEF ProcOK
<1>12. BootInv
  BY <1>4 DEF BootInv
<1>13. FileInv
  <2>1. IsFiniteSet(Proc \X Fd) /\ DOMAIN Descriptor = Proc \X Fd /\ \A s \in Proc \X Fd : Descriptor[s] = None
    BY <1>5, FiniteFacts, FS_Product DEF Descriptor
  <2>2. \A f \in File : Occ(Descriptor, f) = 0
    BY <2>1, OccNone, ConstFacts
  <2> QED
    BY <1>9, <2>2 DEF FileInv
<1>14. RefInv
  <2>1. /\ DOMAIN cwd = Proc /\ DOMAIN IpOf = Proc /\ DOMAIN TgtOf = Proc /\ DOMAIN Put1 = Proc /\ DOMAIN Put2 = Proc
        /\ DOMAIN FileIp = File
    BY <1>6 DEF IpOf, TgtOf, Put1, Put2, FileIp
  <2>2. /\ \A p \in Proc : IpOf[p] = None /\ TgtOf[p] = None /\ Put1[p] = None /\ Put2[p] = None
        /\ \A f \in File : FileIp[f] = None
    BY <1>5, <1>7, <1>9 DEF IpOf, TgtOf, Put1, Put2, FileIp
  <2> SUFFICES ASSUME NEW i \in Inum
        PROVE mem[i].ref = Occ(FileIp, i) + Occ(cwd, i) + Occ(IpOf, i) + Occ(TgtOf, i) + Occ(Put1, i) + Occ(Put2, i)
    BY DEF RefInv
  <2>3. /\ Occ(FileIp, i) = 0 /\ Occ(IpOf, i) = 0 /\ Occ(TgtOf, i) = 0 /\ Occ(Put1, i) = 0 /\ Occ(Put2, i) = 0
    BY <2>1, <2>2, FiniteFacts, OccNone, ConstFacts
  <2>4. Occ(cwd, i) = Is(w, i)
    <3>1. PICK G : G = [p \in Proc |-> None]
      OBVIOUS
    <3>2. DOMAIN G = Proc /\ (\A p \in Proc : G[p] = None) /\ i # None
      BY <3>1, ConstFacts
    <3>3. Occ(G, i) = 0
      BY <3>2, FiniteFacts, OccNone
    <3>4. Occ(cwd, i) = Occ(G, i) - Is(G[First], i) + Is(cwd[First], i)
      BY <1>6, <2>1, <3>2, FiniteFacts, OccStep
    <3>5. Is(G[First], i) = 0 /\ Is(w, i) \in Nat
      BY <1>6, <3>2, IsFacts
    <3> QED
      BY <1>6, <3>3, <3>4, <3>5
  <2>5. Is(w, i) \in Nat /\ mem[i].ref = Is(w, i)
    BY <1>8, IsFacts
  <2> QED
    BY <2>3, <2>4, <2>5
<1>15. LockInv
  <2>1. \A i \in Inum : lock[i] = NoProc /\ NoProc \notin Proc
    BY <1>4, FsAssumption
  <2> QED
    BY <1>7, <2>1 DEF LockInv, Locks
<1>16. CopyInv
  BY <1>8 DEF CopyInv
<1>17. AliveInv
  <2>1. \A p \in Proc : OpAlive(op[p])
    BY <1>7 DEF OpAlive
  <2> QED
    BY <1>5, <1>7, <1>9, <2>1 DEF AliveInv
<1> QED
  BY <1>10, <1>11, <1>12, <1>13, <1>14, <1>15, <1>16, <1>17 DEF Core

(* Every step keeps Core. *)
LEMMA NextCore ==
  ASSUME Core, [Next]_vars
  PROVE  Core'
<1>1. CASE \E p \in Proc : Call(p) \/ Namex(p) \/ NamexDone(p) \/ Create(p) \/ CreateExists(p) \/ CreateFill(p)
  BY <1>1, CallCore, NamexCore, NamexDoneCore, CreateCore, CreateExistsCore, CreateFillCore
<1>2. CASE \E p \in Proc : Iput(p) \/ IputFree(p) \/ IputDrop(p) \/ IlockPanic(p)
  <2>1. ASSUME NEW p \in Proc, IlockPanic(p) PROVE Core'
    <3>1. UNCHANGED corevars
      BY <2>1 DEF IlockPanic, corevars, procvars
    <3> QED
      BY <3>1, StutterCore
  <2> QED
    BY <1>2, <2>1, IputCore, IputFreeCore, IputDropCore
<1>3. CASE \E p \in Proc : Open(p) \/ OpenCreated(p) \/ Dup(p) \/ Close(p) \/ Write(p) \/ Read(p) \/ Fstat(p)
  BY <1>3, OpenCore, OpenCreatedCore, DupCore, CloseCore, WriteCore, ReadCore, FstatCore
<1>4. CASE \E p \in Proc : LinkCount(p) \/ LinkEnter(p) \/ LinkBad(p) \/ Unlink(p) \/ UnlinkEntry(p) \/ UnlinkCount(p) \/ Chdir(p)
  BY <1>4, LinkCountCore, LinkEnterCore, LinkBadCore, UnlinkCore, UnlinkEntryCore, UnlinkCountCore, ChdirCore
<1>5. CASE \E p \in Proc : Fork(p) \/ Exit(p) \/ ExitClose(p) \/ ExitCwd(p) \/ End(p)
  BY <1>5, ForkCore, ExitCore, ExitCloseCore, ExitCwdCore, EndCore
<1>6. CASE Crash \/ Reclaim \/ Booted
  BY <1>6, CrashCore, ReclaimCore, BootedCore
<1>7. CASE UNCHANGED vars
  <2>1. UNCHANGED corevars
    BY <1>7 DEF vars, corevars
  <2> QED
    BY <2>1, StutterCore
<1> QED
  BY <1>1, <1>2, <1>3, <1>4, <1>5, <1>6, <1>7 DEF Next

(* The core of the file system: every inode's and every file's reference
   count is the number of descriptors, directories and calls that refer
   to it, the inode locks are where the calls under way say, a valid copy
   in the inode table is what is on the disk, and nothing that is
   referred to is free: iget(), iput(), ilock(), fileclose(), kfork() and
   kexit().                                                               *)
THEOREM CoreInvariant == Spec => []Core
<1>1. Init => Core
  BY InitCore
<1>2. Core /\ [Next]_vars => Core'
  BY NextCore
<1> QED
  BY <1>1, <1>2, PTL DEF Spec

---------------------------------------------------------------------------
(* Blocks.  The disk stays clean and its blocks stay owned, step by step.   *)

(* A disk that is clean and whose blocks are owned. *)
Good(D) == CleanDisk(D) /\ OwnedDisk(D)

(* What keeps free inodes blank and entries in directories. *)
LEMMA CleanSame ==
  ASSUME NEW D, NEW E, CleanDisk(D),
         \A x \in Inum : E.ino[x].type = D.ino[x].type,
         \A x \in Inum : D.ino[x].type = "free" => E.ino[x] = D.ino[x],
         \A x \in Inum : D.ino[x].type # "dir" => E.dir[x] = D.dir[x] \/ E.dir[x] = NoEntries
  PROVE  CleanDisk(E)
  BY DEF CleanDisk

(* Only the link count of i changes, to n. *)
Recounted(i, n) ==
  /\ i \in Inum /\ n \in Int /\ disk.ino[i].type # "free"
  /\ disk' \in DiskType /\ disk'.dir = disk.dir
  /\ disk'.ino[i].type = disk.ino[i].type /\ disk'.ino[i].nlink = n
  /\ \A x \in Inum \ {i} : disk'.ino[x] = disk.ino[x]
  /\ OwnedDisk(disk) => OwnedDisk(disk')

(* What a new link count changes. *)
LEMMA RecountFacts ==
  ASSUME TypeOK, NEW i \in Inum, disk.ino[i].type # "free", NEW n \in Int,
         disk' = iupdate(disk, i, Counted(disk, i, n))
  PROVE  Recounted(i, n)
<1>1. disk \in DiskType
  BY DEF TypeOK
<1>2. PICK E : E = iupdate(disk, i, Counted(disk, i, n))
  OBVIOUS
<1>3. /\ E \in DiskType /\ E.dir = disk.dir /\ E.ino[i].type = disk.ino[i].type /\ E.ino[i].nlink = n
      /\ \A x \in Inum \ {i} : E.ino[x] = disk.ino[x]
      /\ OwnedDisk(disk) => OwnedDisk(E)
  BY <1>1, <1>2, CountOne
<1>4. disk' = E
  BY <1>2
<1> QED
  BY <1>3, <1>4 DEF Recounted

(* A new link count leaves blocks and entries alone. *)
LEMMA RecountGood ==
  ASSUME Good(disk), NEW i, NEW n, Recounted(i, n)
  PROVE  Good(disk')
<1>1. /\ \A x \in Inum : disk'.ino[x].type = disk.ino[x].type
      /\ \A x \in Inum : disk.ino[x].type = "free" => disk'.ino[x] = disk.ino[x]
      /\ disk'.dir = disk.dir /\ OwnedDisk(disk')
  BY DEF Recounted, Good
<1> QED
  BY <1>1, CleanSame DEF Good

(* Where a process goes when Goto() moves it. *)
Moved(p, l) ==
  /\ op'[p] \in OpType /\ op'[p].pc = l
  /\ l = "end" => op'[p].tgt = None
  /\ l # "end" => op'[p].tgt = op[p].tgt /\ op'[p].ip = op[p].ip /\ op'[p].then = op[p].then /\ op'[p].up = op[p].up
                  /\ op'[p].path = op[p].path /\ op'[p].call = op[p].call
  /\ \A q \in Proc \ {p} : op'[q] = op[q]

(* Goto() moves one process. *)
LEMMA GotoMoves ==
  ASSUME TypeOK, NEW p \in Proc, NEW l \in Labels, Goto(p, l)
  PROVE  Moved(p, l)
<1>1. PICK o \in OpType :
           /\ op' = [op EXCEPT ![p] = o] /\ o.pc = l
           /\ l = "end" => o.tgt = None
           /\ l # "end" => /\ o.ip = op[p].ip /\ o.tgt = op[p].tgt /\ o.call = op[p].call /\ o.then = op[p].then
                           /\ o.path = op[p].path /\ o.up = op[p].up
  BY GotoFacts
<1>2. op'[p] = o /\ \A q \in Proc \ {p} : op'[q] = op[q]
  BY <1>1 DEF TypeOK
<1> QED
  BY <1>1, <1>2 DEF Moved

(* The "bad:" of sys_link() counts one down. *)
LEMMA LinkBadFacts ==
  ASSUME Core, NEW p \in Proc, LinkBad(p)
  PROVE  /\ Recounted(op[p].tgt, disk.ino[op[p].tgt].nlink - 1) /\ op[p].pc = "linkbad" /\ Moved(p, "end")
         /\ puts[p] = <<>> /\ \E s : puts' = [puts EXCEPT ![p] = s]
<1> DEFINE i == op[p].tgt
<1>0. TypeOK /\ "linkbad" \in Labels \ {"idle"} /\ At(p, "linkbad") /\ "end" \in Labels
  BY DEF Core, Labels, LinkBad
<1>1. /\ OpOK(op[p]) /\ op[p].pc = "linkbad" /\ i \in Inum /\ puts[p] = <<>>
  BY <1>0, AtFacts DEF HasTgt, OpOK
<1>2. Copy(i) = disk.ino[i] /\ disk.ino[i] \in Dinode /\ disk.ino[i].type # "free"
  BY <1>1, LockedLive DEF LinkBad
<1>3. disk.ino[i].nlink - 1 \in Int
  BY <1>2 DEF Dinode
<1>4. disk' = iupdate(disk, i, Counted(disk, i, disk.ino[i].nlink - 1)) /\ Goto(p, "end")
      /\ puts' = [puts EXCEPT ![p] = <<Put(i)>>]
  BY <1>2 DEF LinkBad, PutAll, Counted
<1>5. Recounted(i, disk.ino[i].nlink - 1)
  BY <1>0, <1>1, <1>2, <1>3, <1>4, RecountFacts
<1>6. Moved(p, "end")
  BY <1>0, <1>4, GotoMoves
<1> QED
  BY <1>1, <1>4, <1>5, <1>6

(* The end of sys_unlink() counts one down. *)
LEMMA UnlinkCountFacts ==
  ASSUME Core, NEW p \in Proc, UnlinkCount(p)
  PROVE  /\ Recounted(op[p].tgt, disk.ino[op[p].tgt].nlink - 1) /\ op[p].pc = "unlink3" /\ Moved(p, "end")
         /\ puts[p] = <<>> /\ \E s : puts' = [puts EXCEPT ![p] = s]
<1> DEFINE i == op[p].tgt
<1>0. TypeOK /\ "unlink3" \in Labels \ {"idle"} /\ At(p, "unlink3") /\ "end" \in Labels /\ AliveInv /\ CopyInv
  BY DEF Core, Labels, UnlinkCount
<1>1. /\ OpOK(op[p]) /\ op[p].pc = "unlink3" /\ i \in Inum /\ puts[p] = <<>> /\ OpAlive(op[p])
  BY <1>0, AtFacts DEF HasTgt, OpOK, AliveInv
<1>2. mem[i].c = disk.ino[i] /\ disk.ino[i] \in Dinode /\ disk.ino[i].type # "free"
  BY <1>0, <1>1 DEF OpAlive, CopyInv, TypeOK, DiskType
<1>3. disk.ino[i].nlink - 1 \in Int
  BY <1>2 DEF Dinode
<1>4. disk' = iupdate(disk, i, Counted(disk, i, disk.ino[i].nlink - 1)) /\ Goto(p, "end")
      /\ puts' = [puts EXCEPT ![p] = <<UnlockPut(i)>>]
  BY <1>2 DEF UnlinkCount, PutAll, Counted
<1>5. Recounted(i, disk.ino[i].nlink - 1)
  BY <1>0, <1>1, <1>2, <1>3, <1>4, RecountFacts
<1>6. Moved(p, "end")
  BY <1>0, <1>4, GotoMoves
<1> QED
  BY <1>1, <1>4, <1>5, <1>6

(* The start of sys_link() counts one up, unless the inode is a
   directory.                                                             *)
LEMMA LinkCountFacts ==
  ASSUME Core, NEW p \in Proc, LinkCount(p)
  PROVE  /\ op[p].pc = "link1" /\ op[p].tgt = None /\ op[p].ip \in Inum /\ puts[p] = <<>>
         /\ \/ /\ disk' = disk /\ stray' = stray /\ Moved(p, "end") /\ \E s : puts' = [puts EXCEPT ![p] = s]
            \/ /\ Recounted(op[p].ip, disk.ino[op[p].ip].nlink + 1) /\ disk.ino[op[p].ip].type # "dir"
               /\ op'[p].pc = "walk" /\ op'[p].then = "link2" /\ op'[p].tgt = op[p].ip /\ ~op'[p].up
               /\ op'[p].ip \in {ROOTINO, cwd[p]} /\ cwd[p] \in Inum
               /\ \A q \in Proc \ {p} : op'[q] = op[q]
               /\ puts' = puts /\ stray' = (stray \/ HalfMade(op[p].ip))
<1> DEFINE i == op[p].ip
<1>0. TypeOK /\ "link1" \in Labels \ {"idle"} /\ At(p, "link1") /\ "end" \in Labels
  BY DEF Core, Labels, LinkCount
<1>1. /\ op[p] \in OpType /\ OpOK(op[p]) /\ op[p].pc = "link1" /\ i \in Inum /\ puts[p] = <<>> /\ cwd[p] \in Inum
  BY <1>0, AtFacts DEF HasIp, OpOK
<1>2. op[p].tgt = None
  BY <1>1 DEF OpOK, HasTgt
<1>3. Copy(i) = disk.ino[i] /\ disk.ino[i] \in Dinode /\ disk.ino[i].type # "free"
  BY <1>1, LockedLive DEF LinkCount
<1>a. disk.ino[i].nlink + 1 \in Int
  BY <1>3 DEF Dinode
<1>4. CASE disk.ino[i].type = "dir"
  <2>1. disk' = disk /\ stray' = stray /\ Goto(p, "end") /\ puts' = [puts EXCEPT ![p] = <<Put(i)>>]
    BY <1>3, <1>4 DEF LinkCount, PutAll, Dinode
  <2> QED
    BY <1>0, <1>1, <1>2, <2>1, GotoMoves
<1>5. CASE disk.ino[i].type # "dir"
  <2>1. PICK new \in NewPaths :
          LET start == IF new.abs THEN ROOTINO ELSE cwd[p] IN
          /\ disk' = iupdate(disk, i, [Copy(i) EXCEPT !.nlink = @ + 1])
          /\ op' = [op EXCEPT ![p] = [@ EXCEPT !.pc = "walk", !.then = "link2",
                                               !.path = new.elems, !.ip = start, !.tgt = i, !.up = FALSE]]
          /\ stray' = (stray \/ HalfMade(i))
          /\ puts' = puts
    BY <1>3, <1>5 DEF LinkCount, Dinode
  <2> DEFINE start == IF new.abs THEN ROOTINO ELSE cwd[p]
             elems == new.elems
             o == [op[p] EXCEPT !.pc = "walk", !.then = "link2", !.path = elems, !.ip = start, !.tgt = i, !.up = FALSE]
  <2>2. op' = [op EXCEPT ![p] = o] /\ start \in {ROOTINO, cwd[p]}
    BY <1>0, <2>1
  <2> HIDE DEF start, elems
  <2>3. o.pc = "walk" /\ o.then = "link2" /\ o.ip = start /\ o.tgt = i /\ o.up = FALSE
    BY <1>1 DEF OpType
  <2> HIDE DEF o
  <2>4. op'[p] = o /\ \A q \in Proc \ {p} : op'[q] = op[q]
    BY <1>0, <2>2 DEF TypeOK
  <2>5. disk' = iupdate(disk, i, Counted(disk, i, disk.ino[i].nlink + 1))
    BY <1>3, <2>1 DEF Counted
  <2>6. Recounted(i, disk.ino[i].nlink + 1)
    BY <1>0, <1>1, <1>3, <1>a, <2>5, RecountFacts
  <2>7. puts' = puts /\ stray' = (stray \/ HalfMade(i))
    BY <2>1
  <2> QED
    BY <1>1, <1>2, <1>5, <2>2, <2>3, <2>4, <2>6, <2>7
<1> QED
  BY <1>4, <1>5

(* The name n of directory d leads to x, and nothing else about names changes. *)
Entered(d, n, x) ==
  /\ disk'.dir[d][n] = x
  /\ \A m \in DirNames \ {n} : disk'.dir[d][m] = disk.dir[d][m]
  /\ \A y \in Inum \ {d} : disk'.dir[y] = disk.dir[y]

(* What one entry changes. *)
LEMMA EnteredFacts ==
  ASSUME TypeOK, NEW d \in Inum, NEW n \in DirNames, NEW x, disk'.dir = [disk.dir EXCEPT ![d][n] = x]
  PROVE  Entered(d, n, x)
<1>1. disk.dir \in [Inum -> [DirNames -> {None} \cup Inum]]
  BY DEF TypeOK, DiskType
<1> QED
  BY <1>1 DEF Entered

(* The dirlink() of sys_link() makes the entry, or fails. *)
LEMMA LinkEnterFacts ==
  ASSUME Core, NEW p \in Proc, LinkEnter(p)
  PROVE  /\ op[p].pc = "link2" /\ op[p].ip \in Inum /\ op[p].tgt \in Inum /\ Head(op[p].path) \in DirNames
         /\ puts[p] = <<>> /\ (\E s : puts' = [puts EXCEPT ![p] = s])
         /\ op[p].ip \in Live /\ disk.ino[op[p].ip].type = "dir" /\ lock[op[p].ip] = NoProc
         /\ op[p].tgt \in Live /\ disk.ino[op[p].tgt].type # "dir"
         /\ OwnedDisk(disk) => OwnedDisk(disk')
         /\ \A x \in Inum : disk'.ino[x].type = disk.ino[x].type /\ disk'.ino[x].nlink = disk.ino[x].nlink
         /\ \A x \in Inum \ {op[p].ip} : disk'.ino[x] = disk.ino[x]
         /\ \/ /\ disk.dir[op[p].ip][Head(op[p].path)] = None
               /\ Entered(op[p].ip, Head(op[p].path), op[p].tgt)
               /\ stray' = (stray \/ disk.ino[op[p].ip].nlink = 0) /\ Moved(p, "end")
            \/ disk'.dir = disk.dir /\ stray' = stray /\ Moved(p, "linkbad")
<1> DEFINE dp == op[p].ip
           t == op[p].tgt
           name == Head(op[p].path)
           l == dirlink(disk, dp, disk.ino[dp], name, t)
<1>0. TypeOK /\ "link2" \in Labels \ {"idle"} /\ At(p, "link2") /\ AliveInv /\ "end" \in Labels /\ "linkbad" \in Labels
  BY DEF Core, Labels, LinkEnter
<1>1. /\ op[p] \in OpType /\ OpOK(op[p]) /\ op[p].pc = "link2" /\ dp \in Inum /\ t \in Inum /\ OpAlive(op[p]) /\ puts[p] = <<>>
  BY <1>0, AtFacts DEF HasIp, HasTgt, OpOK, AliveInv
<1>2. op[p].path # <<>>
  BY <1>1 DEF OpOK
<1>3. name \in DirNames /\ disk \in DiskType
  BY <1>0, <1>1, <1>2 DEF OpType, TypeOK
<1>4. lock[dp] = NoProc /\ Copy(dp) = disk.ino[dp] /\ dp \in Live
  BY <1>1, LockedLive DEF LinkEnter
<1>5. /\ disk' = l.D /\ stray' = (stray \/ (l.ok /\ disk.ino[dp].nlink = 0))
      /\ IF l.ok THEN PutAll(p, <<Put(dp), Put(t)>>, "end") ELSE PutAll(p, <<Put(dp)>>, "linkbad")
  BY <1>4 DEF LinkEnter
<1>6. /\ l.ok \in BOOLEAN
      /\ Rewritten(disk, dp, l.D, l.c)
      /\ l.ok => disk.dir[dp][name] = None /\ l.D.dir = [disk.dir EXCEPT ![dp][name] = t]
      /\ ~l.ok => l.D.dir = disk.dir
  BY <1>1, <1>3, LinkOne
<1> HIDE DEF l
<1>7. Rewritten(disk, dp, disk', l.c)
  BY <1>5, <1>6
<1>8. /\ disk'.ino[dp] = l.c /\ \A x \in Inum \ {dp} : disk'.ino[x] = disk.ino[x]
      /\ l.c.type = disk.ino[dp].type /\ l.c.nlink = disk.ino[dp].nlink
      /\ OwnedDisk(disk) => OwnedDisk(disk')
  BY <1>1, <1>3, <1>7, RewrittenIno
<1>9. disk.ino[dp].type = "dir" /\ t \in Live /\ disk.ino[t].type # "dir"
  BY <1>1, ConstFacts DEF OpAlive
<1>10. CASE l.ok
  <2>1. disk'.dir = [disk.dir EXCEPT ![dp][name] = t] /\ puts' = [puts EXCEPT ![p] = <<Put(dp), Put(t)>>] /\ Goto(p, "end")
        /\ stray' = (stray \/ disk.ino[dp].nlink = 0) /\ disk.dir[dp][name] = None
    BY <1>5, <1>6, <1>10 DEF PutAll
  <2>2. Entered(dp, name, t)
    BY <1>0, <1>1, <1>3, <2>1, EnteredFacts
  <2>3. Moved(p, "end")
    BY <1>0, <2>1, GotoMoves
  <2> QED
    BY <1>1, <1>3, <1>4, <1>8, <1>9, <2>1, <2>2, <2>3
<1>11. CASE ~l.ok
  <2>1. disk'.dir = disk.dir /\ puts' = [puts EXCEPT ![p] = <<Put(dp)>>] /\ Goto(p, "linkbad") /\ stray' = stray
    BY <1>0, <1>5, <1>6, <1>11 DEF PutAll, TypeOK
  <2>2. Moved(p, "linkbad")
    BY <1>0, <2>1, GotoMoves
  <2> QED
    BY <1>1, <1>3, <1>4, <1>8, <1>9, <2>1, <2>2
<1> QED
  BY <1>6, <1>10, <1>11

(* sys_unlink() clears the entry, unless it names a directory that is not
   empty.                                                                 *)
LEMMA UnlinkEntryFacts ==
  ASSUME Core, NEW p \in Proc, UnlinkEntry(p)
  PROVE  /\ op[p].pc = "unlink2" /\ op[p].ip \in Inum /\ op[p].tgt \in Inum /\ Head(op[p].path) \in Names
         /\ puts[p] = <<>> /\ (\E s : puts' = [puts EXCEPT ![p] = s])
         /\ op[p].ip \in Live /\ disk.ino[op[p].ip].type = "dir" /\ lock[op[p].ip] = p
         /\ op[p].tgt \in Live /\ op[p].ip # op[p].tgt /\ lock[op[p].tgt] = NoProc
         /\ disk.dir[op[p].ip][Head(op[p].path)] = op[p].tgt
         /\ OwnedDisk(disk) => OwnedDisk(disk')
         /\ \A x \in Inum : disk'.ino[x].type = disk.ino[x].type
         /\ \A x \in Inum \ {op[p].ip} : disk'.ino[x] = disk.ino[x]
         /\ panic' = IF disk.ino[op[p].tgt].nlink < 1 THEN "unlink: nlink < 1" ELSE panic
         /\ \/ disk' = disk /\ Moved(p, "end")
            \/ /\ Entered(op[p].ip, Head(op[p].path), None)
               /\ disk'.ino[op[p].ip].nlink = disk.ino[op[p].ip].nlink - (IF disk.ino[op[p].tgt].type = "dir" THEN 1 ELSE 0)
               /\ disk.ino[op[p].tgt].type = "dir" => \A n \in Names : disk.dir[op[p].tgt][n] = None
               /\ Moved(p, "unlink3")
<1> DEFINE dp == op[p].ip
           ip == op[p].tgt
           name == Head(op[p].path)
           c == disk.ino[ip]
           n == disk.ino[dp].nlink - (IF c.type = "dir" THEN 1 ELSE 0)
<1>0. TypeOK /\ "unlink2" \in Labels \ {"idle"} /\ At(p, "unlink2") /\ AliveInv /\ LockInv /\ CopyInv /\ "end" \in Labels
      /\ "unlink3" \in Labels
  BY DEF Core, Labels, UnlinkEntry
<1>1. /\ op[p] \in OpType /\ OpOK(op[p]) /\ op[p].pc = "unlink2" /\ dp \in Inum /\ puts[p] = <<>> /\ ip \in Inum
      /\ OpAlive(op[p])
  BY <1>0, AtFacts DEF HasIp, HasTgt, OpOK, AliveInv
<1>2. name \in Names /\ name \in DirNames /\ disk \in DiskType
  BY <1>0, <1>1, ConstFacts DEF OpOK, TypeOK
<1>3. ilock(ip)
  BY DEF UnlinkEntry
<1>4. lock[ip] = NoProc /\ Copy(ip) = c /\ c \in Dinode /\ c.type # "free" /\ ip \in Live
  BY <1>1, <1>3, LockedLive
<1>5. Copy(dp) = disk.ino[dp] /\ disk.ino[dp] \in Dinode /\ dp \in Live /\ disk.ino[dp].type = "dir" /\ disk.dir[dp][name] = ip
  BY <1>0, <1>1, CopyIsDisk DEF OpAlive
<1>6. lock[dp] = p
  BY <1>0, <1>1 DEF LockInv, Locks, Holds
<1>7. ip # dp
  BY <1>4, <1>6, FsAssumption
<1>8. panic' = IF c.nlink < 1 THEN "unlink: nlink < 1" ELSE panic
  BY <1>4 DEF UnlinkEntry
<1>9. CASE c.type = "dir" /\ ~isdirempty(disk, ip)
  <2>1. disk' = disk /\ puts' = [puts EXCEPT ![p] = <<UnlockPut(ip), UnlockPut(dp)>>] /\ Goto(p, "end")
    BY <1>4, <1>9 DEF UnlinkEntry, PutAll
  <2>2. Moved(p, "end")
    BY <1>0, <2>1, GotoMoves
  <2>3. OwnedDisk(disk) => OwnedDisk(disk')
    BY <2>1
  <2> QED
    BY <1>1, <1>2, <1>4, <1>5, <1>6, <1>7, <1>8, <2>1, <2>2, <2>3
<1>10. CASE ~(c.type = "dir" /\ ~isdirempty(disk, ip))
  <2> DEFINE E == [disk EXCEPT !.dir[dp][name] = None]
             d == [disk.ino[dp] EXCEPT !.nlink = IF c.type = "dir" THEN @ - 1 ELSE @]
  <2>1. disk' = iupdate(E, dp, d) /\ puts' = [puts EXCEPT ![p] = <<UnlockPut(dp)>>] /\ Goto(p, "unlink3")
    BY <1>4, <1>5, <1>10 DEF UnlinkEntry, PutAll
  <2>2. n \in Int
    BY <1>5 DEF Dinode
  <2>3. d = Counted(disk, dp, n)
    BY <1>5 DEF Counted, Dinode
  <2>4. E \in DiskType /\ E.ino = disk.ino /\ E.dir = [disk.dir EXCEPT ![dp][name] = None] /\ E.used = disk.used /\ E.ind = disk.ind
    <3>1. dp \in Inum /\ name \in DirNames /\ disk \in DiskType /\ None \in {None} \cup Inum
      BY <1>1, <1>2
    <3> HIDE DEF dp, name, ip
    <3> QED
      BY <3>1, SetName
  <2> HIDE DEF E
  <2>5. d = Counted(E, dp, n)
    BY <2>3, <2>4 DEF Counted
  <2> HIDE DEF d, n
  <2>6. PICK F : F = iupdate(E, dp, Counted(E, dp, n))
    OBVIOUS
  <2>7. /\ F \in DiskType /\ F.dir = E.dir /\ F.ino[dp].type = E.ino[dp].type /\ F.ino[dp].nlink = n
        /\ \A x \in Inum \ {dp} : F.ino[x] = E.ino[x]
        /\ OwnedDisk(E) => OwnedDisk(F)
    BY <1>1, <2>2, <2>4, <2>6, CountOne
  <2>8. disk' = F
    BY <2>1, <2>5, <2>6
  <2>9. OwnedDisk(disk) => OwnedDisk(E)
    BY <2>4, OwnedSame
  <2>10. disk'.dir = [disk.dir EXCEPT ![dp][name] = None]
    BY <2>4, <2>7, <2>8
  <2>11. Entered(dp, name, None)
    BY <1>0, <1>1, <1>2, <2>10, EnteredFacts
  <2>12. Moved(p, "unlink3")
    BY <1>0, <2>1, GotoMoves
  <2>13. disk.ino[ip].type = "dir" => \A m \in Names : disk.dir[ip][m] = None
    BY <1>10 DEF isdirempty, dirlookup
  <2>14. /\ \A x \in Inum : disk'.ino[x].type = disk.ino[x].type
         /\ \A x \in Inum \ {dp} : disk'.ino[x] = disk.ino[x]
         /\ OwnedDisk(disk) => OwnedDisk(disk')
         /\ disk'.ino[dp].nlink = n
    BY <2>4, <2>7, <2>8, <2>9
  <2> QED
    BY <1>1, <1>2, <1>4, <1>5, <1>6, <1>7, <1>8, <2>1, <2>11, <2>12, <2>13, <2>14 DEF n
<1> QED
  BY <1>9, <1>10

(* create() has allocated the free inode new as z. *)
Allocated(p, new, z) ==
  /\ disk.ino[new].type = "free" /\ disk'.ino = [disk.ino EXCEPT ![new] = z] /\ disk'.dir = disk.dir
  /\ disk'.used = disk.used /\ disk'.ind = disk.ind
  /\ z \in Dinode /\ z.nlink = 0 /\ z.addrs = Zero.addrs /\ z.type # "free"
  /\ op'[p].pc = "fill" /\ op'[p].tgt = new /\ op'[p].ip = op[p].ip

(* create() up to ialloc() finds the name, fails, or allocates an inode. *)
LEMMA CreateFacts ==
  ASSUME Core, NEW p \in Proc, Create(p)
  PROVE  /\ op[p].pc = "create" /\ op[p].ip \in Inum /\ op[p].tgt = None /\ Head(op[p].path) \in DirNames
         /\ puts[p] = <<>> /\ (\E s : puts' = [puts EXCEPT ![p] = s]) /\ stray' = stray
         /\ \A q \in Proc \ {p} : op'[q] = op[q]
         /\ \/ /\ disk' = disk /\ op'[p].pc = "exists" /\ op'[p].tgt \in Inum
               /\ op'[p].tgt = disk.dir[op[p].ip][Head(op[p].path)]
               /\ op'[p].up <=> Head(op[p].path) = ".." /\ disk.ino[op[p].ip].nlink = 0
            \/ disk' = disk /\ Moved(p, "end")
            \/ \E new \in Inum : \E z : Allocated(p, new, z)
<1> DEFINE dp == op[p].ip
           name == Head(op[p].path)
           ip == dirlookup(disk, dp, name)
<1>0. TypeOK /\ "create" \in Labels \ {"idle"} /\ At(p, "create") /\ AliveInv /\ CopyInv /\ "end" \in Labels
  BY DEF Core, Labels, Create
<1>1. /\ op[p] \in OpType /\ OpOK(op[p]) /\ op[p].pc = "create" /\ dp \in Inum /\ puts[p] = <<>>
  BY <1>0, AtFacts DEF HasIp
<1>2. op[p].tgt = None /\ op[p].path # <<>> /\ op[p].call \in DOMAIN TypeOf
  BY <1>1 DEF HasTgt, OpOK
<1>3. stray' = stray
  BY DEF Create
<1>4. name \in DirNames
  BY <1>1, <1>2 DEF OpType
<1>5. ip \in {None} \cup Inum /\ ip = disk.dir[dp][name]
  BY <1>0, <1>1, <1>4 DEF dirlookup, TypeOK, DiskType
<1>6. Copy(dp) = disk.ino[dp]
  BY <1>1, LockedLive DEF Create
<1> HIDE DEF name, ip
<1>8. CASE ip # None
  <2> DEFINE up == name = ".." /\ Copy(dp).nlink = 0
             o == [op[p] EXCEPT !.pc = "exists", !.tgt = ip, !.up = up]
  <2>1. /\ puts' = [puts EXCEPT ![p] = <<Put(dp)>>] /\ disk' = disk
        /\ op' = [op EXCEPT ![p].pc = "exists", ![p].tgt = ip, ![p].up = up]
    BY <1>8, Zenon DEF Create, name, ip
  <2>2. up \in BOOLEAN /\ ip \in Inum
    BY <1>5, <1>8
  <2>a. up <=> name = ".." /\ disk.ino[dp].nlink = 0
    BY <1>6
  <2> HIDE DEF up
  <2>3. op' = [op EXCEPT ![p] = o]
    BY <1>0, <2>1 DEF TypeOK
  <2>4. o.pc = "exists" /\ o.tgt = ip /\ o.up = up
    BY <1>1 DEF OpType
  <2> HIDE DEF o
  <2>5. op'[p] = o /\ \A q \in Proc \ {p} : op'[q] = op[q]
    BY <1>0, <2>3 DEF TypeOK
  <2>6. op'[p].pc = "exists" /\ op'[p].tgt = ip /\ (op'[p].up <=> name = ".." /\ disk.ino[dp].nlink = 0)
    BY <2>4, <2>5, <2>a
  <2> QED
    BY <1>1, <1>2, <1>3, <1>4, <1>5, <2>1, <2>2, <2>5, <2>6 DEF name
<1>9. CASE ip = None /\ FreeInums = {}
  <2>1. puts' = [puts EXCEPT ![p] = <<Put(dp)>>] /\ Goto(p, "end") /\ disk' = disk
    BY <1>9 DEF Create, name, ip, PutAll
  <2>2. Moved(p, "end")
    BY <1>0, <2>1, GotoMoves
  <2> QED
    BY <1>1, <1>2, <1>3, <1>4, <2>1, <2>2 DEF Moved, name
<1>10. CASE ip = None /\ FreeInums # {}
  <2> DEFINE new == Min(FreeInums)
             type == TypeOf[op[p].call]
             z == [Zero EXCEPT !.type = type]
             o == [op[p] EXCEPT !.pc = "fill", !.tgt = new]
  <2>1. /\ disk' = ialloc(new, type)
        /\ op' = [op EXCEPT ![p].pc = "fill", ![p].tgt = new] /\ puts' = puts
    BY <1>10 DEF Create, name, ip
  <2>2. FreeInums \subseteq Nat
    BY DEF FreeInums, Inum
  <2>3. new \in FreeInums
    BY <1>10, <2>2, MinIn
  <2>4. new \in Inum /\ disk.ino[new].type = "free"
    BY <2>3 DEF FreeInums
  <2>5. type \in Kind /\ type # "free"
    BY <1>2 DEF TypeOf, Kind
  <2> HIDE DEF new
  <2>6. z \in Dinode /\ z.type # "free" /\ z.nlink = 0 /\ z.addrs = Zero.addrs
    <3> HIDE DEF type
    <3> QED
      BY <2>5, ZeroType DEF Dinode
  <2>7. disk' = iupdate(disk, new, z)
    BY <2>1 DEF ialloc, iupdate
  <2> HIDE DEF z
  <2>8. disk'.ino = [disk.ino EXCEPT ![new] = z] /\ disk'.dir = disk.dir /\ disk'.used = disk.used /\ disk'.ind = disk.ind
    BY <1>0, <2>4, <2>6, <2>7, UpdateOne DEF TypeOK
  <2>9. op' = [op EXCEPT ![p] = o]
    BY <1>0, <2>1 DEF TypeOK
  <2>10. o.pc = "fill" /\ o.tgt = new /\ o.ip = dp
    BY <1>1 DEF OpType
  <2> HIDE DEF o
  <2>11. op'[p] = o /\ \A q \in Proc \ {p} : op'[q] = op[q]
    BY <1>0, <2>9 DEF TypeOK
  <2>12. puts' = [puts EXCEPT ![p] = <<>>]
    BY <1>0, <1>1, <2>1 DEF TypeOK
  <2>13. op'[p].pc = "fill" /\ op'[p].tgt = new /\ op'[p].ip = op[p].ip
    BY <2>10, <2>11
  <2>14. Allocated(p, new, z)
    BY <2>4, <2>6, <2>8, <2>13 DEF Allocated
  <2>15. \E s : puts' = [puts EXCEPT ![p] = s]
    BY <2>12
  <2> QED
    BY <1>1, <1>2, <1>3, <1>4, <2>4, <2>11, <2>14, <2>15 DEF name
<1> QED
  BY <1>8, <1>9, <1>10

(* The link counts, the types and the names stay. *)
SameNames == \A x \in Inum : /\ disk'.dir[x] = disk.dir[x] /\ disk'.ino[x].type = disk.ino[x].type
                             /\ disk'.ino[x].nlink = disk.ino[x].nlink

(* itrunc() in sys_open() gives the blocks back and leaves names alone. *)
LEMMA TruncGood ==
  ASSUME TypeOK, Good(disk), NEW i \in Inum, disk.ino[i].type = "file", disk' = itrunc(disk, i, disk.ino[i])
  PROVE  Good(disk') /\ SameNames
<1>1. disk \in DiskType /\ disk.ino \in [Inum -> Dinode] /\ disk.dir \in [Inum -> [DirNames -> {None} \cup Inum]]
  BY DEF TypeOK, DiskType
<1>2. PICK E : E = itrunc(disk, i, disk.ino[i])
  OBVIOUS
<1>3. /\ E.ino = [disk.ino EXCEPT ![i] = [disk.ino[i] EXCEPT !.size = 0, !.addrs = Zero.addrs]]
      /\ E.ino[i].type = disk.ino[i].type /\ E.ino[i].nlink = disk.ino[i].nlink
      /\ E.dir = [disk.dir EXCEPT ![i] = NoEntries]
      /\ OwnedDisk(disk) => OwnedDisk(E)
  BY <1>1, <1>2, TruncOne
<1>4. \A x \in Inum \ {i} : E.ino[x] = disk.ino[x] /\ E.dir[x] = disk.dir[x]
  BY <1>1, <1>3
<1>5. E.dir[i] = disk.dir[i]
  BY <1>1, <1>3 DEF Good, CleanDisk
<1>6. \A x \in Inum : /\ E.dir[x] = disk.dir[x] /\ E.ino[x].type = disk.ino[x].type
                      /\ E.ino[x].nlink = disk.ino[x].nlink
                      /\ disk.ino[x].type = "free" => E.ino[x] = disk.ino[x]
  BY <1>3, <1>4, <1>5
<1>7. CleanDisk(E)
  BY <1>6, CleanSame DEF Good
<1>8. Good(E)
  BY <1>3, <1>7 DEF Good
<1> QED
  BY <1>2, <1>6, <1>8 DEF SameNames

(* sys_open() with its file: names stay as they are. *)
LEMMA OpenFileFacts ==
  ASSUME Core, Good(disk), NEW p \in Proc, puts[p] = <<>>, NEW i \in Inum, i \in Live, NEW mode, NEW valid, OpenFile(p, i, mode, valid)
  PROVE  Good(disk') /\ SameNames /\ Moved(p, "end") /\ \E s : puts' = [puts EXCEPT ![p] = s]
<1>0. TypeOK /\ CopyInv /\ "end" \in Labels
  BY DEF Core, Labels
<1>1. Copy(i) = disk.ino[i]
  BY <1>0, CopyIsDisk
<1>2. /\ disk' = disk \/ (disk.ino[i].type = "file" /\ disk' = itrunc(disk, i, disk.ino[i]))
      /\ Goto(p, "end") /\ \E s : puts' = [puts EXCEPT ![p] = s]
  <2>1. puts = [puts EXCEPT ![p] = <<>>]
    BY <1>0 DEF TypeOK
  <2> QED
    BY <1>1, <2>1 DEF OpenFile, PutAll
<1>3. Moved(p, "end")
  BY <1>0, <1>2, GotoMoves
<1>4. Good(disk') /\ SameNames
  <2>1. CASE disk' = disk
    BY <2>1 DEF SameNames
  <2>2. CASE disk.ino[i].type = "file" /\ disk' = itrunc(disk, i, disk.ino[i])
    BY <1>0, <2>2, TruncGood
  <2> QED
    BY <1>2, <2>1, <2>2
<1> QED
  BY <1>2, <1>3, <1>4

(* sys_open() leaves names as they are. *)
LEMMA OpenFacts ==
  ASSUME Core, Good(disk), NEW p \in Proc, Open(p) \/ OpenCreated(p)
  PROVE  /\ Good(disk') /\ SameNames /\ Moved(p, "end") /\ puts[p] = <<>> /\ (\E s : puts' = [puts EXCEPT ![p] = s])
         /\ op[p].pc \in {"open", "opened"}
<1>0. TypeOK /\ {"open", "opened"} \subseteq Labels \ {"idle"} /\ AliveInv
  BY DEF Core, Labels
<1>1. CASE Open(p)
  <2>1. op[p].pc = "open" /\ op[p].ip \in Inum /\ puts[p] = <<>>
    BY <1>0, <1>1, AtFacts DEF Open, HasIp
  <2>2. op[p].ip \in Live
    BY <1>1, <2>1, LockedLive DEF Open
  <2> QED
    BY <1>1, <2>1, <2>2, OpenFileFacts DEF Open
<1>2. CASE OpenCreated(p)
  <2>1. op[p].pc = "opened" /\ puts[p] = <<>> /\ op[p].tgt \in Inum
    BY <1>0, <1>2, AtFacts DEF OpenCreated, HasTgt, OpOK
  <2>2. op[p].tgt \in Live
    BY <1>0, <2>1 DEF AliveInv, OpAlive
  <2> QED
    BY <1>2, <2>1, <2>2, OpenFileFacts DEF OpenCreated
<1> QED
  BY <1>1, <1>2

(* writei() owns the blocks it takes and leaves names alone. *)
LEMMA WriteGood ==
  ASSUME Core, Good(disk), NEW p \in Proc, Write(p)
  PROVE  Good(disk') /\ SameNames
<1>0. disk \in DiskType
  BY DEF Core, TypeOK
<1>a. PICK i \in Inum : \E c : disk.ino[i].type = "file" /\ Rewritten(disk, i, disk', c) /\ disk'.dir = disk.dir
  BY WriteFacts
<1>1. PICK c : disk.ino[i].type = "file" /\ Rewritten(disk, i, disk', c) /\ disk'.dir = disk.dir
  BY <1>a
<1>2. /\ disk'.ino[i] = c /\ \A x \in Inum \ {i} : disk'.ino[x] = disk.ino[x]
      /\ c.type = disk.ino[i].type /\ c.nlink = disk.ino[i].nlink
      /\ OwnedDisk(disk) => OwnedDisk(disk')
  BY <1>0, <1>1, RewrittenIno
<1>3. /\ \A x \in Inum : disk'.ino[x].type = disk.ino[x].type /\ disk'.ino[x].nlink = disk.ino[x].nlink
      /\ \A x \in Inum : disk.ino[x].type = "free" => disk'.ino[x] = disk.ino[x]
  BY <1>1, <1>2
<1>4. CleanDisk(disk')
  BY <1>1, <1>3, CleanSame DEF Good
<1> QED
  BY <1>1, <1>2, <1>3, <1>4 DEF Good, SameNames

(* create() owns the blocks it takes. *)
LEMMA FillGood ==
  ASSUME Core, Good(disk), NEW p \in Proc, CreateFill(p)
  PROVE  Good(disk')
<1> DEFINE dp == op[p].ip
           ip == op[p].tgt
<1>0. AliveInv /\ "fill" \in Labels \ {"idle"} /\ At(p, "fill")
  BY DEF Core, Labels, CreateFill
<1>1. OpAlive(op[p]) /\ op[p].pc = "fill" /\ dp \in Inum /\ ip \in Inum
  BY <1>0, AtFacts DEF AliveInv, HasIp, HasTgt, OpOK
<1>2. /\ disk.ino[dp].type = "dir" /\ disk.ino[ip].type # "free"
      /\ op[p].call = "mkdir" => disk.ino[ip].type = "dir"
  BY <1>1 DEF OpAlive, Live, TypeOf
<1>3. OwnedDisk(disk')
  BY FillFacts DEF Good
<1> DEFINE Kept == /\ \A x \in Inum : disk'.ino[x].type = disk.ino[x].type
                   /\ \A x \in Inum : disk.ino[x].type = "free" => disk'.ino[x] = disk.ino[x]
                   /\ \A x \in Inum : disk.ino[x].type # "dir" => disk'.dir[x] = disk.dir[x]
<1>4. Kept
  <2>1. ASSUME NEW c, NEW d, Filled(p, c, d)
        PROVE  Kept
    BY <1>1, <1>2, <2>1 DEF Filled
  <2>2. ASSUME NEW c, Unfilled(p, c)
        PROVE  Kept
    BY <1>1, <1>2, <2>2 DEF Unfilled
  <2> QED
    BY <2>1, <2>2, FillFacts
<1>5. CleanDisk(disk')
  BY <1>4, CleanSame DEF Good
<1> QED
  BY <1>3, <1>5 DEF Good

(* Inode i has been freed, and nothing else of the disk that names concern. *)
Freed(i) ==
  /\ disk'.ino[i] = Zero /\ disk'.dir[i] = NoEntries
  /\ \A x \in Inum \ {i} : disk'.ino[x] = disk.ino[x] /\ disk'.dir[x] = disk.dir[x]

(* A freed inode gives back its blocks, all of them in use. *)
LEMMA FreeGood ==
  ASSUME TypeOK, Good(disk), NEW i \in Inum, disk' = iupdate(itrunc(disk, i, disk.ino[i]), i, Zero)
  PROVE  Good(disk') /\ Freed(i) /\ BlocksOf(disk, disk.ino[i]) \subseteq disk.used
<1>1. disk \in DiskType /\ disk.ino \in [Inum -> Dinode] /\ disk.dir \in [Inum -> [DirNames -> {None} \cup Inum]]
  BY DEF TypeOK, DiskType
<1>2. PICK E : E = iupdate(itrunc(disk, i, disk.ino[i]), i, Zero)
  OBVIOUS
<1>3. /\ E.ino = [disk.ino EXCEPT ![i] = Zero]
      /\ E.dir = [disk.dir EXCEPT ![i] = NoEntries]
      /\ OwnedDisk(disk) => OwnedDisk(E)
  BY <1>1, <1>2, FreeOne
<1>4. /\ E.ino[i] = Zero /\ E.dir[i] = NoEntries
      /\ \A x \in Inum \ {i} : E.ino[x] = disk.ino[x] /\ E.dir[x] = disk.dir[x]
  BY <1>1, <1>3
<1>5. Good(E)
  BY <1>3, <1>4 DEF Good, CleanDisk
<1>6. BlocksOf(disk, disk.ino[i]) \subseteq disk.used
  BY DEF Good, OwnedDisk
<1> QED
  BY <1>2, <1>4, <1>5, <1>6 DEF Freed

(* ialloc() takes one inode and no block. *)
LEMMA AllocGood ==
  ASSUME TypeOK, Good(disk), NEW new \in Inum, NEW z \in Dinode, disk.ino[new].type = "free",
         disk'.ino = [disk.ino EXCEPT ![new] = z], disk'.dir = disk.dir, disk'.used = disk.used, disk'.ind = disk.ind,
         z.addrs = Zero.addrs, z.type # "free"
  PROVE  Good(disk') /\ disk'.ino[new] = z /\ \A x \in Inum \ {new} : disk'.ino[x] = disk.ino[x]
<1>1. disk.ino \in [Inum -> Dinode]
  BY DEF TypeOK, DiskType
<1>2. disk'.ino[new] = z /\ \A x \in Inum \ {new} : disk'.ino[x] = disk.ino[x]
  BY <1>1
<1>3. disk.ino[new] = Zero
  BY DEF Good, CleanDisk
<1>4. \A x \in Inum : disk'.ino[x].addrs = disk.ino[x].addrs
  BY <1>2, <1>3
<1>5. OwnedDisk(disk')
  BY <1>4, OwnedSame DEF Good
<1>6. CleanDisk(disk')
  BY <1>2 DEF Good, CleanDisk
<1> QED
  BY <1>2, <1>5, <1>6 DEF Good

(* The first image is good. *)
LEMMA InitGood ==
  ASSUME Init
  PROVE  Good(disk) /\ durable = disk
<1>1. PICK dirs \in Nested : \E k \in Nat : Shape(disk, k, dirs) /\ k < NINODES
  BY InitDisk
<1>a. PICK n \in Nat : Shape(disk, n, dirs) /\ n < NINODES
  BY <1>1
<1>2. durable = disk
  BY DEF Init
<1>3. /\ disk.used = 1 .. n + 1
      /\ \A i \in Inum : i > n + 1 => disk.ino[i] = Zero /\ disk.dir[i] = NoEntries
      /\ \A i \in Inum : i <= n + 1 => disk.ino[i].type = "dir" /\ disk.ino[i].addrs[0] = i
                                       /\ \A m \in 1 .. NDIRECT : disk.ino[i].addrs[m] = None
  BY <1>a DEF Shape
<1>4. CleanDisk(disk)
  BY <1>3 DEF CleanDisk, Inum
<1>5. NDIRECT \in 1 .. NDIRECT /\ NDIRECT \in 0 .. NDIRECT /\ 0 \in 0 .. NDIRECT /\ 0 .. NDIRECT = {0} \cup (1 .. NDIRECT)
  BY ConstFacts
<1>6. ASSUME NEW i \in Inum, i <= n + 1
      PROVE  BlocksOf(disk, disk.ino[i]) = {i}
  <2>1. disk.ino[i].addrs[0] = i /\ disk.ino[i].addrs[NDIRECT] = None /\ i # None
        /\ \A m \in 1 .. NDIRECT : disk.ino[i].addrs[m] = None
    BY <1>3, <1>5, <1>6, ConstFacts
  <2>2. {disk.ino[i].addrs[m] : m \in 0 .. NDIRECT} \ {None} = {i}
    BY <1>5, <2>1
  <2> QED
    BY <2>1, <2>2 DEF BlocksOf, Reached
<1>7. ASSUME NEW i \in Inum, i > n + 1
      PROVE  BlocksOf(disk, disk.ino[i]) = {}
  <2>1. disk.ino[i] = Zero
    BY <1>3, <1>7
  <2>2. \A m \in 0 .. NDIRECT : Zero.addrs[m] = None
    BY ZeroType
  <2> QED
    BY <1>5, <2>1, <2>2 DEF BlocksOf, Reached
<1>8. \A i \in Inum : i \in Int /\ (i <= n + 1 \/ i > n + 1)
  BY DEF Inum
<1>9. OwnedDisk(disk)
  <2>1. \A i, j \in Inum : i # j => BlocksOf(disk, disk.ino[i]) \cap BlocksOf(disk, disk.ino[j]) = {}
    BY <1>6, <1>7, <1>8
  <2>2. \A b \in 1 .. n + 1 : b \in Inum /\ b <= n + 1
    BY <1>a, FsAssumption DEF Inum
  <2>3. disk.used \subseteq UNION {BlocksOf(disk, disk.ino[i]) : i \in Inum}
    BY <1>3, <1>6, <2>2
  <2>4. UNION {BlocksOf(disk, disk.ino[i]) : i \in Inum} \subseteq disk.used
    <3>1. ASSUME NEW i \in Inum, NEW b \in BlocksOf(disk, disk.ino[i])
          PROVE  b \in 1 .. n + 1
      BY <1>6, <1>7, <1>8, <3>1 DEF Inum
    <3> QED
      BY <1>3, <3>1
  <2> QED
    BY <2>1, <2>3, <2>4 DEF OwnedDisk
<1> QED
  BY <1>2, <1>4, <1>9 DEF Good

(* The steps that leave the disk alone. *)
Still(p) ==
  \/ Call(p) \/ Namex(p) \/ NamexDone(p) \/ Iput(p) \/ IputDrop(p) \/ IlockPanic(p) \/ CreateExists(p)
  \/ Dup(p) \/ Close(p) \/ Read(p) \/ Fstat(p) \/ Unlink(p) \/ Chdir(p)
  \/ Fork(p) \/ Exit(p) \/ ExitClose(p) \/ ExitCwd(p)

(* The steps that leave the disk alone. *)
LEMMA StillDisk ==
  ASSUME NEW p \in Proc, Still(p)
  PROVE  disk' = disk /\ durable' = durable /\ stray' = stray /\ boot' = boot
  BY DEF Still, Call, Namex, NamexDone, Iput, IputDrop, IlockPanic, CreateExists, Dup, Close, Read, Fstat, Unlink,
         Chdir, Fork, Exit, ExitClose, ExitCwd

(* ireclaim() frees an inode without links, and never a free block. *)
LEMMA ReclaimFacts ==
  ASSUME TypeOK, Good(disk), Reclaim
  PROVE  /\ Good(disk') /\ durable' = disk' /\ boot \in Inum /\ boot' = boot + 1 /\ panic' = panic /\ stray' = stray
         /\ \/ disk' = disk /\ (disk.ino[boot].type = "free" \/ disk.ino[boot].nlink # 0)
            \/ disk.ino[boot].type # "free" /\ disk.ino[boot].nlink = 0 /\ Freed(boot)
<1> DEFINE c == disk.ino[boot]
<1>0. boot \in Inum /\ boot' = boot + 1 /\ durable' = disk' /\ stray' = stray
  BY DEF Reclaim
<1>1. CASE c.type # "free" /\ c.nlink = 0
  <2>1. /\ disk' = iupdate(itrunc(disk, boot, disk.ino[boot]), boot, Zero)
        /\ panic' = IF BlocksOf(disk, disk.ino[boot]) \subseteq disk.used THEN panic ELSE "freeing free block"
    BY <1>1 DEF Reclaim
  <2>2. Good(disk') /\ Freed(boot) /\ BlocksOf(disk, disk.ino[boot]) \subseteq disk.used
    BY <1>0, <2>1, FreeGood
  <2>3. panic' = panic
    BY <2>1, <2>2
  <2> QED
    BY <1>0, <1>1, <2>2, <2>3
<1>2. CASE ~(c.type # "free" /\ c.nlink = 0)
  <2>1. disk' = disk /\ panic' = panic
    BY <1>2 DEF Reclaim
  <2> QED
    BY <1>0, <1>2, <2>1
<1> QED
  BY <1>1, <1>2

(* iput() gives back the blocks of the inode it frees, never a free one. *)
LEMMA IputFreeGood ==
  ASSUME Core, Good(disk), NEW p \in Proc, IputFree(p)
  PROVE  Good(disk') /\ puts[p][1].i \in Inum /\ Freed(puts[p][1].i) /\ panic' = panic
<1>0. TypeOK
  BY DEF Core
<1>1. /\ puts[p][1].i \in Inum
      /\ disk' = iupdate(itrunc(disk, puts[p][1].i, disk.ino[puts[p][1].i]), puts[p][1].i, Zero)
      /\ panic' = IF BlocksOf(disk, disk.ino[puts[p][1].i]) \subseteq disk.used THEN panic ELSE "freeing free block"
  BY FreeFacts
<1>2. PICK i \in Inum : i = puts[p][1].i
  BY <1>1
<1>3. Good(disk') /\ Freed(i) /\ BlocksOf(disk, disk.ino[i]) \subseteq disk.used
  BY <1>0, <1>1, <1>2, FreeGood
<1> QED
  BY <1>1, <1>2, <1>3

(* What a step makes of the disk and of what is committed. *)
LEMMA DiskStep ==
  ASSUME Core, Good(disk), [Next]_vars
  PROVE  (Good(disk') /\ durable' \in {durable, disk, disk'}) \/ (disk' = durable /\ durable' = durable)
<1>0. TypeOK
  BY DEF Core
<1>1. CASE \E p \in Proc : Still(p)
  BY <1>1, StillDisk
<1>2. ASSUME NEW p \in Proc, LinkBad(p) \/ UnlinkCount(p)
      PROVE  Good(disk') /\ durable' = durable
  <2>1. durable' = durable
    BY <1>2 DEF LinkBad, UnlinkCount
  <2> QED
    BY <1>2, <2>1, LinkBadFacts, UnlinkCountFacts, RecountGood
<1>3. ASSUME NEW p \in Proc, LinkCount(p)
      PROVE  Good(disk') /\ durable' = durable
  <2>1. durable' = durable
    BY <1>3 DEF LinkCount
  <2>2. disk' = disk \/ \E i, n : Recounted(i, n)
    BY <1>3, LinkCountFacts
  <2> QED
    BY <2>1, <2>2, RecountGood
<1>4. ASSUME NEW p \in Proc, LinkEnter(p) \/ UnlinkEntry(p)
      PROVE  Good(disk') /\ durable' = durable
  <2>1. durable' = durable
    BY <1>4 DEF LinkEnter, UnlinkEntry
  <2>2. /\ disk.ino[op[p].ip].type = "dir"
        /\ OwnedDisk(disk) => OwnedDisk(disk')
        /\ \A x \in Inum : disk'.ino[x].type = disk.ino[x].type
        /\ \A x \in Inum \ {op[p].ip} : disk'.ino[x] = disk.ino[x]
        /\ \A x \in Inum \ {op[p].ip} : disk'.dir[x] = disk.dir[x]
    <3>1. CASE LinkEnter(p)
      BY <3>1, LinkEnterFacts DEF Entered
    <3>2. CASE UnlinkEntry(p)
      BY <3>2, UnlinkEntryFacts DEF Entered
    <3> QED
      BY <1>4, <3>1, <3>2
  <2>3. /\ \A x \in Inum : disk.ino[x].type = "free" => disk'.ino[x] = disk.ino[x]
        /\ \A x \in Inum : disk.ino[x].type # "dir" => disk'.dir[x] = disk.dir[x] \/ disk'.dir[x] = NoEntries
    BY <2>2
  <2>4. CleanDisk(disk')
    BY <2>2, <2>3, CleanSame DEF Good
  <2> QED
    BY <2>1, <2>2, <2>4 DEF Good
<1>5. ASSUME NEW p \in Proc, Create(p)
      PROVE  Good(disk') /\ durable' = durable
  <2>1. durable' = durable
    BY <1>5 DEF Create
  <2>2. disk' = disk \/ \E new \in Inum : \E z : Allocated(p, new, z)
    BY <1>5, CreateFacts
  <2>3. ASSUME NEW new \in Inum, NEW z, Allocated(p, new, z)
        PROVE  Good(disk')
    BY <1>0, <2>3, AllocGood DEF Allocated
  <2> QED
    BY <2>1, <2>2, <2>3
<1>6. ASSUME NEW p \in Proc, CreateFill(p) \/ Open(p) \/ OpenCreated(p) \/ IputFree(p)
      PROVE  Good(disk') /\ durable' = durable
  <2>1. durable' = durable
    BY <1>6 DEF CreateFill, Open, OpenCreated, IputFree
  <2> QED
    BY <1>6, <2>1, FillGood, OpenFacts, IputFreeGood
<1>7. ASSUME NEW p \in Proc, Write(p)
      PROVE  Good(disk') /\ durable' \in {durable, disk'}
  <2>1. durable' \in {durable, disk'}
    BY <1>7 DEF Write
  <2> QED
    BY <1>7, <2>1, WriteGood
<1>8. ASSUME NEW p \in Proc, End(p)
      PROVE  disk' = disk /\ durable' \in {durable, disk}
  BY <1>8 DEF End
<1>9. CASE Crash
  BY <1>9 DEF Crash
<1>10. CASE Reclaim
  <2>1. Good(disk') /\ durable' = disk'
    BY <1>0, <1>10, ReclaimFacts
  <2> QED
    BY <2>1
<1>11. CASE Booted
  BY <1>11 DEF Booted
<1>12. CASE UNCHANGED vars
  BY <1>12 DEF vars
<1>13. CASE \E p \in Proc : \/ LinkBad(p) \/ UnlinkCount(p) \/ LinkCount(p) \/ LinkEnter(p) \/ UnlinkEntry(p)
                            \/ Create(p) \/ CreateFill(p) \/ Open(p) \/ OpenCreated(p) \/ IputFree(p)
  BY <1>2, <1>3, <1>4, <1>5, <1>6, <1>13
<1>14. CASE \E p \in Proc : Write(p) \/ End(p)
  BY <1>7, <1>8, <1>14
<1> QED
  BY <1>1, <1>9, <1>10, <1>11, <1>12, <1>13, <1>14 DEF Next, Still

(* Every step keeps DiskInv. *)
LEMMA NextDisk ==
  ASSUME Core, DiskInv, [Next]_vars
  PROVE  DiskInv'
<1>1. Good(disk) /\ Good(durable)
  BY DEF DiskInv, Good
<1>2. Good(disk') /\ Good(durable')
  BY <1>1, DiskStep
<1> QED
  BY <1>2 DEF DiskInv, Good

(* DiskInv holds at first. *)
LEMMA InitDiskInv ==
  ASSUME Init
  PROVE  DiskInv
  BY InitGood DEF DiskInv, Good

(* BlocksOwned: whatever the calls, the crashes and the races, a crash leaves
   every block that is in use with exactly one inode, and every block of an
   inode in use: balloc(), bmap(), itrunc() and bfree().                   *)
THEOREM BlocksInvariant == Spec => []BlocksOwned
<1>1. Init => Core /\ DiskInv
  BY InitCore, InitDiskInv
<1>2. Core /\ DiskInv /\ [Next]_vars => Core' /\ DiskInv'
  BY NextCore, NextDisk
<1>3. DiskInv => BlocksOwned
  BY DEF DiskInv, OwnedDisk, BlocksOwned
<1> QED
  BY <1>1, <1>2, <1>3, PTL DEF Spec

===========================================================================
