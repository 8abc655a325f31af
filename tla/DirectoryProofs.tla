------------------------- MODULE DirectoryProofs -------------------------
(* Proofs about what the calls of the file system do to names and links: the
   order of the inode locks, exact link counts, no name of a freed inode, and
   which of the kernel's assertions can fail.                               *)
EXTENDS FileSystemProofs

---------------------------------------------------------------------------
(* What the steps that leave the disk alone do to the calls.               *)

(* p goes on alone, and is not in the middle of an iput(). *)
Alone(p) ==
  /\ \A q \in Proc \ {p} : op'[q] = op[q]
  /\ puts[p] = <<>> /\ freeing' = freeing /\ \E s : puts' = [puts EXCEPT ![p] = s]

(* What the entry of a call does. *)
LEMMA CallFacts ==
  ASSUME Core, NEW p \in Proc, Call(p)
  PROVE  /\ Alone(p) /\ cwd' = cwd /\ op[p].pc = "idle" /\ op'[p].pc = "walk" /\ op'[p].tgt = None
         /\ op'[p].ip \in {ROOTINO, cwd[p]} /\ cwd[p] \in Inum
<1>0. TypeOK /\ puts[p] = <<>> /\ op[p].pc = "idle" /\ p \in alive /\ cwd' = cwd
  BY DEF Core, Call, At, procvars
<1>1. PICK r \in Requests :
        op' = [op EXCEPT ![p] = [call |-> r[1], pc |-> "walk", then |-> Stage[r[1]], path |-> r[2].elems,
                                 ip |-> IF r[2].abs THEN ROOTINO ELSE cwd[p], tgt |-> None, up |-> FALSE]]
  BY DEF Call
<1>2. op'[p].pc = "walk" /\ op'[p].tgt = None /\ op'[p].ip \in {ROOTINO, cwd[p]}
  BY <1>0, <1>1 DEF TypeOK
<1>3. \A q \in Proc \ {p} : op'[q] = op[q]
  BY <1>0, <1>1 DEF TypeOK
<1>4. puts' = [puts EXCEPT ![p] = <<>>] /\ freeing' = freeing
  BY <1>0 DEF TypeOK, Call
<1>5. cwd[p] \in Inum
  BY <1>0, IdleFacts
<1> QED
  BY <1>0, <1>2, <1>3, <1>4, <1>5 DEF Alone

(* Goto() moves one process, that has nothing to put. *)
LEMMA GotoAlone ==
  ASSUME TypeOK, NEW p \in Proc, NEW l \in Labels, Goto(p, l), puts[p] = <<>>, freeing' = freeing,
         puts' = puts \/ \E s : puts' = [puts EXCEPT ![p] = s]
  PROVE  Alone(p) /\ Moved(p, l)
<1>1. Moved(p, l)
  BY GotoMoves
<1>2. puts = [puts EXCEPT ![p] = <<>>]
  BY DEF TypeOK
<1> QED
  BY <1>1, <1>2 DEF Alone, Moved

(* The next step of a path leads to the entry name of i. *)
LooksUp(p, i, name, x) ==
  /\ name \in DirNames /\ disk.ino[i].type = "dir" /\ x = disk.dir[i][name] /\ x \in Inum
  /\ op'[p].up <=> name = ".." /\ disk.ino[i].nlink = 0

(* What a step of namex() does. *)
LEMMA NamexFacts ==
  ASSUME Core, NEW p \in Proc, Namex(p)
  PROVE  /\ Alone(p) /\ op[p].pc = "walk" /\ op[p].ip \in Inum /\ ilock(op[p].ip) /\ cwd' = cwd
         /\ Pends(op'[p]) = Pends(op[p]) /\ op'[p].pc \notin {"fill", "unlink3", "exists", "unlink2"}
         /\ op'[p].pc \in {"walk", "open", "link1", "chdir"} => \E name : LooksUp(p, op[p].ip, name, op'[p].ip)
<1> DEFINE i == op[p].ip
           name == Head(op[p].path)
           next == dirlookup(disk, i, name)
<1>0. TypeOK /\ "walk" \in Labels \ {"idle"} /\ At(p, "walk") /\ op[p].path # <<>> /\ cwd' = cwd /\ ilock(i) /\ freeing' = freeing
  BY DEF Core, Labels, Namex, procvars
<1>1. /\ op[p] \in OpType /\ OpOK(op[p]) /\ op[p].pc = "walk" /\ i \in Inum /\ puts[p] = <<>>
  BY <1>0, AtFacts DEF HasIp
<1>3. op[p].then \in Labels /\ op[p].path \in Seq(DirNames)
  BY <1>1 DEF OpType
<1>4. Copy(i) = disk.ino[i]
  BY <1>0, <1>1, LockedLive
<1>5. name \in DirNames
  BY <1>0, <1>3
<1>6. next \in {None} \cup Inum /\ next = disk.dir[i][name]
  BY <1>0, <1>1, <1>5 DEF dirlookup, TypeOK, DiskType
<1>7. op[p].then # "link2" => op[p].tgt = None
  BY <1>1 DEF OpOK, HasTgt
<1> HIDE DEF next, name
<1>8. CASE Copy(i).type = "dir" /\ nameiparent(p) /\ Len(op[p].path) = 1
  <2>1. Goto(p, op[p].then) /\ puts' = puts
    BY <1>8 DEF Namex
  <2>2. op[p].then \in {"create", "unlink", "link2"}
    BY <1>8 DEF nameiparent
  <2>3. Alone(p) /\ Moved(p, op[p].then)
    BY <1>0, <1>1, <1>3, <2>1, GotoAlone
  <2>4. Pends(op'[p]) = Pends(op[p])
    BY <1>1, <1>7, <2>2, <2>3 DEF Moved, Pends
  <2> QED
    BY <1>0, <1>1, <2>2, <2>3, <2>4 DEF Moved
<1>9. CASE ~(Copy(i).type = "dir" /\ nameiparent(p) /\ Len(op[p].path) = 1) /\ (Copy(i).type # "dir" \/ next = None)
  <2>1. puts' = [puts EXCEPT ![p] = <<Put(i)>>] /\ Goto(p, NotFound(p))
    BY <1>9 DEF Namex, next, name, PutAll
  <2>2. NotFound(p) \in {"linkbad", "end"} /\ (NotFound(p) = "linkbad" <=> op[p].then = "link2") /\ NotFound(p) \in Labels
    BY DEF NotFound, Labels
  <2>3. Alone(p) /\ Moved(p, NotFound(p))
    BY <1>0, <1>1, <2>1, <2>2, GotoAlone
  <2>4. Pends(op'[p]) = Pends(op[p])
    BY <1>1, <1>7, <2>2, <2>3 DEF Moved, Pends
  <2> QED
    BY <1>0, <1>1, <2>2, <2>3, <2>4 DEF Moved
<1>10. CASE ~(Copy(i).type = "dir" /\ nameiparent(p) /\ Len(op[p].path) = 1) /\ ~(Copy(i).type # "dir" \/ next = None)
  <2> DEFINE pc == IF Len(op[p].path) = 1 THEN op[p].then ELSE "walk"
             up == name = ".." /\ Copy(i).nlink = 0
             tail == Tail(op[p].path)
             o == [op[p] EXCEPT !.ip = next, !.path = tail, !.pc = pc, !.up = up]
  <2>1. /\ puts' = [puts EXCEPT ![p] = <<Put(i)>>]
        /\ op' = [op EXCEPT ![p] = [@ EXCEPT !.ip = next, !.path = Tail(op[p].path), !.pc = pc, !.up = up]]
    BY <1>10, Zenon DEF Namex, next, name
  <2>2. up \in BOOLEAN /\ (up <=> name = ".." /\ disk.ino[i].nlink = 0)
    BY <1>4
  <2>3. pc = "walk" \/ (pc = op[p].then /\ ~nameiparent(p))
    BY <1>10
  <2> HIDE DEF pc, up
  <2>4. op' = [op EXCEPT ![p] = o]
    BY <2>1
  <2> HIDE DEF tail
  <2>5. o.pc = pc /\ o.ip = next /\ o.tgt = op[p].tgt /\ o.up = up
    BY <1>1 DEF OpType
  <2> HIDE DEF o
  <2>6. op'[p] = o /\ \A q \in Proc \ {p} : op'[q] = op[q]
    BY <1>0, <2>4 DEF TypeOK
  <2>7. pc \in {"walk", "open", "link1", "chdir"} /\ (pc # "walk" => op[p].tgt = None)
    BY <1>1, <1>7, <2>3 DEF nameiparent, OpOK
  <2>8. next \in Inum /\ disk.ino[i].type = "dir"
    BY <1>4, <1>6, <1>10
  <2>9. LooksUp(p, i, name, op'[p].ip)
    BY <1>5, <1>6, <2>2, <2>5, <2>6, <2>8 DEF LooksUp
  <2>10. Alone(p)
    BY <1>0, <1>1, <2>1, <2>6 DEF Alone
  <2>11. Pends(op'[p]) = Pends(op[p]) /\ op'[p].pc \notin {"fill", "unlink3", "exists", "unlink2"}
    BY <1>1, <2>5, <2>6, <2>7 DEF Pends
  <2> QED
    BY <1>0, <1>1, <2>9, <2>10, <2>11
<1> QED
  BY <1>8, <1>9, <1>10

(* What namex() does at the end of the path. *)
LEMMA NamexDoneFacts ==
  ASSUME Core, NEW p \in Proc, NamexDone(p)
  PROVE  /\ Alone(p) /\ op[p].pc = "walk" /\ op[p].ip \in Inum /\ cwd' = cwd
         /\ Pends(op'[p]) = Pends(op[p]) /\ op'[p].pc \notin {"fill", "unlink3", "exists", "unlink2"}
         /\ op'[p].pc \in {"walk", "open", "link1", "chdir"} => op'[p].ip = op[p].ip /\ op'[p].up = op[p].up
<1>0. TypeOK /\ "walk" \in Labels \ {"idle"} /\ At(p, "walk") /\ cwd' = cwd /\ freeing' = freeing
  BY DEF Core, Labels, NamexDone, procvars
<1>1. /\ op[p] \in OpType /\ OpOK(op[p]) /\ op[p].pc = "walk" /\ op[p].ip \in Inum /\ puts[p] = <<>>
  BY <1>0, AtFacts DEF HasIp
<1>2. op[p].then # "link2" => op[p].tgt = None
  BY <1>1 DEF OpOK, HasTgt
<1>3. CASE nameiparent(p)
  <2>1. puts' = [puts EXCEPT ![p] = <<Put(op[p].ip)>>] /\ Goto(p, NotFound(p))
    BY <1>3 DEF NamexDone, PutAll
  <2>2. NotFound(p) \in {"linkbad", "end"} /\ (NotFound(p) = "linkbad" <=> op[p].then = "link2") /\ NotFound(p) \in Labels
    BY DEF NotFound, Labels
  <2>3. Alone(p) /\ Moved(p, NotFound(p))
    BY <1>0, <1>1, <2>1, <2>2, GotoAlone
  <2>4. Pends(op'[p]) = Pends(op[p])
    BY <1>1, <1>2, <2>2, <2>3 DEF Moved, Pends
  <2> QED
    BY <1>0, <1>1, <2>2, <2>3, <2>4 DEF Moved
<1>4. CASE ~nameiparent(p)
  <2>1. puts' = puts /\ Goto(p, op[p].then)
    BY <1>4 DEF NamexDone
  <2>2. op[p].then \in {"open", "link1", "chdir"} /\ op[p].then \in Labels
    BY <1>1, <1>4 DEF OpOK, nameiparent, Labels
  <2>3. Alone(p) /\ Moved(p, op[p].then)
    BY <1>0, <1>1, <2>1, <2>2, GotoAlone
  <2>4. Pends(op'[p]) = Pends(op[p])
    BY <1>1, <1>2, <2>2, <2>3 DEF Moved, Pends
  <2> QED
    BY <1>0, <1>1, <2>2, <2>3, <2>4 DEF Moved
<1> QED
  BY <1>3, <1>4

(* What create() of a name that is there does. *)
LEMMA CreateExistsFacts ==
  ASSUME Core, NEW p \in Proc, CreateExists(p)
  PROVE  /\ Alone(p) /\ cwd' = cwd /\ op[p].pc = "exists" /\ op'[p].pc \in {"opened", "end"}
<1>0. TypeOK /\ {"exists", "opened", "end"} \subseteq Labels \ {"idle"} /\ At(p, "exists") /\ cwd' = cwd /\ freeing' = freeing
  BY DEF Core, Labels, CreateExists, procvars
<1>1. puts[p] = <<>> /\ op[p].pc = "exists"
  BY <1>0, AtFacts
<1>2. \/ Goto(p, "opened") /\ puts' = puts
      \/ Goto(p, "end") /\ puts' = [puts EXCEPT ![p] = <<Put(op[p].tgt)>>]
  BY DEF CreateExists, PutAll
<1>3. CASE Goto(p, "opened") /\ puts' = puts
  <2>1. Alone(p) /\ Moved(p, "opened")
    BY <1>0, <1>1, <1>3, GotoAlone
  <2> QED
    BY <1>0, <1>1, <2>1 DEF Moved
<1>4. CASE Goto(p, "end") /\ puts' = [puts EXCEPT ![p] = <<Put(op[p].tgt)>>]
  <2>1. Alone(p) /\ Moved(p, "end")
    BY <1>0, <1>1, <1>4, GotoAlone
  <2> QED
    BY <1>0, <1>1, <2>1 DEF Moved
<1> QED
  BY <1>2, <1>3, <1>4

(* What sys_chdir() does. *)
LEMMA ChdirFacts ==
  ASSUME Core, NEW p \in Proc, Chdir(p)
  PROVE  /\ Alone(p) /\ op[p].pc = "chdir" /\ op'[p].pc = "end" /\ op[p].ip \in Live
         /\ cwd'[p] \in {cwd[p], op[p].ip} /\ \A q \in Proc \ {p} : cwd'[q] = cwd[q]
<1>0. TypeOK /\ {"chdir", "end"} \subseteq Labels \ {"idle"} /\ At(p, "chdir") /\ ilock(op[p].ip) /\ freeing' = freeing
  BY DEF Core, Labels, Chdir
<1>1. puts[p] = <<>> /\ op[p].pc = "chdir" /\ op[p].ip \in Inum
  BY <1>0, AtFacts DEF HasIp
<1>2. Goto(p, "end") /\ (\E s : puts' = [puts EXCEPT ![p] = s]) /\ (cwd' = cwd \/ cwd' = [cwd EXCEPT ![p] = op[p].ip])
  BY DEF Chdir, PutAll
<1>3. Alone(p) /\ Moved(p, "end")
  BY <1>0, <1>1, <1>2, GotoAlone
<1>4. cwd'[p] \in {cwd[p], op[p].ip} /\ \A q \in Proc \ {p} : cwd'[q] = cwd[q]
  BY <1>0, <1>2 DEF TypeOK
<1>5. op[p].ip \in Live
  BY <1>0, <1>1, LockedLive
<1> QED
  BY <1>1, <1>3, <1>4, <1>5 DEF Moved

(* What sys_unlink() does up to the lock of the inode. *)
LEMMA UnlinkFacts ==
  ASSUME Core, NEW p \in Proc, Unlink(p)
  PROVE  /\ Alone(p) /\ cwd' = cwd /\ op[p].pc = "unlink" /\ op'[p].pc \in {"unlink2", "end"}
         /\ op'[p].pc = "unlink2" => \E n \in Names : op'[p].tgt = disk.dir[op[p].ip][n] /\ op'[p].tgt \in Inum /\ op[p].ip \in Inum
<1> DEFINE dp == op[p].ip
           name == Head(op[p].path)
           ip == dirlookup(disk, dp, name)
<1>0. TypeOK /\ {"unlink", "end"} \subseteq Labels \ {"idle"} /\ At(p, "unlink") /\ cwd' = cwd /\ freeing' = freeing
  BY DEF Core, Labels, Unlink, procvars
<1>1. /\ op[p] \in OpType /\ OpOK(op[p]) /\ op[p].pc = "unlink" /\ dp \in Inum /\ puts[p] = <<>>
  BY <1>0, AtFacts DEF HasIp
<1>2. op[p].path # <<>>
  BY <1>1 DEF OpOK
<1>4. name \in DirNames
  BY <1>1, <1>2 DEF OpType
<1>5. ip \in {None} \cup Inum /\ ip = disk.dir[dp][name]
  BY <1>0, <1>1, <1>4 DEF dirlookup, TypeOK, DiskType
<1> HIDE DEF name, ip
<1>8. CASE Dot(name) \/ ip = None
  <2>1. puts' = [puts EXCEPT ![p] = <<Put(dp)>>] /\ Goto(p, "end")
    BY <1>8 DEF Unlink, name, ip, PutAll
  <2>2. Alone(p) /\ Moved(p, "end")
    BY <1>0, <1>1, <2>1, GotoAlone
  <2> QED
    BY <1>0, <1>1, <2>2 DEF Moved
<1>9. CASE ~(Dot(name) \/ ip = None)
  <2> DEFINE o == [op[p] EXCEPT !.pc = "unlink2", !.tgt = ip]
  <2>1. puts' = puts /\ op' = [op EXCEPT ![p].pc = "unlink2", ![p].tgt = ip]
    BY <1>9 DEF Unlink, name, ip
  <2>2. ip \in Inum /\ name \in Names
    BY <1>4, <1>5, <1>9 DEF Dot, DirNames
  <2>3. op' = [op EXCEPT ![p] = o]
    BY <1>0, <2>1 DEF TypeOK
  <2>4. o.pc = "unlink2" /\ o.tgt = ip
    BY <1>1 DEF OpType
  <2> HIDE DEF o
  <2>5. op'[p] = o /\ \A q \in Proc \ {p} : op'[q] = op[q]
    BY <1>0, <2>3 DEF TypeOK
  <2>6. puts' = [puts EXCEPT ![p] = <<>>]
    BY <1>0, <1>1, <2>1 DEF TypeOK
  <2>7. Alone(p)
    BY <1>0, <1>1, <2>5, <2>6 DEF Alone
  <2> QED
    BY <1>0, <1>1, <1>5, <2>2, <2>4, <2>5, <2>7
<1> QED
  BY <1>8, <1>9

(* The calls that do not look up a path. *)
LEMMA QuietFacts ==
  ASSUME Core, NEW p \in Proc,
         Dup(p) \/ Close(p) \/ Write(p) \/ Read(p) \/ Fstat(p) \/ Fork(p) \/ Exit(p) \/ ExitClose(p) \/ ExitCwd(p) \/ End(p)
  PROVE  /\ Alone(p) /\ op[p].pc \in {"idle", "exit", "end"} /\ op'[p].pc \in {"idle", "exit", "end"}
         /\ \A q \in Proc : cwd'[q] = cwd[q] \/ cwd'[q] = cwd[p] \/ cwd'[q] = None
<1>0. TypeOK /\ {"exit", "end", "idle"} \subseteq Labels
  BY DEF Core, Labels
<1>1. puts[p] = <<>> /\ op[p].pc \in {"idle", "exit", "end"} /\ freeing' = freeing
  BY DEF Dup, Close, Write, Read, Fstat, Fork, Exit, ExitClose, ExitCwd, End, At
<1>2. puts = [puts EXCEPT ![p] = <<>>]
  BY <1>0, <1>1 DEF TypeOK
<1>3. ASSUME op' = op, puts' = puts
      PROVE  Alone(p) /\ op'[p].pc \in {"idle", "exit", "end"}
  BY <1>1, <1>2, <1>3 DEF Alone
<1>4. ASSUME NEW o, op' = [op EXCEPT ![p] = o], o.pc \in {"idle", "exit", "end"}, \E s : puts' = [puts EXCEPT ![p] = s]
      PROVE  Alone(p) /\ op'[p].pc \in {"idle", "exit", "end"}
  <2>1. op'[p] = o /\ \A q \in Proc \ {p} : op'[q] = op[q]
    BY <1>0, <1>4 DEF TypeOK
  <2> QED
    BY <1>1, <1>4, <2>1 DEF Alone
<1>5. ASSUME NEW d, NEW l \in {"idle", "exit"}, fileclose(p, d, l)
      PROVE  Alone(p) /\ op'[p].pc \in {"idle", "exit", "end"}
  <2>1. CASE Goto(p, "end") /\ \E s : puts' = [puts EXCEPT ![p] = s]
    <3>1. Alone(p) /\ Moved(p, "end")
      BY <1>0, <1>1, <2>1, GotoAlone
    <3> QED
      BY <3>1 DEF Moved
  <2>2. CASE Goto(p, l) /\ puts' = puts
    <3>1. Alone(p) /\ Moved(p, l)
      BY <1>0, <1>1, <2>2, GotoAlone
    <3> QED
      BY <3>1 DEF Moved
  <2> QED
    BY <1>5, <2>1, <2>2 DEF fileclose, PutAll
<1>6. CASE Dup(p) \/ Write(p) \/ Read(p) \/ Fstat(p)
  <2>1. op' = op /\ puts' = puts /\ cwd' = cwd
    BY <1>6 DEF Dup, Write, Read, Fstat, procvars
  <2> QED
    BY <1>1, <1>3, <2>1
<1>7. CASE Fork(p)
  <2>1. op' = op /\ puts' = puts /\ \E q \in Proc : cwd' = [cwd EXCEPT ![q] = cwd[p]]
    BY <1>7 DEF Fork
  <2>2. \A q \in Proc : cwd'[q] = cwd[q] \/ cwd'[q] = cwd[p]
    BY <1>0, <2>1 DEF TypeOK
  <2> QED
    BY <1>1, <1>3, <2>1, <2>2
<1>8. CASE Close(p) \/ ExitClose(p)
  <2>1. cwd' = cwd /\ \E d, l : l \in {"idle", "exit"} /\ fileclose(p, d, l)
    BY <1>8 DEF Close, ExitClose
  <2> QED
    BY <1>1, <1>5, <2>1
<1>9. CASE Exit(p)
  <2>1. PICK o : o = [Idle EXCEPT !.call = "exit", !.pc = "exit"]
    OBVIOUS
  <2>2. o.pc = "exit"
    BY <2>1 DEF Idle
  <2>3. op' = [op EXCEPT ![p] = o] /\ puts' = puts /\ cwd' = cwd
    BY <1>9, <2>1 DEF Exit, procvars
  <2>4. \E s : puts' = [puts EXCEPT ![p] = s]
    BY <1>2, <2>3
  <2> QED
    BY <1>1, <1>4, <2>2, <2>3, <2>4
<1>10. CASE ExitCwd(p)
  <2>1. PICK o : o = [op[p] EXCEPT !.pc = "end", !.call = "gone"]
    OBVIOUS
  <2>2. o.pc = "end"
    BY <1>0, <2>1 DEF TypeOK, OpType
  <2>3. op' = [op EXCEPT ![p] = o]
    BY <1>0, <1>10, <2>1 DEF ExitCwd, TypeOK
  <2>4. \A q \in Proc : cwd'[q] = cwd[q] \/ cwd'[q] = None
    BY <1>0, <1>10 DEF ExitCwd, TypeOK
  <2>5. o.pc \in {"idle", "exit", "end"} /\ \E s : puts' = [puts EXCEPT ![p] = s]
    BY <1>10, <2>2 DEF ExitCwd
  <2>6. Alone(p) /\ op'[p].pc \in {"idle", "exit", "end"}
    BY <1>4, <2>3, <2>5
  <2>7. \A q \in Proc : cwd'[q] = cwd[q] \/ cwd'[q] = cwd[p] \/ cwd'[q] = None
    BY <2>4
  <2> QED
    BY <1>1, <2>6, <2>7, Zenon
<1>11. CASE End(p)
  <2>a. PICK o : o = IF op[p].call = "exit" THEN [Idle EXCEPT !.call = "exit", !.pc = "exit"] ELSE Idle
    OBVIOUS
  <2>b. op' = [op EXCEPT ![p] = o]
    BY <1>11, <2>a DEF End
  <2>c. o.pc \in {"idle", "exit", "end"}
    BY <2>a DEF Idle
  <2>2. puts' = puts /\ cwd' = cwd
    BY <1>11 DEF End
  <2>3. \E s : puts' = [puts EXCEPT ![p] = s]
    BY <1>2, <2>2
  <2> QED
    BY <1>1, <1>4, <2>b, <2>c, <2>2, <2>3
<1> QED
  BY <1>6, <1>7, <1>8, <1>9, <1>10, <1>11

---------------------------------------------------------------------------
(* ireclaim() goes through the inodes while nobody runs.                   *)

(* The steps of a process, but for a panic in ilock(). *)
LEMMA RunsAfterBoot ==
  ASSUME Core, NEW p \in Proc,
         \/ Call(p) \/ Namex(p) \/ NamexDone(p) \/ Iput(p) \/ IputFree(p) \/ IputDrop(p)
         \/ Create(p) \/ CreateExists(p) \/ CreateFill(p) \/ Open(p) \/ OpenCreated(p)
         \/ Dup(p) \/ Close(p) \/ Write(p) \/ Read(p) \/ Fstat(p)
         \/ LinkCount(p) \/ LinkEnter(p) \/ LinkBad(p)
         \/ Unlink(p) \/ UnlinkEntry(p) \/ UnlinkCount(p) \/ Chdir(p)
         \/ Fork(p) \/ Exit(p) \/ ExitClose(p) \/ ExitCwd(p) \/ End(p)
  PROVE  boot = None /\ boot' = boot
<1>1. CASE \/ Call(p) \/ Namex(p) \/ NamexDone(p) \/ Create(p) \/ CreateExists(p) \/ CreateFill(p) \/ Open(p)
           \/ OpenCreated(p) \/ Dup(p) \/ Close(p) \/ Write(p) \/ Read(p) \/ Fstat(p)
  BY <1>1 DEF Call, Namex, NamexDone, Create, CreateExists, CreateFill, Open, OpenCreated, Dup, Close, Write, Read,
              Fstat, At
<1>2. CASE \/ LinkCount(p) \/ LinkEnter(p) \/ LinkBad(p) \/ Unlink(p) \/ UnlinkEntry(p) \/ UnlinkCount(p) \/ Chdir(p)
           \/ Fork(p) \/ Exit(p) \/ ExitClose(p) \/ ExitCwd(p) \/ End(p)
  BY <1>2 DEF LinkCount, LinkEnter, LinkBad, Unlink, UnlinkEntry, UnlinkCount, Chdir, Fork, Exit, ExitClose, ExitCwd,
              End, At
<1>3. CASE Iput(p) \/ IputFree(p) \/ IputDrop(p)
  <2>1. puts[p] # <<>> \/ freeing[p] # "no"
    BY <1>3 DEF Iput, IputFree, IputDrop
  <2>2. puts[p] # <<>>
    BY <2>1 DEF Core, PcInv, ProcOK
  <2>3. boot' = boot
    BY <1>3 DEF Iput, IputFree, IputDrop
  <2> QED
    BY <2>2, <2>3, PutterFacts
<1> QED
  BY <1>1, <1>2, <1>3

(* Every step keeps BootedInv: ireclaim() leaves no inode without links
   behind it.                                                             *)
LEMMA NextBooted ==
  ASSUME Core, DiskInv, BootedInv, [Next]_vars
  PROVE  BootedInv'
<1>0. TypeOK /\ Good(disk)
  BY DEF Core, DiskInv, Good
<1>1. CASE boot = None /\ boot' = boot
  BY <1>1 DEF BootedInv
<1>2. CASE disk' = disk /\ boot' = boot
  BY <1>2 DEF BootedInv
<1>3. CASE Crash
  <2>1. boot' = 1 /\ \A i \in Inum : ~(i < 1)
    BY <1>3 DEF Crash, Inum
  <2> QED
    BY <2>1 DEF BootedInv
<1>4. CASE Booted
  BY <1>4 DEF Booted, BootedInv
<1>5. CASE Reclaim
  <2>1. /\ boot \in Inum /\ boot' = boot + 1
        /\ \/ disk' = disk /\ (disk.ino[boot].type = "free" \/ disk.ino[boot].nlink # 0)
           \/ Freed(boot)
    BY <1>0, <1>5, ReclaimFacts
  <2>2. boot # None
    BY <2>1, ConstFacts
  <2>3. \A i \in Inum : i < boot /\ disk.ino[i].type # "free" => disk.ino[i].nlink # 0
    BY <2>2 DEF BootedInv
  <2>4. \A i \in Inum : i < boot + 1 => i < boot \/ i = boot
    BY <2>1 DEF Inum
  <2>5. \A i \in Inum : i < boot' /\ disk'.ino[i].type # "free" => disk'.ino[i].nlink # 0
    <3>1. CASE disk' = disk /\ (disk.ino[boot].type = "free" \/ disk.ino[boot].nlink # 0)
      BY <2>1, <2>3, <2>4, <3>1
    <3>2. CASE Freed(boot)
      <4>1. disk'.ino[boot].type = "free" /\ \A x \in Inum \ {boot} : disk'.ino[x] = disk.ino[x]
        BY <3>2, ZeroType DEF Freed
      <4> QED
        BY <2>1, <2>3, <2>4, <4>1
    <3> QED
      BY <2>1, <3>1, <3>2
  <2> QED
    BY <2>5 DEF BootedInv
<1>6. CASE \E p \in Proc : IlockPanic(p)
  <2>1. disk' = disk /\ boot' = boot
    BY <1>6 DEF IlockPanic
  <2> QED
    BY <1>2, <2>1
<1>7. CASE UNCHANGED vars
  <2>1. disk' = disk /\ boot' = boot
    BY <1>7 DEF vars
  <2> QED
    BY <1>2, <2>1
<1>8. CASE \E p \in Proc :
             \/ Call(p) \/ Namex(p) \/ NamexDone(p) \/ Iput(p) \/ IputFree(p) \/ IputDrop(p)
             \/ Create(p) \/ CreateExists(p) \/ CreateFill(p) \/ Open(p) \/ OpenCreated(p)
             \/ Dup(p) \/ Close(p) \/ Write(p) \/ Read(p) \/ Fstat(p)
             \/ LinkCount(p) \/ LinkEnter(p) \/ LinkBad(p)
             \/ Unlink(p) \/ UnlinkEntry(p) \/ UnlinkCount(p) \/ Chdir(p)
             \/ Fork(p) \/ Exit(p) \/ ExitClose(p) \/ ExitCwd(p) \/ End(p)
  <2>1. boot = None /\ boot' = boot
    BY <1>8, RunsAfterBoot
  <2> QED
    BY <1>1, <2>1
<1> QED
  BY <1>3, <1>4, <1>5, <1>6, <1>7, <1>8 DEF Next

---------------------------------------------------------------------------
(* Names lead downwards, and so locks are taken downwards.                 *)

(* The ranks of the inodes of a disk on which creates are under way. *)
RanksNow(m, r) ==
  /\ m \in Nat /\ r \in [Inum -> 0 .. m] /\ Downwards(disk, r)
  /\ \A p \in Proc : op[p].pc = "fill" => r[op[p].ip] < r[op[p].tgt]

(* RankInv, with the ranks named. *)
LEMMA RankDef == RankInv <=> Ranked(durable) /\ \E m, r : RanksNow(m, r)
  BY DEF RankInv, RanksNow

(* Nobody comes to fill an inode, and no name comes to lead to another. *)
NoFill == \A q \in Proc : op'[q].pc = "fill" => op'[q].ip = op[q].ip /\ op'[q].tgt = op[q].tgt /\ op[q].pc = "fill"
NoName == \A d \in Inum, n \in Names : disk'.dir[d][n] # None => disk'.dir[d][n] = disk.dir[d][n]

(* Ranks fit as long as no name and no create() is new. *)
LEMMA RankKept ==
  ASSUME NEW m, NEW r, RanksNow(m, r), NoFill, NoName
  PROVE  RanksNow(m, r)'
<1>1. Downwards(disk, r)'
  BY DEF RanksNow, NoName, Downwards
<1>2. \A p \in Proc : op'[p].pc = "fill" => r[op'[p].ip] < r[op'[p].tgt]
  BY DEF RanksNow, NoFill
<1> QED
  BY <1>1, <1>2 DEF RanksNow

(* An inode without names in it can go below all others. *)
LEMMA RaiseRank ==
  ASSUME TypeOK, NEW m, NEW r, RanksNow(m, r), NEW x \in Inum, \A n \in Names : disk.dir[x][n] = None,
         \A p \in Proc : op[p].pc = "fill" => op[p].ip \in Inum /\ op[p].tgt \in Inum /\ op[p].ip # x
  PROVE  \E s : RanksNow(m + 1, s) /\ \A i \in Inum \ {x} : s[i] < s[x]
<1> DEFINE s == [r EXCEPT ![x] = m + 1]
<1>0. m \in Nat /\ r \in [Inum -> 0 .. m]
  BY DEF RanksNow
<1>1. /\ s \in [Inum -> 0 .. m + 1] /\ s[x] = m + 1
      /\ \A i \in Inum \ {x} : s[i] = r[i] /\ r[i] < m + 1
  BY <1>0
<1> HIDE DEF s
<1>2. \A i \in Inum : i # x => s[i] < s[x]
  BY <1>1
<1>3. ASSUME NEW d \in Inum, NEW n \in Names, disk.dir[d][n] # None
      PROVE  s[d] < s[disk.dir[d][n]]
  <2>1. d # x /\ disk.dir[d][n] \in Inum
    BY <1>3, ConstFacts DEF TypeOK, DiskType
  <2>2. r[d] < r[disk.dir[d][n]]
    BY <1>3 DEF RanksNow, Downwards
  <2> QED
    BY <1>1, <1>2, <2>1, <2>2
<1>4. \A p \in Proc : op[p].pc = "fill" => s[op[p].ip] < s[op[p].tgt]
  BY <1>1, <1>2 DEF RanksNow
<1>5. m + 1 \in Nat
  BY <1>0
<1>6. RanksNow(m + 1, s)
  BY <1>1, <1>3, <1>4, <1>5 DEF RanksNow, Downwards
<1> QED
  BY <1>2, <1>6

(* A create() under way has a directory and an inode. *)
LEMMA FillRefers ==
  ASSUME Core, NEW p \in Proc, op[p].pc = "fill"
  PROVE  op[p].ip \in Inum /\ op[p].tgt \in Inum /\ disk.ino[op[p].ip].type = "dir"
<1>1. op[p] \in OpType /\ OpOK(op[p]) /\ OpAlive(op[p])
  BY DEF Core, TypeOK, PcInv, AliveInv
<1> QED
  BY <1>1 DEF OpType, OpOK, HasIp, HasTgt, OpAlive

(* A call that goes on elsewhere is no new create(). *)
LEMMA MovedNoFill ==
  ASSUME NEW p \in Proc, op'[p].pc # "fill", \A q \in Proc \ {p} : op'[q] = op[q]
  PROVE  NoFill
  BY DEF NoFill

(* Entries that stay as they are are no new names. *)
LEMMA SameNoName ==
  ASSUME TypeOK, disk'.dir = disk.dir \/ disk' = disk \/ SameNames
  PROVE  NoName
  BY DEF NoName, SameNames

(* create() with a new inode: nothing is in that one yet. *)
LEMMA CreateRank ==
  ASSUME Core, DiskInv, NEW p \in Proc, Create(p), NEW m, NEW r, RanksNow(m, r)
  PROVE  \E k, s : RanksNow(k, s)'
<1>0. TypeOK /\ AliveInv /\ \A q \in Proc \ {p} : op'[q] = op[q]
  BY CreateFacts DEF Core
<1>1. CASE disk' = disk /\ op'[p].pc # "fill"
  BY <1>0, <1>1, MovedNoFill, SameNoName, RankKept
<1>2. ASSUME NEW new \in Inum, NEW z, Allocated(p, new, z)
      PROVE  \E k, s : RanksNow(k, s)'
  <2>1. disk.ino[new].type = "free" /\ disk'.dir = disk.dir /\ op'[p].tgt = new /\ op'[p].ip = op[p].ip
    BY <1>2 DEF Allocated
  <2>2. \A n \in Names : disk.dir[new][n] = None
    BY <2>1, NoEntriesType, ConstFacts DEF DiskInv, CleanDisk
  <2>3. \A q \in Proc : op[q].pc = "fill" => op[q].ip \in Inum /\ op[q].tgt \in Inum /\ op[q].ip # new
    BY <2>1, FillRefers
  <2>4. PICK s : RanksNow(m + 1, s) /\ \A i \in Inum \ {new} : s[i] < s[new]
    BY <1>0, <2>2, <2>3, RaiseRank
  <2>5. op[p].ip \in Inum /\ op[p].ip # new
    <3>1. op[p].pc = "create" /\ op[p].ip \in Inum
      BY CreateFacts
    <3> QED
      BY <1>0, <2>1, <3>1 DEF AliveInv, OpAlive
  <2>6. s[op'[p].ip] < s[op'[p].tgt]
    BY <2>1, <2>4, <2>5
  <2>7. \A q \in Proc : op'[q].pc = "fill" => s[op'[q].ip] < s[op'[q].tgt]
    BY <1>0, <2>4, <2>6 DEF RanksNow
  <2>8. Downwards(disk', s)
    BY <2>1, <2>4 DEF RanksNow, Downwards
  <2>9. RanksNow(m + 1, s)'
    BY <2>4, <2>7, <2>8 DEF RanksNow
  <2> QED
    BY <2>9
<1>3. \/ disk' = disk /\ op'[p].pc # "fill"
      \/ \E new \in Inum : \E z : Allocated(p, new, z)
  BY CreateFacts DEF Moved
<1> QED
  BY <1>1, <1>2, <1>3

(* create() with a new name: its inode was below the directory already. *)
LEMMA FillRank ==
  ASSUME Core, DiskInv, NEW p \in Proc, CreateFill(p), NEW m, NEW r, RanksNow(m, r)
  PROVE  RanksNow(m, r)'
<1> DEFINE dp == op[p].ip
           ip == op[p].tgt
           name == Head(op[p].path)
<1>0. TypeOK /\ "fill" \in Labels \ {"idle"} /\ At(p, "fill") /\ {"opened", "end"} \subseteq Labels
  BY DEF Core, Labels, CreateFill
<1>1. op[p].pc = "fill" /\ dp \in Inum /\ ip \in Inum
  BY <1>0, AtFacts, FillRefers
<1>2. Goto(p, "opened") \/ Goto(p, "end")
  BY DEF CreateFill, PutAll
<1>3. NoFill
  BY <1>0, <1>2, GotoMoves, MovedNoFill DEF Moved
<1>4. r[dp] < r[ip]
  BY <1>1 DEF RanksNow
<1>5. ASSUME NEW c, NEW d, Filled(p, c, d)
      PROVE  Downwards(disk', r)
  <2>1. /\ disk'.dir[dp][name] = ip
        /\ \A n \in DirNames \ {name} : disk'.dir[dp][n] = disk.dir[dp][n]
        /\ \A x \in Inum \ {ip, dp} : disk'.dir[x] = disk.dir[x]
        /\ disk'.dir[ip] = disk.dir[ip] \/ \A n \in Names : disk'.dir[ip][n] = disk.dir[ip][n]
    BY <1>5 DEF Filled
  <2>2. Names \subseteq DirNames /\ Downwards(disk, r)
    BY ConstFacts DEF RanksNow
  <2>3. ip # dp
    BY <1>1, <1>4 DEF RanksNow
  <2> HIDE DEF ip, dp, name
  <2> QED
    BY <1>4, <2>1, <2>2, <2>3 DEF Downwards
<1>6. ASSUME NEW c, Unfilled(p, c)
      PROVE  Downwards(disk', r)
  <2>1. /\ \A x \in Inum \ {ip} : disk'.dir[x] = disk.dir[x]
        /\ \A n \in Names : disk'.dir[ip][n] = disk.dir[ip][n]
    BY <1>6 DEF Unfilled
  <2> QED
    BY <2>1 DEF RanksNow, Downwards
<1>7. Downwards(disk', r)
  BY <1>5, <1>6, FillFacts
<1>8. \A q \in Proc : op'[q].pc = "fill" => r[op'[q].ip] < r[op'[q].tgt]
  BY <1>3 DEF NoFill, RanksNow
<1> QED
  BY <1>7, <1>8 DEF RanksNow

(* link(): nothing can be in what gets another name. *)
LEMMA LinkEnterRank ==
  ASSUME Core, DiskInv, NEW p \in Proc, LinkEnter(p), NEW m, NEW r, RanksNow(m, r)
  PROVE  \E k, s : RanksNow(k, s)'
<1> DEFINE dp == op[p].ip
           t == op[p].tgt
           name == Head(op[p].path)
<1>0. TypeOK
  BY DEF Core
<1>1. /\ dp \in Inum /\ t \in Inum /\ disk.ino[dp].type = "dir" /\ disk.ino[t].type # "dir"
      /\ op'[p].pc # "fill" /\ \A q \in Proc \ {p} : op'[q] = op[q]
      /\ disk'.dir = disk.dir \/ Entered(dp, name, t)
  BY LinkEnterFacts DEF Moved
<1>2. NoFill
  BY <1>1, MovedNoFill
<1>3. CASE disk'.dir = disk.dir
  BY <1>0, <1>2, <1>3, SameNoName, RankKept
<1>4. CASE Entered(dp, name, t)
  <2>1. \A n \in Names : disk.dir[t][n] = None
    BY <1>1, NoEntriesType, ConstFacts DEF DiskInv, CleanDisk
  <2>2. \A q \in Proc : op[q].pc = "fill" => op[q].ip \in Inum /\ op[q].tgt \in Inum /\ op[q].ip # t
    BY <1>1, FillRefers
  <2> HIDE DEF t, dp, name
  <2>3. PICK s : RanksNow(m + 1, s) /\ \A i \in Inum \ {t} : s[i] < s[t]
    BY <1>0, <1>1, <2>1, <2>2, RaiseRank
  <2>4. s[dp] < s[t]
    BY <1>1, <2>3
  <2>5. Downwards(disk', s)
    BY <1>4, <2>3, <2>4, ConstFacts DEF Entered, Downwards, RanksNow
  <2>6. \A q \in Proc : op'[q].pc = "fill" => s[op'[q].ip] < s[op'[q].tgt]
    BY <1>2, <2>3 DEF NoFill, RanksNow
  <2>7. RanksNow(m + 1, s)'
    BY <2>3, <2>5, <2>6 DEF RanksNow
  <2> QED
    BY <2>7
<1> QED
  BY <1>1, <1>3, <1>4

(* A set of numbers that is not empty has a least member. *)
LEMMA LeastIn ==
  ASSUME NEW S, S \subseteq Nat, S # {}
  PROVE  \E x \in S : \A y \in S : x <= y
<1> DEFINE Less == {ss \in Nat \X Nat : ss[1] < ss[2]}
<1>1. IsWellFoundedOn(Less, Nat)
  BY NatLessThanWellFounded DEF OpToRel
<1>2. \A x, y \in Nat : y < x => <<y, x>> \in Less
  OBVIOUS
<1> HIDE DEF Less
<1>3. PICK x \in S : \A y \in S : ~(<<y, x>> \in Less)
  BY <1>1, WFMin
<1>4. ASSUME NEW y \in S PROVE x <= y
  <2>1. x \in Nat /\ y \in Nat /\ ~(<<y, x>> \in Less)
    BY <1>3
  <2>2. ~(y < x)
    BY <1>2, <2>1
  <2> QED
    BY <2>1, <2>2
<1> QED
  BY <1>4

(* All other steps of a process leave the ranks alone. *)
LEMMA OthersRank ==
  ASSUME Core, DiskInv, NEW p \in Proc,
         \/ Call(p) \/ Namex(p) \/ NamexDone(p) \/ Iput(p) \/ IputFree(p) \/ IputDrop(p) \/ IlockPanic(p)
         \/ CreateExists(p) \/ Open(p) \/ OpenCreated(p)
         \/ Dup(p) \/ Close(p) \/ Write(p) \/ Read(p) \/ Fstat(p)
         \/ LinkCount(p) \/ LinkBad(p) \/ Unlink(p) \/ UnlinkEntry(p) \/ UnlinkCount(p) \/ Chdir(p)
         \/ Fork(p) \/ Exit(p) \/ ExitClose(p) \/ ExitCwd(p) \/ End(p)
  PROVE  NoFill /\ NoName
<1>0. TypeOK /\ Good(disk)
  BY DEF Core, DiskInv, Good
<1>1. ASSUME op' = op PROVE NoFill
  BY <1>1 DEF NoFill
<1>2. CASE Iput(p) \/ IputDrop(p) \/ IlockPanic(p)
  <2>1. op' = op /\ disk' = disk
    BY <1>2 DEF Iput, IputDrop, IlockPanic
  <2> QED
    BY <1>0, <1>1, <2>1, SameNoName
<1>3. CASE IputFree(p)
  <2>1. op' = op
    BY <1>3 DEF IputFree
  <2>2. PICK i \in Inum : Freed(i)
    BY <1>0, <1>3, IputFreeGood
  <2>3. NoName
    BY <2>2, NoEntriesType, ConstFacts DEF NoName, Freed
  <2> QED
    BY <1>1, <2>1, <2>3
<1>4. CASE Write(p)
  <2>1. op' = op
    BY <1>4 DEF Write
  <2> QED
    BY <1>0, <1>1, <1>4, <2>1, WriteGood, SameNoName
<1>5. CASE Open(p) \/ OpenCreated(p)
  <2>1. SameNames /\ Moved(p, "end")
    BY <1>0, <1>5, OpenFacts
  <2> QED
    BY <1>0, <2>1, MovedNoFill, SameNoName DEF Moved
<1>6. CASE Call(p) \/ Namex(p) \/ NamexDone(p) \/ CreateExists(p) \/ Unlink(p) \/ Chdir(p)
  <2>1. disk' = disk
    BY <1>6, StillDisk DEF Still
  <2>2. Alone(p) /\ op'[p].pc # "fill"
    BY <1>6, CallFacts, NamexFacts, NamexDoneFacts, CreateExistsFacts, UnlinkFacts, ChdirFacts
  <2> QED
    BY <1>0, <2>1, <2>2, MovedNoFill, SameNoName DEF Alone
<1>7. CASE Dup(p) \/ Close(p) \/ Read(p) \/ Fstat(p) \/ Fork(p) \/ Exit(p) \/ ExitClose(p) \/ ExitCwd(p) \/ End(p)
  <2>1. disk' = disk
    BY <1>7, StillDisk DEF Still, End
  <2>2. Alone(p) /\ op'[p].pc # "fill"
    BY <1>7, QuietFacts
  <2> QED
    BY <1>0, <2>1, <2>2, MovedNoFill, SameNoName DEF Alone
<1>8. CASE LinkBad(p) \/ UnlinkCount(p)
  <2>1. Moved(p, "end") /\ disk'.dir = disk.dir
    BY <1>8, LinkBadFacts, UnlinkCountFacts DEF Recounted
  <2> QED
    BY <1>0, <2>1, MovedNoFill, SameNoName DEF Moved
<1>9. CASE LinkCount(p)
  <2>1. op'[p].pc # "fill" /\ (\A q \in Proc \ {p} : op'[q] = op[q]) /\ disk'.dir = disk.dir
    BY <1>9, LinkCountFacts DEF Recounted, Moved
  <2> QED
    BY <1>0, <2>1, MovedNoFill, SameNoName
<1>10. CASE UnlinkEntry(p)
  <2> DEFINE dp == op[p].ip
             name == Head(op[p].path)
  <2>1. /\ op'[p].pc # "fill" /\ (\A q \in Proc \ {p} : op'[q] = op[q])
        /\ disk' = disk \/ Entered(dp, name, None)
    BY <1>10, UnlinkEntryFacts DEF Moved
  <2> HIDE DEF dp, name
  <2>2. Entered(dp, name, None) => NoName
    BY ConstFacts DEF Entered, NoName
  <2> QED
    BY <1>0, <2>1, <2>2, MovedNoFill, SameNoName
<1> QED
  BY <1>2, <1>3, <1>4, <1>5, <1>6, <1>7, <1>8, <1>9, <1>10

(* Every step keeps RankInv. *)
LEMMA NextRank ==
  ASSUME Core, DiskInv, RankInv, [Next]_vars
  PROVE  RankInv'
<1>0. TypeOK /\ Good(disk) /\ Ranked(durable)
  BY DEF Core, DiskInv, Good, RankInv
<1>1. PICK m, r : RanksNow(m, r)
  BY RankDef
<1>2. \E k, s : RanksNow(k, s)'
  <2>1. ASSUME NEW p \in Proc, Create(p) \/ LinkEnter(p) \/ CreateFill(p)
        PROVE  \E k, s : RanksNow(k, s)'
    BY <1>1, <2>1, CreateRank, LinkEnterRank, FillRank
  <2>2. CASE NoFill /\ NoName
    BY <1>1, <2>2, RankKept
  <2>3. CASE Crash
    <3>1. disk' = durable /\ \A p \in Proc : op'[p].pc # "fill"
      BY <2>3 DEF Crash, Idle
    <3>2. PICK k \in Nat : \E s \in [Inum -> 0 .. k] : Downwards(durable, s)
      BY <1>0 DEF Ranked
    <3>3. PICK s \in [Inum -> 0 .. k] : Downwards(durable, s)
      BY <3>2
    <3>4. RanksNow(k, s)'
      BY <3>1, <3>2, <3>3 DEF RanksNow
    <3> QED
      BY <3>4
  <2>4. CASE Reclaim
    <3>1. op' = op
      BY <2>4 DEF Reclaim
    <3>2. disk' = disk \/ \E i \in Inum : Freed(i)
      BY <1>0, <2>4, ReclaimFacts
    <3>3. (\E i \in Inum : Freed(i)) => NoName
      BY NoEntriesType, ConstFacts DEF NoName, Freed
    <3>4. NoName
      BY <1>0, <3>2, <3>3, SameNoName
    <3>5. NoFill
      BY <3>1 DEF NoFill
    <3> QED
      BY <2>2, <3>4, <3>5
  <2>5. CASE Booted \/ UNCHANGED vars
    <3>1. op' = op /\ disk' = disk
      BY <2>5 DEF Booted, vars
    <3>2. NoFill
      BY <3>1 DEF NoFill
    <3> QED
      BY <1>0, <2>2, <3>1, <3>2, SameNoName
  <2>6. CASE \E p \in Proc : Create(p) \/ LinkEnter(p) \/ CreateFill(p)
    BY <2>1, <2>6
  <2>7. CASE \E p \in Proc :
         \/ Call(p) \/ Namex(p) \/ NamexDone(p) \/ Iput(p) \/ IputFree(p) \/ IputDrop(p) \/ IlockPanic(p)
         \/ CreateExists(p) \/ Open(p) \/ OpenCreated(p)
         \/ Dup(p) \/ Close(p) \/ Write(p) \/ Read(p) \/ Fstat(p)
         \/ LinkCount(p) \/ LinkBad(p) \/ Unlink(p) \/ UnlinkEntry(p) \/ UnlinkCount(p) \/ Chdir(p)
         \/ Fork(p) \/ Exit(p) \/ ExitClose(p) \/ ExitCwd(p) \/ End(p)
    BY <2>2, <2>7, OthersRank
  <2> QED
    BY <2>3, <2>4, <2>5, <2>6, <2>7 DEF Next
<1>3. ASSUME NEW D, NEW k, NEW s, k \in Nat, s \in [Inum -> 0 .. k], Downwards(D, s)
      PROVE  Ranked(D)
  BY <1>3 DEF Ranked
<1>4. Ranked(disk)
  BY <1>1, <1>3 DEF RanksNow
<1>5. Ranked(disk')
  <2>1. PICK k, s : RanksNow(k, s)'
    BY <1>2
  <2>2. k \in Nat /\ s \in [Inum -> 0 .. k] /\ Downwards(disk', s)
    BY <2>1 DEF RanksNow
  <2> QED
    BY <1>3, <2>2
<1>6. durable' \in {durable, disk, disk'}
  BY <1>0, DiskStep
<1>7. Ranked(durable')
  BY <1>0, <1>4, <1>5, <1>6
<1>8. Ranked(durable)' <=> Ranked(durable')
  BY DEF Ranked, Downwards
<1> QED
  BY <1>2, <1>7, <1>8 DEF RankInv, RanksNow

(* RankInv holds at first. *)
LEMMA InitRank ==
  ASSUME Init
  PROVE  RankInv
<1>1. PICK dirs \in Nested : \E k \in Nat : Shape(disk, k, dirs)
  BY InitDisk
<1>2. PICK n \in Nat : Shape(disk, n, dirs)
  BY <1>1
<1>3. durable = disk /\ \A p \in Proc : op[p].pc # "fill"
  BY DEF Init, Idle
<1>4. NINODES \in Nat
  BY FsAssumption
<1> DEFINE r == [i \in Inum |-> i]
<1>5. r \in [Inum -> 0 .. NINODES]
  BY <1>4 DEF Inum
<1>6. ASSUME NEW d \in Inum, NEW x \in Names, disk.dir[d][x] # None
      PROVE  disk.dir[d][x] = d + 1
  <2>1. d > n + 1 \/ d <= n + 1
    BY <1>2 DEF Inum
  <2>2. d <= n + 1
    BY <1>2, <1>6, <2>1, NoEntriesType, ConstFacts DEF Shape
  <2> QED
    BY <1>2, <1>6, <2>2 DEF Shape
<1>7. disk \in DiskType
  BY <1>2 DEF Shape
<1>8. Downwards(disk, r)
  <2>1. ASSUME NEW d \in Inum, NEW x \in Names, disk.dir[d][x] # None
        PROVE  r[d] < r[disk.dir[d][x]]
    <3>1. disk.dir[d][x] \in Inum
      BY <1>7, <2>1, ConstFacts DEF DiskType
    <3> QED
      BY <1>6, <2>1, <3>1 DEF Inum
  <2> QED
    BY <2>1 DEF Downwards
<1> HIDE DEF r
<1> QED
  BY <1>3, <1>4, <1>5, <1>8 DEF RankInv, Ranked

(* Who waits for a lock and has one is on his way down from it. *)
LEMMA WaitsBelow ==
  ASSUME Core, NEW m, NEW r, RanksNow(m, r), NEW q \in Proc, LockTarget(q) # None, NEW x \in Inum, lock[x] = q
  PROVE  r[x] < r[LockTarget(q)] /\ LockTarget(q) \in Inum
<1>0. TypeOK /\ op[q] \in OpType /\ OpOK(op[q]) /\ OpAlive(op[q]) /\ Locks(q, x)
  BY DEF Core, TypeOK, PcInv, AliveInv, LockInv
<1>1. puts[q] = <<>> /\ op[q].pc \notin {"opened", "unlink3"}
  BY DEF LockTarget
<1>2. Len(puts[q]) # 2
  BY <1>1
<1>3. op[q].pc \in {"fill", "unlink2"} /\ op[q].ip = x
  BY <1>0, <1>1, <1>2 DEF Locks, Holds
<1>4. LockTarget(q) = op[q].tgt /\ op[q].tgt \in Inum
  BY <1>0, <1>1, <1>3 DEF LockTarget, OpOK, HasTgt, OpType
<1>5. CASE op[q].pc = "fill"
  BY <1>3, <1>4, <1>5 DEF RanksNow
<1>6. CASE op[q].pc = "unlink2"
  <2>1. Head(op[q].path) \in Names /\ disk.dir[x][Head(op[q].path)] = op[q].tgt
    BY <1>0, <1>3, <1>6 DEF OpOK, OpAlive
  <2> QED
    BY <1>4, <2>1, ConstFacts DEF RanksNow, Downwards
<1> QED
  BY <1>3, <1>5, <1>6

(* Ranks leave no circle of processes that wait for each other. *)
LEMMA RankedLocks ==
  ASSUME Core, RankInv
  PROVE  NoLockCycle
<1>1. PICK m, r : RanksNow(m, r)
  BY RankDef
<1>2. m \in Nat /\ r \in [Inum -> 0 .. m]
  BY <1>1 DEF RanksNow
<1> SUFFICES ASSUME NEW S \in (SUBSET Proc) \ {{}}, \A p \in S : LockTarget(p) # None /\ lock[LockTarget(p)] \in S
             PROVE  FALSE
  BY DEF NoLockCycle
<1>3. \A p \in S : LockTarget(p) \in Inum
  <2>1. \A p \in Proc : op[p] \in OpType
    BY DEF Core, TypeOK
  <2> QED
    BY <2>1 DEF LockTarget, OpType
<1> DEFINE R(p) == m - r[LockTarget(p)]
           T == {R(p) : p \in S}
<1>4. \A p \in S : R(p) \in Nat
  BY <1>2, <1>3
<1> HIDE DEF R
<1>a. S # {}
  OBVIOUS
<1>5. T \subseteq Nat /\ T # {}
  BY <1>4, <1>a
<1>7. ASSUME NEW p \in S PROVE \E q \in S : R(q) < R(p)
  <2>1. PICK q \in S : q = lock[LockTarget(p)]
    OBVIOUS
  <2>2. r[LockTarget(p)] < r[LockTarget(q)]
    BY <1>1, <1>3, <2>1, WaitsBelow
  <2>3. R(q) < R(p)
    BY <1>2, <1>3, <2>2 DEF R
  <2> QED
    BY <2>3
<1>8. PICK p \in S : \A q \in S : R(p) <= R(q)
  <2>1. PICK t \in T : \A u \in T : t <= u
    BY <1>5, LeastIn
  <2> QED
    BY <2>1
<1>9. PICK q \in S : R(q) < R(p)
  BY <1>7
<1> QED
  BY <1>4, <1>8, <1>9

(* NoLockCycle: no processes wait for each other's inode locks in a circle,
   whatever create(), link() and unlink() do to the tree meanwhile: the
   order of the tree is the order of the locks.                            *)
THEOREM LockOrder == Spec => []NoLockCycle
<1>1. Init => Core /\ DiskInv /\ RankInv
  BY InitCore, InitDiskInv, InitRank
<1>2. Core /\ DiskInv /\ RankInv /\ [Next]_vars => Core' /\ DiskInv' /\ RankInv'
  BY NextCore, NextDisk, NextRank
<1>3. Core /\ RankInv => NoLockCycle
  BY RankedLocks
<1> QED
  BY <1>1, <1>2, <1>3, PTL DEF Spec

---------------------------------------------------------------------------
(* Link counts.  What a change of names does to the count of names.        *)

(* Links are finite. *)
LEMMA LinkSets ==
  ASSUME NEW D, NEW i
  PROVE  /\ IsFiniteSet(NamesOf(D, i)) /\ Cardinality(NamesOf(D, i)) \in Nat
         /\ IsFiniteSet(SubdirsOf(D, i)) /\ Cardinality(SubdirsOf(D, i)) \in Nat
         /\ Cardinality(NamesOf(D, i)) = 0 <=> NamesOf(D, i) = {}
         /\ Cardinality(SubdirsOf(D, i)) = 0 <=> SubdirsOf(D, i) = {}
         /\ Links(D, i) \in Nat
<1>1. IsFiniteSet(Inum \X Names) /\ IsFiniteSet(Names)
  BY FiniteFacts, FS_Product
<1>2. NamesOf(D, i) \subseteq Inum \X Names /\ SubdirsOf(D, i) \subseteq Names
  BY DEF NamesOf, SubdirsOf
<1>3. IsFiniteSet(NamesOf(D, i)) /\ IsFiniteSet(SubdirsOf(D, i))
  BY <1>1, <1>2, FS_Subset
<1>4. /\ Cardinality(NamesOf(D, i)) \in Nat /\ Cardinality(SubdirsOf(D, i)) \in Nat
      /\ Cardinality(NamesOf(D, i)) = 0 <=> NamesOf(D, i) = {}
      /\ Cardinality(SubdirsOf(D, i)) = 0 <=> SubdirsOf(D, i) = {}
  BY <1>3, FS_CardinalityType, FS_EmptySet
<1>5. Links(D, i) \in Nat
  BY <1>4 DEF Links
<1> QED
  BY <1>3, <1>4, <1>5

(* A name counts. *)
LEMMA NameCounts ==
  ASSUME NEW D, NEW d \in Inum, NEW n \in Names
  PROVE  /\ Links(D, D.dir[d][n]) >= 1
         /\ D.dir[d][n] # None /\ D.ino[D.dir[d][n]].type = "dir" => Links(D, d) >= 1
<1> DEFINE x == D.dir[d][n]
<1>1. <<d, n>> \in NamesOf(D, x)
  BY DEF NamesOf
<1>2. Cardinality(NamesOf(D, x)) \in Nat \ {0} /\ Cardinality(SubdirsOf(D, x)) \in Nat
  BY <1>1, LinkSets
<1>3. Links(D, x) >= 1
  BY <1>2 DEF Links
<1>4. ASSUME x # None, D.ino[x].type = "dir" PROVE Links(D, d) >= 1
  <2>1. n \in SubdirsOf(D, d)
    BY <1>4 DEF SubdirsOf
  <2>2. Cardinality(NamesOf(D, d)) \in Nat /\ Cardinality(SubdirsOf(D, d)) \in Nat \ {0}
    BY <2>1, LinkSets
  <2> QED
    BY <2>2 DEF Links
<1> QED
  BY <1>3, <1>4

(* A new name is one more link of what it leads to, and of its directory
   if that is a directory.                                                *)
LEMMA AddName ==
  ASSUME NEW D \in DiskType, NEW E, NEW d \in Inum, NEW n \in Names, NEW t \in Inum,
         D.dir[d][n] = None, E.dir[d][n] = t,
         \A e \in Inum, l \in Names : e # d \/ l # n => E.dir[e][l] = D.dir[e][l],
         \A x \in Inum : E.ino[x].type = D.ino[x].type
  PROVE  \A i \in Inum : Links(E, i) = Links(D, i) + Is(t, i) + (IF D.ino[t].type = "dir" THEN Is(d, i) ELSE 0)
<1> SUFFICES ASSUME NEW i \in Inum
             PROVE  Links(E, i) = Links(D, i) + Is(t, i) + (IF D.ino[t].type = "dir" THEN Is(d, i) ELSE 0)
  OBVIOUS
<1>0. i # None /\ t # None
  BY ConstFacts
<1>a. \A e \in Inum, l \in Names : D.dir[e][l] # None => D.dir[e][l] \in Inum
  BY ConstFacts DEF DiskType
<1> DEFINE A == NamesOf(D, i)
           B == NamesOf(E, i)
           S == SubdirsOf(D, i)
           T == SubdirsOf(E, i)
<1>1. IsFiniteSet(A) /\ Cardinality(A) \in Nat /\ IsFiniteSet(S) /\ Cardinality(S) \in Nat
  BY LinkSets
<1>2. Cardinality(B) = Cardinality(A) + Is(t, i)
  <2>1. CASE t = i
    <3>1. B = A \cup {<<d, n>>} /\ <<d, n>> \notin A
      BY <1>0, <2>1 DEF NamesOf
    <3> HIDE DEF A, B
    <3> QED
      BY <1>1, <2>1, <3>1, FS_AddElement DEF Is
  <2>2. CASE t # i
    <3>1. B = A
      BY <1>0, <2>2 DEF NamesOf
    <3> HIDE DEF A, B
    <3> QED
      BY <1>1, <2>2, <3>1 DEF Is
  <2> QED
    BY <2>1, <2>2
<1>3. Cardinality(T) = Cardinality(S) + (IF D.ino[t].type = "dir" THEN Is(d, i) ELSE 0)
  <2>1. CASE d = i /\ D.ino[t].type = "dir"
    <3>1. T = S \cup {n} /\ n \notin S
      BY <1>0, <1>a, <2>1 DEF SubdirsOf
    <3> HIDE DEF S, T
    <3> QED
      BY <1>1, <2>1, <3>1, FS_AddElement DEF Is
  <2>2. CASE ~(d = i /\ D.ino[t].type = "dir")
    <3>1. T = S
      BY <1>0, <1>a, <2>2 DEF SubdirsOf
    <3> HIDE DEF S, T
    <3> QED
      BY <1>1, <2>2, <3>1 DEF Is
  <2> QED
    BY <2>1, <2>2
<1>4. /\ Links(D, i) = Cardinality(A) + Cardinality(S) + (IF i = ROOTINO THEN 1 ELSE 0)
      /\ Links(E, i) = Cardinality(B) + Cardinality(T) + (IF i = ROOTINO THEN 1 ELSE 0)
  BY DEF Links
<1> DEFINE a == Cardinality(A)
           b == Cardinality(B)
           s == Cardinality(S)
           u == Cardinality(T)
           k == IF D.ino[t].type = "dir" THEN Is(d, i) ELSE 0
           v == Is(t, i)
           w == IF i = ROOTINO THEN 1 ELSE 0
<1>5. a \in Nat /\ s \in Nat /\ k \in Nat /\ v \in Nat /\ w \in Nat
  BY <1>1 DEF Is
<1>6. b = a + v /\ u = s + k /\ Links(D, i) = a + s + w /\ Links(E, i) = b + u + w
  BY <1>2, <1>3, <1>4
<1> HIDE DEF a, b, s, u, k, v, w
<1>7. Links(E, i) = Links(D, i) + v + k
  BY <1>5, <1>6
<1> QED
  BY <1>7 DEF v, k

(* The names stay, and an inode that has none changes: the counts of names
   stay, and the tree is a tree.                                           *)
Unnamed(D, x) == x # ROOTINO /\ \A d \in Inum, n \in Names : D.dir[d][n] # x

(* Names that stay leave a tree a tree. *)
LEMMA TreeSame ==
  ASSUME NEW D \in DiskType, NEW E, TreeDisk(D),
         \A d \in Inum, n \in Names : E.dir[d][n] = D.dir[d][n],
         \A x \in Inum :
           \/ /\ E.ino[x].type = D.ino[x].type /\ E.dir[x] = D.dir[x]
              /\ D.ino[x].type = "dir" /\ E.ino[x].nlink > 0 => D.ino[x].nlink > 0
           \/ Unnamed(D, x) /\ E.dir[x]["."] \in {None, x} /\ E.ino[x].nlink = 0
  PROVE  TreeDisk(E) /\ \A i \in Inum : Links(E, i) = Links(D, i)
<1>0. \A d \in Inum, n \in Names : D.dir[d][n] # None => D.dir[d][n] \in Inum
  BY ConstFacts DEF DiskType
<1>1. \A d \in Inum, n \in Names : D.dir[d][n] # None =>
        /\ E.ino[D.dir[d][n]].type = D.ino[D.dir[d][n]].type /\ E.dir[D.dir[d][n]] = D.dir[D.dir[d][n]]
  BY <1>0 DEF Unnamed
<1>2. \A i \in Inum : NamesOf(E, i) = NamesOf(D, i) /\ SubdirsOf(E, i) = SubdirsOf(D, i)
  <2> TAKE i \in Inum
  <2>1. \A e \in Inum \X Names : E.dir[e[1]][e[2]] = D.dir[e[1]][e[2]]
    OBVIOUS
  <2>2. NamesOf(E, i) = NamesOf(D, i)
    BY <2>1 DEF NamesOf
  <2>3. \A n \in Names : /\ E.dir[i][n] = D.dir[i][n]
                          /\ D.dir[i][n] # None => E.ino[D.dir[i][n]].type = D.ino[D.dir[i][n]].type
    BY <1>1
  <2>4. SubdirsOf(E, i) = SubdirsOf(D, i)
    BY <2>3 DEF SubdirsOf
  <2> QED
    BY <2>2, <2>4
<1>3. \A i \in Inum : Links(E, i) = Links(D, i)
  BY <1>2 DEF Links
<1>4. \A i \in Inum : Named(E, i) <=> Named(D, i)
  BY DEF Named
<1>5. E.dir[ROOTINO][".."] = ROOTINO /\ E.ino[ROOTINO].type = "dir"
  BY ConstFacts DEF TreeDisk, Unnamed
<1>6. \A d \in Inum, n \in Names : E.dir[d][n] # ROOTINO
  BY DEF TreeDisk
<1>7. \A i \in Inum :
        /\ E.dir[i]["."] \in {None, i}
        /\ E.ino[i].type = "dir" /\ E.ino[i].nlink > 0 => E.dir[i]["."] = i /\ E.dir[i][".."] # None
  BY DEF TreeDisk
<1>8. \A i \in Inum : \A n \in Names : E.dir[i][n] # None => Named(E, i)
  BY <1>4 DEF TreeDisk
<1>9. \A i \in Inum : \A n \in SubdirsOf(E, i) : E.dir[E.dir[i][n]][".."] = i
  BY <1>1, <1>2 DEF TreeDisk, SubdirsOf
<1> QED
  BY <1>3, <1>5, <1>6, <1>7, <1>8, <1>9 DEF TreeDisk

(* A new name n in d, of t: something that is not a directory, or a new directory. *)
Adds(D, E, d, n, t) ==
  /\ D.dir[d][n] = None /\ E.dir[d][n] = t /\ t # ROOTINO /\ Named(D, d)
  /\ \A e \in Inum, l \in Names : e # d \/ l # n => E.dir[e][l] = D.dir[e][l]
  /\ \A x \in Inum : E.ino[x].type = D.ino[x].type
  /\ \A x \in Inum \ {t} : /\ E.dir[x]["."] = D.dir[x]["."] /\ E.dir[x][".."] = D.dir[x][".."]
                           /\ D.ino[x].type = "dir" /\ E.ino[x].nlink > 0 => D.ino[x].nlink > 0
  /\ E.dir[t]["."] \in {None, t}
  /\ D.ino[t].type = "dir" => E.dir[t]["."] = t /\ E.dir[t][".."] = d /\ Unnamed(D, t)

(* The tree stays one when it gets that name. *)
LEMMA TreeAdd ==
  ASSUME NEW D \in DiskType, NEW E, TreeDisk(D), NEW d \in Inum, NEW n \in Names, NEW t \in Inum,
         Adds(D, E, d, n, t)
  PROVE  TreeDisk(E)
<1> USE DEF Adds
<1>0. /\ \A e \in Inum, l \in Names : D.dir[e][l] # None => D.dir[e][l] \in Inum
      /\ d # None /\ t # None /\ ROOTINO \in Inum
  BY ConstFacts DEF DiskType
<1>1. ASSUME NEW i \in Inum, Named(D, i) PROVE Named(E, i)
  <2>1. CASE i = ROOTINO
    BY <2>1 DEF Named
  <2>2. CASE i # ROOTINO
    <3>1. PICK e \in Inum, l \in Names : D.dir[e][l] = i
      BY <1>1, <2>2 DEF Named
    <3>2. E.dir[e][l] = i
      BY <3>1, ConstFacts
    <3> QED
      BY <3>2 DEF Named
  <2> QED
    BY <2>1, <2>2
<1>2. E.dir[ROOTINO][".."] = ROOTINO /\ E.ino[ROOTINO].type = "dir"
  BY <1>0 DEF TreeDisk
<1>3. \A e \in Inum, l \in Names : E.dir[e][l] # ROOTINO
  BY DEF TreeDisk
<1>4. \A i \in Inum :
        /\ E.dir[i]["."] \in {None, i}
        /\ E.ino[i].type = "dir" /\ E.ino[i].nlink > 0 => E.dir[i]["."] = i /\ E.dir[i][".."] # None
  BY <1>0 DEF TreeDisk
<1>5. \A i \in Inum : \A l \in Names : E.dir[i][l] # None => Named(E, i)
  BY <1>1 DEF TreeDisk
<1>6. ASSUME NEW i \in Inum, NEW l \in SubdirsOf(E, i) PROVE E.dir[E.dir[i][l]][".."] = i
  <2>1. l \in Names /\ E.dir[i][l] # None /\ E.ino[E.dir[i][l]].type = "dir"
    BY <1>6 DEF SubdirsOf
  <2>2. CASE i = d /\ l = n
    BY <2>1, <2>2
  <2>3. CASE ~(i = d /\ l = n)
    <3>1. E.dir[i][l] = D.dir[i][l] /\ D.dir[i][l] \in Inum
      BY <1>0, <2>1, <2>3
    <3>2. D.ino[D.dir[i][l]].type = "dir"
      BY <2>1, <3>1
    <3>3. l \in SubdirsOf(D, i)
      BY <2>1, <3>1, <3>2 DEF SubdirsOf
    <3>4. D.dir[D.dir[i][l]][".."] = i
      BY <3>3 DEF TreeDisk
    <3>5. D.dir[i][l] # t
      BY <2>1, <3>2 DEF Unnamed
    <3> QED
      BY <3>1, <3>4, <3>5
  <2> QED
    BY <2>2, <2>3
<1> QED
  BY <1>2, <1>3, <1>4, <1>5, <1>6 DEF TreeDisk

(* A name less, of something without names in it. *)
LEMMA TreeRemoveOne ==
  ASSUME NEW D \in DiskType, NEW E, TreeDisk(D), NEW d \in Inum, NEW n \in Names, NEW t \in Inum,
         D.dir[d][n] = t, E.dir[d][n] = None, \A l \in Names : D.dir[t][l] = None,
         \A e \in Inum, l \in Names : e # d \/ l # n => E.dir[e][l] = D.dir[e][l],
         \A x \in Inum : /\ E.ino[x].type = D.ino[x].type
                         /\ E.dir[x]["."] = D.dir[x]["."] /\ E.dir[x][".."] = D.dir[x][".."]
                         /\ D.ino[x].type = "dir" /\ E.ino[x].nlink > 0 => D.ino[x].nlink > 0
  PROVE  TreeDisk(E)
<1>0. /\ \A e \in Inum, l \in Names : D.dir[e][l] # None => D.dir[e][l] \in Inum
      /\ d # None /\ t # None /\ ROOTINO \in Inum /\ ROOTINO # None
  BY ConstFacts DEF DiskType
<1>1. \A i \in Inum : Named(D, i) => Named(E, i) \/ i = t
  BY <1>0 DEF Named
<1>2. E.dir[ROOTINO][".."] = ROOTINO /\ E.ino[ROOTINO].type = "dir"
  BY <1>0 DEF TreeDisk
<1>3. \A e \in Inum, l \in Names : E.dir[e][l] # ROOTINO
  BY <1>0 DEF TreeDisk
<1>4. \A i \in Inum :
        /\ E.dir[i]["."] \in {None, i}
        /\ E.ino[i].type = "dir" /\ E.ino[i].nlink > 0 => E.dir[i]["."] = i /\ E.dir[i][".."] # None
  BY <1>0 DEF TreeDisk
<1>5. \A i \in Inum : \A l \in Names : E.dir[i][l] # None => Named(E, i)
  BY <1>1 DEF TreeDisk
<1>6. ASSUME NEW i \in Inum, NEW l \in SubdirsOf(E, i) PROVE E.dir[E.dir[i][l]][".."] = i
  <2>1. l \in Names /\ E.dir[i][l] # None /\ E.ino[E.dir[i][l]].type = "dir"
    BY <1>6 DEF SubdirsOf
  <2>2. ~(i = d /\ l = n)
    BY <2>1
  <2>3. E.dir[i][l] = D.dir[i][l] /\ D.dir[i][l] \in Inum
    BY <1>0, <2>1, <2>2
  <2>4. l \in SubdirsOf(D, i)
    BY <2>1, <2>3 DEF SubdirsOf
  <2>5. D.dir[D.dir[i][l]][".."] = i
    BY <2>4 DEF TreeDisk
  <2> QED
    BY <2>3, <2>5
<1> QED
  BY <1>2, <1>3, <1>4, <1>5, <1>6 DEF TreeDisk

(* E is D without the name n of t in d; t has no names in it. *)
Removes(D, E, d, n, t) ==
  /\ D.dir[d][n] = t /\ E.dir[d][n] = None /\ \A l \in Names : D.dir[t][l] = None
  /\ \A e \in Inum, l \in Names : e # d \/ l # n => E.dir[e][l] = D.dir[e][l]
  /\ \A x \in Inum : /\ E.ino[x].type = D.ino[x].type
                     /\ E.dir[x]["."] = D.dir[x]["."] /\ E.dir[x][".."] = D.dir[x][".."]
                     /\ D.ino[x].type = "dir" /\ E.ino[x].nlink > 0 => D.ino[x].nlink > 0

(* The same, with the hypotheses under one name. *)
LEMMA TreeRemove ==
  ASSUME NEW D \in DiskType, NEW E, TreeDisk(D), NEW d \in Inum, NEW n \in Names, NEW t \in Inum,
         Removes(D, E, d, n, t)
  PROVE  TreeDisk(E)
<1>1. /\ D.dir[d][n] = t /\ E.dir[d][n] = None /\ \A l \in Names : D.dir[t][l] = None
      /\ \A e \in Inum, l \in Names : e # d \/ l # n => E.dir[e][l] = D.dir[e][l]
  BY Zenon DEF Removes
<1>2. \A x \in Inum : /\ E.ino[x].type = D.ino[x].type
                      /\ E.dir[x]["."] = D.dir[x]["."] /\ E.dir[x][".."] = D.dir[x][".."]
                      /\ D.ino[x].type = "dir" /\ E.ino[x].nlink > 0 => D.ino[x].nlink > 0
  BY DEF Removes
<1> QED
  BY <1>1, <1>2, TreeRemoveOne

---------------------------------------------------------------------------
(* What the counts tell.                                                   *)

(* nlink is the number of links and of calls between an entry and its
   count.                                                                 *)
LEMMA Counts ==
  ASSUME TypeOK, LinkInv, ~stray, NEW i \in Inum
  PROVE  /\ disk.ino[i].nlink = Links(disk, i) + Occ(Pending, i)
         /\ Links(disk, i) \in Nat /\ Occ(Pending, i) \in Nat /\ disk.ino[i].nlink \in Nat
         /\ Occ(Pending, i) = 0 <=> \A q \in Proc : Pends(op[q]) # i
<1>1. disk.ino[i].nlink = Links(disk, i) + Occ(Pending, i)
  BY DEF LinkInv
<1>2. DOMAIN Pending = Proc /\ \A q \in Proc : Pending[q] = Pends(op[q])
  BY DEF Pending
<1>3. Occ(Pending, i) \in Nat /\ (Occ(Pending, i) = 0 <=> \A q \in Proc : Pending[q] # i)
  BY <1>2, FiniteFacts, OccSome
<1>4. Links(disk, i) \in Nat
  BY LinkSets
<1> QED
  BY <1>1, <1>2, <1>3, <1>4

(* An inode that has links is alive. *)
LEMMA LinkedLive ==
  ASSUME Core, DiskInv, NEW x \in Inum, disk.ino[x].nlink # 0
  PROVE  x \in Live
<1>1. disk.ino[x].type # "free"
  BY ZeroType DEF DiskInv, CleanDisk
<1>2. ASSUME NEW q \in Proc, freeing[q] = "trunc", puts[q][1].i = x PROVE FALSE
  <2>1. mem[x].valid /\ mem[x].c.nlink = 0
    BY <1>2 DEF Core, AliveInv
  <2> QED
    BY <2>1 DEF Core, CopyInv
<1> QED
  BY <1>1, <1>2 DEF Live, Dying

(* What a name leads to has links. *)
LEMMA NamedLinks ==
  ASSUME TypeOK, LinkInv, ~stray, NEW d \in Inum, NEW n \in Names, disk.dir[d][n] # None
  PROVE  /\ disk.dir[d][n] \in Inum /\ disk.ino[disk.dir[d][n]].nlink >= 1
         /\ disk.ino[disk.dir[d][n]].type = "dir" => disk.ino[d].nlink >= 1
<1> DEFINE x == disk.dir[d][n]
<1>1. x \in Inum
  BY ConstFacts DEF TypeOK, DiskType
<1>2. Links(disk, x) >= 1 /\ (disk.ino[x].type = "dir" => Links(disk, d) >= 1)
  BY NameCounts
<1>3. /\ disk.ino[x].nlink = Links(disk, x) + Occ(Pending, x) /\ Links(disk, x) \in Nat /\ Occ(Pending, x) \in Nat
      /\ disk.ino[d].nlink = Links(disk, d) + Occ(Pending, d) /\ Links(disk, d) \in Nat /\ Occ(Pending, d) \in Nat
  BY <1>1, Counts
<1> HIDE DEF x
<1>4. disk.ino[x].nlink >= 1 /\ (disk.ino[x].type = "dir" => disk.ino[d].nlink >= 1)
  BY <1>2, <1>3
<1> QED
  BY <1>1, <1>4 DEF x

(* The root has a link and is a directory. *)
LEMMA RootLinks ==
  ASSUME TypeOK, LinkInv, ~stray
  PROVE  disk.ino[ROOTINO].nlink >= 1 /\ disk.ino[ROOTINO].type = "dir"
<1>1. ROOTINO \in Inum
  BY ConstFacts
<1>2. /\ disk.ino[ROOTINO].nlink = Links(disk, ROOTINO) + Occ(Pending, ROOTINO)
      /\ Links(disk, ROOTINO) \in Nat /\ Occ(Pending, ROOTINO) \in Nat
  BY <1>1, Counts
<1>3. Cardinality(NamesOf(disk, ROOTINO)) \in Nat /\ Cardinality(SubdirsOf(disk, ROOTINO)) \in Nat
  BY LinkSets
<1>4. Links(disk, ROOTINO) >= 1
  BY <1>3 DEF Links
<1>5. disk.ino[ROOTINO].type = "dir"
  BY DEF LinkInv, TreeDisk
<1> QED
  BY <1>2, <1>4, <1>5

(* What has no links has no name, no name in it, and is about to get none. *)
LEMMA Unlinked ==
  ASSUME TypeOK, LinkInv, ~stray, NEW x \in Inum, disk.ino[x].nlink = 0
  PROVE  Unnamed(disk, x) /\ (\A q \in Proc : Pends(op[q]) # x) /\ \A n \in Names : disk.dir[x][n] = None
<1>1. x # ROOTINO
  BY RootLinks
<1>2. \A d \in Inum, n \in Names : disk.dir[d][n] # x
  <2> SUFFICES ASSUME NEW d \in Inum, NEW n \in Names, disk.dir[d][n] = x PROVE FALSE
    OBVIOUS
  <2>1. disk.dir[d][n] # None
    BY ConstFacts
  <2> QED
    BY <2>1, NamedLinks
<1>3. \A q \in Proc : Pends(op[q]) # x
  <2>1. 0 = Links(disk, x) + Occ(Pending, x) /\ Links(disk, x) \in Nat /\ Occ(Pending, x) \in Nat
    BY Counts
  <2>2. Occ(Pending, x) = 0
    BY <2>1
  <2> QED
    BY <2>2, Counts
<1>4. \A n \in Names : disk.dir[x][n] = None
  BY <1>1, <1>2 DEF LinkInv, TreeDisk, Named
<1> QED
  BY <1>1, <1>2, <1>3, <1>4 DEF Unnamed

(* A directory with links has a name, unless it is just being removed. *)
LEMMA NamedDir ==
  ASSUME Core, LinkInv, ~stray, NEW i \in Inum, disk.ino[i].type = "dir", disk.ino[i].nlink # 0,
         \A q \in Proc : ~(op[q].pc = "unlink3" /\ op[q].tgt = i)
  PROVE  Named(disk, i)
<1>0. TypeOK /\ TreeDisk(disk) /\ AliveInv /\ i # None
  BY ConstFacts DEF Core, LinkInv
<1> SUFFICES ASSUME ~Named(disk, i) PROVE FALSE
  OBVIOUS
<1>1. NamesOf(disk, i) = {} /\ i # ROOTINO
  BY DEF Named, NamesOf
<1>2. SubdirsOf(disk, i) = {}
  BY <1>0 DEF TreeDisk, SubdirsOf
<1>a. Cardinality(NamesOf(disk, i)) = 0 /\ Cardinality(SubdirsOf(disk, i)) = 0
  BY <1>1, <1>2, LinkSets
<1>3. Links(disk, i) = 0
  BY <1>1, <1>a DEF Links
<1>4. ASSUME NEW q \in Proc, Pends(op[q]) = i PROVE FALSE
  <2>1. op[q].tgt = i /\ op[q].pc \in {"walk", "link2", "linkbad", "unlink3"}
    BY <1>0, <1>4 DEF Pends
  <2>2. OpAlive(op[q])
    BY <1>0 DEF AliveInv
  <2> QED
    BY <1>0, <2>1, <2>2 DEF OpAlive
<1>5. disk.ino[i].nlink = Links(disk, i) + Occ(Pending, i) /\ Occ(Pending, i) = 0
  BY <1>0, <1>4, Counts
<1> QED
  BY <1>3, <1>5

(* Whoever removes a directory has it locked. *)
LEMMA Removing ==
  ASSUME Core, NEW i \in Inum, NEW q \in Proc, op[q].pc = "unlink3", op[q].tgt = i
  PROVE  lock[i] = q
<1>1. Locks(q, i)
  BY DEF Locks, Holds
<1> QED
  BY <1>1 DEF Core, LockInv

(* Every entry of a directory leads to an inode that is alive, but for the
   ".." of one that has been removed.                                      *)
LEMMA LookupLive ==
  ASSUME Core, DiskInv, LinkInv, ~stray, NEW i \in Inum, i \in Live, disk.ino[i].type = "dir", lock[i] = NoProc,
         NEW n \in DirNames, disk.dir[i][n] # None
  PROVE  disk.dir[i][n] \in Live \/ (n = ".." /\ disk.ino[i].nlink = 0)
<1>0. TypeOK /\ TreeDisk(disk)
  BY DEF Core, LinkInv
<1>1. CASE n \in Names
  <2>1. disk.dir[i][n] \in Inum /\ disk.ino[disk.dir[i][n]].nlink >= 1
    BY <1>0, <1>1, NamedLinks
  <2>2. disk.ino[disk.dir[i][n]].nlink # 0
    BY <2>1
  <2> QED
    BY <2>1, <2>2, LinkedLive
<1>2. CASE n = "."
  BY <1>0, <1>2 DEF TreeDisk
<1>3. CASE n = ".." /\ disk.ino[i].nlink # 0
  <2>1. \A q \in Proc : ~(op[q].pc = "unlink3" /\ op[q].tgt = i)
    BY Removing, FsAssumption
  <2>2. Named(disk, i)
    BY <1>3, <2>1, NamedDir
  <2>3. CASE i = ROOTINO
    BY <1>0, <1>3, <2>3 DEF TreeDisk
  <2>4. CASE i # ROOTINO
    <3>1. PICK d \in Inum, l \in Names : disk.dir[d][l] = i
      BY <2>2, <2>4 DEF Named
    <3>2. disk.dir[d][l] # None
      BY <3>1, ConstFacts
    <3>3. l \in SubdirsOf(disk, d)
      BY <3>1, <3>2 DEF SubdirsOf
    <3>4. disk.dir[i][".."] = d
      BY <1>0, <3>1, <3>3 DEF TreeDisk
    <3>5. disk.ino[d].nlink >= 1
      BY <1>0, <3>1, <3>2, NamedLinks
    <3>6. disk.ino[d].nlink # 0
      BY <3>5
    <3> QED
      BY <1>3, <3>4, <3>6, LinkedLive
  <2> QED
    BY <2>3, <2>4
<1> QED
  BY <1>1, <1>2, <1>3 DEF DirNames

---------------------------------------------------------------------------
(* What a step has to do for the counts to stay right.                     *)

(* The counts change as the names and what p has under way do. *)
Balanced(p) ==
  \A i \in Inum :
    disk'.ino[i].nlink + Links(disk, i) + Is(Pends(op[p]), i)
      = disk.ino[i].nlink + Links(disk', i) + Is(Pends(op'[p]), i)

(* What is committed is the same, or what is on the disk when no call is under way. *)
Commits == durable' = durable \/ (durable' = disk' /\ \A q \in Proc : Pends(op'[q]) = None)

(* A step that balances the counts and keeps the tree keeps LinkInv. *)
LEMMA LinkStep ==
  ASSUME TypeOK, TypeOK', LinkInv, ~stray, NEW p \in Proc, \A q \in Proc \ {p} : op'[q] = op[q],
         Balanced(p), TreeDisk(disk'), \A q \in Proc : OpLinked(op[q])',
         \A q \in Proc : cwd'[q] # None => cwd'[q] \in Live', Commits
  PROVE  LinkInv'
<1>1. ASSUME NEW i \in Inum
      PROVE  disk'.ino[i].nlink = Links(disk', i) + Occ(Pending', i)
  <2>1. /\ DOMAIN Pending = Proc /\ DOMAIN Pending' = Proc
        /\ \A q \in Proc : Pending[q] = Pends(op[q]) /\ Pending'[q] = Pends(op'[q])
    BY DEF Pending, Pends
  <2>2. /\ Occ(Pending', i) = Occ(Pending, i) - Is(Pending[p], i) + Is(Pending'[p], i)
        /\ Occ(Pending, i) \in Nat /\ Occ(Pending', i) \in Nat
    BY <2>1, FiniteFacts, OccStep
  <2>3. disk.ino[i].nlink = Links(disk, i) + Occ(Pending, i)
    BY DEF LinkInv
  <2>4. Links(disk, i) \in Nat /\ Links(disk', i) \in Nat
    BY LinkSets
  <2>5. disk'.ino[i].nlink \in Int /\ disk.ino[i].nlink \in Int
    BY DEF TypeOK, DiskType, Dinode
  <2>6. disk'.ino[i].nlink + Links(disk, i) + Is(Pends(op[p]), i)
          = disk.ino[i].nlink + Links(disk', i) + Is(Pends(op'[p]), i)
    BY DEF Balanced
  <2> DEFINE a == Is(Pends(op[p]), i)
             b == Is(Pends(op'[p]), i)
             k == Links(disk, i)
             m == Links(disk', i)
             x == disk.ino[i].nlink
             y == disk'.ino[i].nlink
             u == Occ(Pending, i)
             v == Occ(Pending', i)
  <2>7. a \in Nat /\ b \in Nat /\ v = u - a + b /\ y + k + a = x + m + b /\ x = k + u
    BY <2>1, <2>2, <2>3, <2>6 DEF Is
  <2>8. k \in Nat /\ m \in Nat /\ x \in Int /\ y \in Int /\ u \in Nat /\ v \in Nat
    BY <2>2, <2>4, <2>5
  <2> HIDE DEF a, b, k, m, x, y, u, v
  <2>9. y = m + v
    BY <2>7, <2>8
  <2> QED
    BY <2>9 DEF y, m, v
<1>2. \A i \in Inum : Occ(Pending, i)' = Occ(Pending', i) /\ Links(disk, i)' = Links(disk', i)
  OBVIOUS
<1>3. CASE durable' = durable
  <2>1. \A i \in Inum : durable'.ino[i].nlink = Links(durable', i)
    BY <1>3 DEF LinkInv
  <2>2. TreeDisk(durable')
    BY <1>3 DEF LinkInv
  <2> QED
    BY <1>1, <2>1, <2>2 DEF LinkInv
<1>4. CASE durable' = disk' /\ \A q \in Proc : Pends(op'[q]) = None
  <2>1. ASSUME NEW i \in Inum PROVE durable'.ino[i].nlink = Links(durable', i)
    <3>1. DOMAIN Pending' = Proc /\ \A q \in Proc : Pending'[q] # i
      BY <1>4, ConstFacts DEF Pending, Pends
    <3>2. Occ(Pending', i) = 0
      BY <3>1, FiniteFacts, OccSome
    <3>3. Links(disk', i) \in Nat
      BY LinkSets
    <3> QED
      BY <1>1, <1>4, <3>2, <3>3
  <2>2. TreeDisk(durable')
    BY <1>4
  <2> QED
    BY <1>1, <2>1, <2>2 DEF LinkInv
<1> QED
  BY <1>3, <1>4 DEF Commits

(* A call that stays where it is, and what it depends on too. *)
LEMMA OpKept ==
  ASSUME NEW q \in Proc, OpLinked(op[q]), op'[q] = op[q],
         op[q].pc = "fill" => /\ disk'.ino[op[q].tgt].nlink = disk.ino[op[q].tgt].nlink
                              /\ disk'.dir[op[q].tgt] = disk.dir[op[q].tgt],
         op[q].pc = "unlink3" => \A n \in Names : disk.dir[op[q].tgt][n] = None => disk'.dir[op[q].tgt][n] = None,
         HasIp(op[q]) /\ op[q].ip \in Live => op[q].ip \in Live',
         op[q].tgt \in Live => op[q].tgt \in Live'
  PROVE  OpLinked(op[q])'
  BY DEF OpLinked, HasIp

(* A step of p that leaves the calls of others, and what they depend on, alone. *)
Spares(p) ==
  \A q \in Proc \ {p} :
    /\ op[q].pc = "fill" => /\ disk'.ino[op[q].tgt].nlink = disk.ino[op[q].tgt].nlink
                            /\ disk'.dir[op[q].tgt] = disk.dir[op[q].tgt]
    /\ op[q].pc = "unlink3" => \A n \in Names : disk.dir[op[q].tgt][n] = None => disk'.dir[op[q].tgt][n] = None

(* What is alive stays so, when nothing is freed. *)
LEMMA LiveKept ==
  ASSUME Core, NEW p \in Proc, puts[p] = <<>>, freeing' = freeing, \E s : puts' = [puts EXCEPT ![p] = s],
         \A x \in Inum : disk'.ino[x].type = "free" => disk.ino[x].type = "free"
  PROVE  Live \subseteq Live'
<1>1. freeing[p] = "no" /\ \A q \in Proc \ {p} : puts'[q] = puts[q]
  BY DEF Core, PcInv, ProcOK, TypeOK
<1> QED
  BY <1>1 DEF Live, Dying

(* LinkStep for a step of one process that spares the others. *)
LEMMA MoveLinks ==
  ASSUME Core, TypeOK', LinkInv, ~stray, NEW p \in Proc, Alone(p), Spares(p), Balanced(p), TreeDisk(disk'),
         \A x \in Inum : disk'.ino[x].type = "free" => disk.ino[x].type = "free",
         OpLinked(op[p])', \A q \in Proc : cwd'[q] \in {cwd[q], cwd[p], None} \cup Live, Commits
  PROVE  LinkInv'
<1>0. TypeOK
  BY DEF Core
<1>1. \A q \in Proc \ {p} : op'[q] = op[q]
  BY DEF Alone
<1>2. Live \subseteq Live'
  BY LiveKept DEF Alone
<1>3. ASSUME NEW q \in Proc PROVE OpLinked(op[q])'
  <2>1. CASE q = p
    BY <2>1
  <2>2. CASE q # p
    <3>1. OpLinked(op[q]) /\ op'[q] = op[q]
      BY <1>1, <2>2 DEF LinkInv
    <3> QED
      BY <1>2, <2>2, <3>1, OpKept DEF Spares
  <2> QED
    BY <2>1, <2>2
<1>4. \A q \in Proc : cwd[q] # None => cwd[q] \in Live
  BY DEF LinkInv
<1>5. \A q \in Proc : cwd'[q] # None => cwd'[q] \in Live'
  BY <1>2, <1>4
<1> QED
  BY <1>0, <1>1, <1>3, <1>5, LinkStep

(* A call that has an inode in tgt. *)
LEMMA TgtIn ==
  ASSUME Core, NEW q \in Proc, HasTgt(op[q])
  PROVE  op[q].tgt \in Inum
<1>1. op[q] \in OpType /\ OpOK(op[q])
  BY DEF Core, TypeOK, PcInv
<1> QED
  BY <1>1 DEF OpType, OpOK

(* A step that changes neither names nor counts. *)
LEMMA SameLinks ==
  ASSUME Core, LinkInv, ~stray, SameNames
  PROVE  TreeDisk(disk') /\ (\A i \in Inum : Links(disk', i) = Links(disk, i)) /\ \A p \in Proc : Spares(p)
<1>0. disk \in DiskType /\ TreeDisk(disk)
  BY DEF Core, TypeOK, LinkInv
<1>1. /\ \A d \in Inum, n \in Names : disk'.dir[d][n] = disk.dir[d][n]
      /\ \A x \in Inum : /\ disk'.ino[x].type = disk.ino[x].type /\ disk'.dir[x] = disk.dir[x]
                         /\ disk.ino[x].type = "dir" /\ disk'.ino[x].nlink > 0 => disk.ino[x].nlink > 0
  BY DEF SameNames
<1>2. TreeDisk(disk') /\ \A i \in Inum : Links(disk', i) = Links(disk, i)
  BY <1>0, <1>1, TreeSame
<1>3. \A p \in Proc : Spares(p)
  <2>1. \A q \in Proc : op[q].pc \in {"fill", "unlink3"} => op[q].tgt \in Inum
    BY TgtIn DEF HasTgt
  <2> QED
    BY <2>1 DEF Spares, SameNames
<1> QED
  BY <1>2, <1>3

(* A step of one process that changes neither names nor counts keeps
   LinkInv.                                                               *)
LEMMA QuietLinks ==
  ASSUME Core, TypeOK', LinkInv, ~stray, NEW p \in Proc, Alone(p), SameNames, Pends(op'[p]) = Pends(op[p]),
         OpLinked(op[p])', \A q \in Proc : cwd'[q] \in {cwd[q], cwd[p], None} \cup Live, Commits
  PROVE  LinkInv'
<1>0. TypeOK
  BY DEF Core
<1>1. TreeDisk(disk') /\ (\A i \in Inum : Links(disk', i) = Links(disk, i)) /\ Spares(p)
  BY SameLinks
<1>2. Balanced(p)
  BY <1>1 DEF Balanced, SameNames
<1>3. \A x \in Inum : disk'.ino[x].type = "free" => disk.ino[x].type = "free"
  BY DEF SameNames
<1> QED
  BY <1>1, <1>2, <1>3, MoveLinks

---------------------------------------------------------------------------
(* The steps that leave the disk alone.                                    *)

(* Where a call goes that does not change the disk. *)
Leads(p) ==
  /\ op'[p].pc \notin {"fill", "unlink3"}
  /\ op'[p].pc \in {"walk", "open", "link1", "chdir"} => op'[p].up \/ op'[p].ip \in Live
  /\ op'[p].pc = "exists" => op'[p].up \/ op'[p].tgt \in Live
  /\ op'[p].pc = "unlink2" => op'[p].tgt \in Live

(* A step of one process that leaves the disk alone keeps LinkInv. *)
LEMMA StillLinks ==
  ASSUME Core, TypeOK', LinkInv, ~stray, NEW p \in Proc, Alone(p), disk' = disk, durable' = durable,
         Pends(op'[p]) = Pends(op[p]), Leads(p), \A q \in Proc : cwd'[q] \in {cwd[q], cwd[p], None} \cup Live
  PROVE  LinkInv'
<1>1. SameNames /\ Commits
  BY DEF SameNames, Commits
<1>2. Live \subseteq Live'
  BY LiveKept DEF Alone
<1>3. OpLinked(op[p])'
  BY <1>2 DEF Leads, OpLinked
<1> QED
  BY <1>1, <1>3, QuietLinks

(* The root is alive. *)
LEMMA RootLive ==
  ASSUME Core, DiskInv, LinkInv, ~stray
  PROVE  ROOTINO \in Live
<1>1. disk.ino[ROOTINO].nlink >= 1
  BY RootLinks DEF Core
<1>2. disk.ino[ROOTINO].nlink # 0
  BY <1>1
<1> QED
  BY <1>2, ConstFacts, LinkedLive

(* A current directory is alive. *)
LEMMA CwdLive ==
  ASSUME LinkInv, ~stray, NEW p \in Proc, cwd[p] \in Inum
  PROVE  cwd[p] \in Live
  BY ConstFacts DEF LinkInv

(* The entry of a call keeps LinkInv. *)
LEMMA CallLinks ==
  ASSUME Core, TypeOK', DiskInv, LinkInv, ~stray, NEW p \in Proc, Call(p)
  PROVE  LinkInv'
<1>1. disk' = disk /\ durable' = durable
  BY StillDisk DEF Still
<1>2. /\ Alone(p) /\ cwd' = cwd /\ op[p].pc = "idle" /\ op'[p].pc = "walk" /\ op'[p].tgt = None
      /\ op'[p].ip \in {ROOTINO, cwd[p]} /\ cwd[p] \in Inum
  BY CallFacts
<1>3. op'[p].ip \in Live
  BY <1>2, RootLive, CwdLive
<1>4. Leads(p) /\ Pends(op'[p]) = Pends(op[p])
  BY <1>2, <1>3 DEF Leads, Pends
<1>5. \A q \in Proc : cwd'[q] \in {cwd[q], cwd[p], None} \cup Live
  BY <1>2
<1> QED
  BY <1>1, <1>2, <1>4, <1>5, StillLinks

(* A step of namex() keeps LinkInv. *)
LEMMA NamexLinks ==
  ASSUME Core, TypeOK', DiskInv, LinkInv, ~stray, NEW p \in Proc, Namex(p)
  PROVE  LinkInv'
<1>1. disk' = disk /\ durable' = durable
  BY StillDisk DEF Still
<1>2. /\ Alone(p) /\ op[p].pc = "walk" /\ op[p].ip \in Inum /\ ilock(op[p].ip) /\ cwd' = cwd
      /\ Pends(op'[p]) = Pends(op[p]) /\ op'[p].pc \notin {"fill", "unlink3", "exists", "unlink2"}
      /\ op'[p].pc \in {"walk", "open", "link1", "chdir"} => \E name : LooksUp(p, op[p].ip, name, op'[p].ip)
  BY NamexFacts
<1>3. op[p].ip \in Live /\ lock[op[p].ip] = NoProc
  BY <1>2, LockedLive
<1>4. ASSUME NEW name, LooksUp(p, op[p].ip, name, op'[p].ip)
      PROVE  op'[p].up \/ op'[p].ip \in Live
  <2>1. /\ name \in DirNames /\ disk.ino[op[p].ip].type = "dir" /\ op'[p].ip = disk.dir[op[p].ip][name]
        /\ op'[p].ip # None
        /\ op'[p].up <=> name = ".." /\ disk.ino[op[p].ip].nlink = 0
    BY <1>4, ConstFacts DEF LooksUp
  <2>2. disk.dir[op[p].ip][name] \in Live \/ (name = ".." /\ disk.ino[op[p].ip].nlink = 0)
    BY <1>2, <1>3, <2>1, LookupLive
  <2> QED
    BY <2>1, <2>2
<1>5. Leads(p)
  BY <1>2, <1>4 DEF Leads
<1>6. \A q \in Proc : cwd'[q] \in {cwd[q], cwd[p], None} \cup Live
  BY <1>2
<1> QED
  BY <1>1, <1>2, <1>5, <1>6, StillLinks

(* The end of namex() keeps LinkInv. *)
LEMMA NamexDoneLinks ==
  ASSUME Core, TypeOK', DiskInv, LinkInv, ~stray, NEW p \in Proc, NamexDone(p)
  PROVE  LinkInv'
<1>1. disk' = disk /\ durable' = durable
  BY StillDisk DEF Still
<1>2. /\ Alone(p) /\ op[p].pc = "walk" /\ op[p].ip \in Inum /\ cwd' = cwd
      /\ Pends(op'[p]) = Pends(op[p]) /\ op'[p].pc \notin {"fill", "unlink3", "exists", "unlink2"}
      /\ op'[p].pc \in {"walk", "open", "link1", "chdir"} => op'[p].ip = op[p].ip /\ op'[p].up = op[p].up
  BY NamexDoneFacts
<1>3. op[p].up \/ op[p].ip \in Live
  BY <1>2 DEF LinkInv, OpLinked
<1>5. Leads(p)
  BY <1>2, <1>3 DEF Leads
<1>6. \A q \in Proc : cwd'[q] \in {cwd[q], cwd[p], None} \cup Live
  BY <1>2
<1> QED
  BY <1>1, <1>2, <1>5, <1>6, StillLinks

(* create() of a name that is there keeps LinkInv. *)
LEMMA ExistsLinks ==
  ASSUME Core, TypeOK', DiskInv, LinkInv, ~stray, NEW p \in Proc, CreateExists(p)
  PROVE  LinkInv'
<1>1. disk' = disk /\ durable' = durable
  BY StillDisk DEF Still
<1>2. Alone(p) /\ cwd' = cwd /\ op[p].pc = "exists" /\ op'[p].pc \in {"opened", "end"}
  BY CreateExistsFacts
<1>4. Leads(p) /\ Pends(op'[p]) = Pends(op[p])
  BY <1>2 DEF Leads, Pends
<1>5. \A q \in Proc : cwd'[q] \in {cwd[q], cwd[p], None} \cup Live
  BY <1>2
<1> QED
  BY <1>1, <1>2, <1>4, <1>5, StillLinks

(* sys_chdir() keeps LinkInv. *)
LEMMA ChdirLinks ==
  ASSUME Core, TypeOK', DiskInv, LinkInv, ~stray, NEW p \in Proc, Chdir(p)
  PROVE  LinkInv'
<1>1. disk' = disk /\ durable' = durable
  BY StillDisk DEF Still
<1>2. /\ Alone(p) /\ op[p].pc = "chdir" /\ op'[p].pc = "end" /\ op[p].ip \in Live
      /\ cwd'[p] \in {cwd[p], op[p].ip} /\ \A q \in Proc \ {p} : cwd'[q] = cwd[q]
  BY ChdirFacts
<1>4. Leads(p) /\ Pends(op'[p]) = Pends(op[p])
  BY <1>2 DEF Leads, Pends
<1>5. \A q \in Proc : cwd'[q] \in {cwd[q], cwd[p], None} \cup Live
  BY <1>2
<1> QED
  BY <1>1, <1>2, <1>4, <1>5, StillLinks

(* sys_unlink() up to the lock of the inode keeps LinkInv. *)
LEMMA UnlinkLinks ==
  ASSUME Core, TypeOK', DiskInv, LinkInv, ~stray, NEW p \in Proc, Unlink(p)
  PROVE  LinkInv'
<1>0. TypeOK
  BY DEF Core
<1>1. disk' = disk /\ durable' = durable
  BY StillDisk DEF Still
<1>2. /\ Alone(p) /\ cwd' = cwd /\ op[p].pc = "unlink" /\ op'[p].pc \in {"unlink2", "end"}
      /\ op'[p].pc = "unlink2" => \E n \in Names : op'[p].tgt = disk.dir[op[p].ip][n] /\ op'[p].tgt \in Inum /\ op[p].ip \in Inum
  BY UnlinkFacts
<1>3. ASSUME op'[p].pc = "unlink2" PROVE op'[p].tgt \in Live
  <2>1. PICK n \in Names : op'[p].tgt = disk.dir[op[p].ip][n] /\ op'[p].tgt \in Inum /\ op[p].ip \in Inum
    BY <1>2, <1>3
  <2>2. disk.dir[op[p].ip][n] # None
    BY <2>1, ConstFacts
  <2>3. disk.ino[op'[p].tgt].nlink >= 1
    BY <1>0, <2>1, <2>2, NamedLinks
  <2>4. disk.ino[op'[p].tgt].nlink # 0
    BY <2>3
  <2> QED
    BY <2>1, <2>4, LinkedLive
<1>4. Leads(p) /\ Pends(op'[p]) = Pends(op[p])
  BY <1>2, <1>3 DEF Leads, Pends
<1>5. \A q \in Proc : cwd'[q] \in {cwd[q], cwd[p], None} \cup Live
  BY <1>2
<1> QED
  BY <1>1, <1>2, <1>4, <1>5, StillLinks

(* Outside of a transaction there is nothing under way. *)
LEMMA OutsidePends ==
  ASSUME Core, NEW q \in Proc, q \notin out \/ op[q].pc \in {"idle", "exit", "end"}
  PROVE  Pends(op[q]) = None
<1>1. ProcOK(q)
  BY DEF Core, PcInv
<1> QED
  BY <1>1 DEF ProcOK, Pends

(* The calls on descriptors, kfork(), kexit() and end_op() keep LinkInv. *)
LEMMA QuietCallLinks ==
  ASSUME Core, TypeOK', DiskInv, LinkInv, ~stray, NEW p \in Proc,
         Dup(p) \/ Close(p) \/ Write(p) \/ Read(p) \/ Fstat(p) \/ Fork(p) \/ Exit(p) \/ ExitClose(p) \/ ExitCwd(p) \/ End(p)
  PROVE  LinkInv'
<1>0. Good(disk)
  BY DEF DiskInv, Good
<1>1. /\ Alone(p) /\ op[p].pc \in {"idle", "exit", "end"} /\ op'[p].pc \in {"idle", "exit", "end"}
      /\ \A q \in Proc : cwd'[q] = cwd[q] \/ cwd'[q] = cwd[p] \/ cwd'[q] = None
  BY QuietFacts
<1>2. Leads(p) /\ Pends(op'[p]) = Pends(op[p]) /\ Pends(op'[p]) = None
  BY <1>1 DEF Leads, Pends
<1>3. \A q \in Proc : cwd'[q] \in {cwd[q], cwd[p], None} \cup Live
  BY <1>1
<1>4. CASE Dup(p) \/ Close(p) \/ Read(p) \/ Fstat(p) \/ Fork(p) \/ Exit(p) \/ ExitClose(p) \/ ExitCwd(p)
  <2>1. disk' = disk /\ durable' = durable
    BY <1>4, StillDisk DEF Still
  <2> QED
    BY <1>1, <1>2, <1>3, <2>1, StillLinks
<1>5. CASE Write(p) \/ End(p)
  <2>1. OpLinked(op[p])'
    BY <1>1 DEF OpLinked
  <2>2. SameNames
    <3>1. End(p) => disk' = disk
      BY DEF End
    <3> QED
      BY <1>0, <1>5, <3>1, WriteGood DEF SameNames
  <2>3. durable' = durable \/ (durable' = disk' /\ \A q \in Proc \ {p} : q \notin out)
    BY <1>5 DEF Write, End
  <2>4. ASSUME \A q \in Proc \ {p} : q \notin out
        PROVE  \A q \in Proc : Pends(op'[q]) = None
    <3>1. \A q \in Proc \ {p} : op'[q] = op[q] /\ Pends(op[q]) = None
      BY <1>1, <2>4, OutsidePends DEF Alone
    <3> QED
      BY <1>2, <3>1
  <2>5. Commits
    BY <2>3, <2>4 DEF Commits
  <2> QED
    BY <1>1, <1>2, <1>3, <2>1, <2>2, <2>5, QuietLinks
<1> QED
  BY <1>4, <1>5

(* sys_open() keeps LinkInv. *)
LEMMA OpenLinks ==
  ASSUME Core, TypeOK', DiskInv, LinkInv, ~stray, NEW p \in Proc, Open(p) \/ OpenCreated(p)
  PROVE  LinkInv'
<1>0. Good(disk)
  BY DEF DiskInv, Good
<1>1. /\ SameNames /\ Moved(p, "end") /\ puts[p] = <<>> /\ (\E s : puts' = [puts EXCEPT ![p] = s])
      /\ op[p].pc \in {"open", "opened"}
  BY <1>0, OpenFacts
<1>2. freeing' = freeing /\ durable' = durable /\ cwd' = cwd
  BY DEF Open, OpenCreated
<1>3. op'[p].pc = "end" /\ Alone(p) /\ Pends(op'[p]) = Pends(op[p]) /\ Commits
  BY <1>1, <1>2 DEF Moved, Alone, Pends, Commits
<1>4. OpLinked(op[p])'
  BY <1>3 DEF OpLinked
<1>5. \A q \in Proc : cwd'[q] \in {cwd[q], cwd[p], None} \cup Live
  BY <1>2
<1> QED
  BY <1>1, <1>3, <1>4, <1>5, QuietLinks

---------------------------------------------------------------------------
(* The steps that change link counts only.                                 *)

(* A step that changes one count, and what its call has under way with
   it, keeps LinkInv.                                                     *)
LEMMA RecountLinks ==
  ASSUME Core, TypeOK', LinkInv, ~stray, NEW p \in Proc, Alone(p), NEW i, NEW n, Recounted(i, n),
         disk.ino[i].type = "dir" /\ n > 0 => disk.ino[i].nlink > 0,
         n + Is(Pends(op[p]), i) = disk.ino[i].nlink + Is(Pends(op'[p]), i),
         \A x \in Inum \ {i} : Is(Pends(op[p]), x) = Is(Pends(op'[p]), x),
         \A q \in Proc \ {p} : op[q].pc = "fill" => op[q].tgt # i,
         OpLinked(op[p])', cwd' = cwd, durable' = durable
  PROVE  LinkInv'
<1>0. disk \in DiskType /\ TreeDisk(disk)
  BY DEF Core, TypeOK, LinkInv
<1>1. /\ i \in Inum /\ n \in Int /\ disk'.dir = disk.dir
      /\ disk'.ino[i].type = disk.ino[i].type /\ disk'.ino[i].nlink = n
      /\ \A x \in Inum \ {i} : disk'.ino[x] = disk.ino[x]
  BY DEF Recounted
<1>2. \A x \in Inum : /\ disk'.ino[x].type = disk.ino[x].type /\ disk'.dir[x] = disk.dir[x]
                      /\ disk.ino[x].type = "dir" /\ disk'.ino[x].nlink > 0 => disk.ino[x].nlink > 0
  BY <1>1
<1>3. TreeDisk(disk') /\ \A x \in Inum : Links(disk', x) = Links(disk, x)
  BY <1>0, <1>1, <1>2, TreeSame
<1>4. Balanced(p)
  <2> SUFFICES ASSUME NEW x \in Inum
               PROVE  disk'.ino[x].nlink + Links(disk, x) + Is(Pends(op[p]), x)
                        = disk.ino[x].nlink + Links(disk', x) + Is(Pends(op'[p]), x)
    BY DEF Balanced
  <2>1. Links(disk, x) \in Nat /\ Links(disk', x) = Links(disk, x)
    BY <1>3, LinkSets
  <2>2. disk.ino[x].nlink \in Int
    BY <1>0 DEF DiskType, Dinode
  <2>3. Is(Pends(op[p]), x) \in Nat /\ Is(Pends(op'[p]), x) \in Nat
    BY DEF Is
  <2> DEFINE k == Links(disk, x)
             m == Links(disk', x)
             a == Is(Pends(op[p]), x)
             b == Is(Pends(op'[p]), x)
             u == disk.ino[x].nlink
             v == disk'.ino[x].nlink
  <2>4. k \in Nat /\ m = k /\ a \in Nat /\ b \in Nat /\ u \in Int /\ v \in Int /\ v + a = u + b
    <3>1. CASE x = i
      BY <1>1, <2>1, <2>2, <2>3, <3>1
    <3>2. CASE x # i
      BY <1>1, <2>1, <2>2, <2>3, <3>2
    <3> QED
      BY <3>1, <3>2
  <2> HIDE DEF k, m, a, b, u, v
  <2>5. v + k + a = u + m + b
    BY <2>4
  <2> QED
    BY <2>5 DEF k, m, a, b, u, v
<1>5. Spares(p)
  <2>1. \A q \in Proc : op[q].pc = "fill" => op[q].tgt \in Inum
    BY TgtIn DEF HasTgt
  <2> QED
    BY <1>1, <2>1 DEF Spares
<1>6. \A q \in Proc : cwd'[q] \in {cwd[q], cwd[p], None} \cup Live
  OBVIOUS
<1>7. Commits
  BY DEF Commits
<1>8. \A x \in Inum : disk'.ino[x].type = "free" => disk.ino[x].type = "free"
  BY <1>2
<1> QED
  BY <1>3, <1>4, <1>5, <1>6, <1>7, <1>8, MoveLinks

(* The call that counts down keeps LinkInv. *)
LEMMA CountedDown ==
  ASSUME Core, TypeOK', DiskInv, LinkInv, ~stray, NEW p \in Proc, Moved(p, "end"), puts[p] = <<>>, freeing' = freeing,
         \E s : puts' = [puts EXCEPT ![p] = s], Recounted(op[p].tgt, disk.ino[op[p].tgt].nlink - 1),
         op[p].pc \in {"linkbad", "unlink3"}, cwd' = cwd, durable' = durable
  PROVE  LinkInv'
<1> DEFINE i == op[p].tgt
           n == disk.ino[i].nlink - 1
<1>0. TypeOK
  BY DEF Core
<1>1. op'[p].pc = "end" /\ Alone(p) /\ i \in Inum
  BY DEF Moved, Alone, Recounted
<1>2. Pends(op[p]) = i /\ Pends(op'[p]) = None /\ i # None
  BY <1>1, ConstFacts DEF Pends
<1>3. OpLinked(op[p])'
  BY <1>1 DEF OpLinked
<1>4. disk.ino[i].nlink \in Int
  BY <1>0, <1>1 DEF TypeOK, DiskType, Dinode
<1>5. Is(Pends(op[p]), i) = 1 /\ Is(Pends(op'[p]), i) = 0
  BY <1>2 DEF Is
<1>6. n + Is(Pends(op[p]), i) = disk.ino[i].nlink + Is(Pends(op'[p]), i) /\ (n > 0 => disk.ino[i].nlink > 0)
  BY <1>4, <1>5
<1>7. \A x \in Inum \ {i} : Is(Pends(op[p]), x) = Is(Pends(op'[p]), x)
  BY <1>2, ConstFacts DEF Is
<1>8. ASSUME NEW q \in Proc \ {p}, op[q].pc = "fill", op[q].tgt = i PROVE FALSE
  <2>1. disk.ino[i].nlink = 0
    BY <1>8 DEF LinkInv, OpLinked
  <2> QED
    BY <1>0, <1>1, <1>2, <2>1, Unlinked
<1>9. Recounted(i, n)
  OBVIOUS
<1> HIDE DEF i, n
<1> QED
  BY <1>1, <1>3, <1>6, <1>7, <1>8, <1>9, RecountLinks

(* The "bad:" of sys_link() and the end of sys_unlink() keep LinkInv. *)
LEMMA LinkBadLinks ==
  ASSUME Core, TypeOK', DiskInv, LinkInv, ~stray, NEW p \in Proc, LinkBad(p) \/ UnlinkCount(p)
  PROVE  LinkInv'
<1>1. freeing' = freeing /\ cwd' = cwd /\ durable' = durable
  BY DEF LinkBad, UnlinkCount, procvars
<1>2. /\ Recounted(op[p].tgt, disk.ino[op[p].tgt].nlink - 1) /\ op[p].pc \in {"linkbad", "unlink3"} /\ Moved(p, "end")
      /\ puts[p] = <<>> /\ \E s : puts' = [puts EXCEPT ![p] = s]
  BY LinkBadFacts, UnlinkCountFacts
<1> QED
  BY <1>1, <1>2, CountedDown

(* The start of sys_link() keeps LinkInv. *)
LEMMA LinkCountLinks ==
  ASSUME Core, TypeOK', DiskInv, LinkInv, ~stray, ~stray', NEW p \in Proc, LinkCount(p)
  PROVE  LinkInv'
<1> DEFINE i == op[p].ip
           n == disk.ino[i].nlink + 1
<1>0. TypeOK
  BY DEF Core
<1>1. freeing' = freeing /\ cwd' = cwd /\ durable' = durable
  BY DEF LinkCount, procvars
<1>2. /\ op[p].pc = "link1" /\ op[p].tgt = None /\ i \in Inum /\ puts[p] = <<>>
      /\ \/ /\ disk' = disk /\ stray' = stray /\ Moved(p, "end") /\ \E s : puts' = [puts EXCEPT ![p] = s]
         \/ /\ Recounted(op[p].ip, disk.ino[op[p].ip].nlink + 1) /\ disk.ino[op[p].ip].type # "dir"
            /\ op'[p].pc = "walk" /\ op'[p].then = "link2" /\ op'[p].tgt = op[p].ip /\ ~op'[p].up
            /\ op'[p].ip \in {ROOTINO, cwd[p]} /\ cwd[p] \in Inum
            /\ \A q \in Proc \ {p} : op'[q] = op[q]
            /\ puts' = puts /\ stray' = (stray \/ HalfMade(op[p].ip))
  BY LinkCountFacts
<1>3. Pends(op[p]) = None
  BY <1>2 DEF Pends
<1>4. CASE disk' = disk /\ Moved(p, "end") /\ \E s : puts' = [puts EXCEPT ![p] = s]
  <2>1. Alone(p) /\ op'[p].pc = "end"
    BY <1>1, <1>2, <1>4 DEF Moved, Alone
  <2>2. Leads(p) /\ Pends(op'[p]) = Pends(op[p])
    BY <1>3, <2>1 DEF Leads, Pends
  <2>3. \A q \in Proc : cwd'[q] \in {cwd[q], cwd[p], None} \cup Live
    BY <1>1
  <2> QED
    BY <1>1, <1>4, <2>1, <2>2, <2>3, StillLinks
<1>5. CASE /\ Recounted(i, n) /\ disk.ino[i].type # "dir"
           /\ op'[p].pc = "walk" /\ op'[p].then = "link2" /\ op'[p].tgt = i /\ ~op'[p].up
           /\ op'[p].ip \in {ROOTINO, cwd[p]} /\ cwd[p] \in Inum
           /\ \A q \in Proc \ {p} : op'[q] = op[q]
           /\ puts' = puts /\ stray' = (stray \/ HalfMade(i))
  <2>1. puts' = [puts EXCEPT ![p] = <<>>]
    BY <1>0, <1>2, <1>5 DEF TypeOK
  <2>2. Alone(p)
    BY <1>1, <1>2, <1>5, <2>1 DEF Alone
  <2>3. \A q \in Proc : op[q].pc = "fill" => op[q].tgt # i
    BY <1>5 DEF HalfMade
  <2>4. Pends(op'[p]) = i /\ i # None
    BY <1>2, <1>5, ConstFacts DEF Pends
  <2>5. disk.ino[i].nlink \in Int
    BY <1>0, <1>2 DEF TypeOK, DiskType, Dinode
  <2>6. Is(Pends(op[p]), i) = 0 /\ Is(Pends(op'[p]), i) = 1
    BY <1>3, <2>4 DEF Is
  <2>7. n + Is(Pends(op[p]), i) = disk.ino[i].nlink + Is(Pends(op'[p]), i)
    BY <2>5, <2>6
  <2>8. \A x \in Inum \ {i} : Is(Pends(op[p]), x) = Is(Pends(op'[p]), x)
    BY <1>3, <2>4, ConstFacts DEF Is
  <2>9. \A x \in Inum : disk'.ino[x].type = "free" => disk.ino[x].type = "free"
    BY <1>5 DEF Recounted
  <2>10. Live \subseteq Live'
    BY <2>2, <2>9, LiveKept DEF Alone
  <2>11. op'[p].ip \in Live
    BY <1>5, RootLive, CwdLive
  <2>12. OpLinked(op[p])'
    BY <1>5, <2>10, <2>11 DEF OpLinked
  <2>13. Recounted(i, n) /\ ~(disk.ino[i].type = "dir")
    BY <1>5
  <2> HIDE DEF i, n
  <2> QED
    BY <1>1, <2>2, <2>3, <2>7, <2>8, <2>12, <2>13, RecountLinks
<1> QED
  BY <1>2, <1>4, <1>5

---------------------------------------------------------------------------
(* The steps that allocate and free inodes.                                *)

(* ialloc() keeps LinkInv. *)
LEMMA AllocLinks ==
  ASSUME Core, TypeOK', DiskInv, LinkInv, ~stray, NEW p \in Proc, Alone(p), op[p].pc = "create", NEW new \in Inum, NEW z,
         Allocated(p, new, z), cwd' = cwd, durable' = durable
  PROVE  LinkInv'
<1>0. TypeOK /\ disk \in DiskType /\ TreeDisk(disk) /\ disk.ino \in [Inum -> Dinode]
  BY DEF Core, TypeOK, LinkInv, DiskType
<1>1. /\ disk.ino[new].type = "free" /\ disk'.ino = [disk.ino EXCEPT ![new] = z] /\ disk'.dir = disk.dir
      /\ z.nlink = 0 /\ z.type # "free" /\ op'[p].pc = "fill" /\ op'[p].tgt = new
  BY DEF Allocated
<1>2. disk'.ino[new] = z /\ \A x \in Inum \ {new} : disk'.ino[x] = disk.ino[x]
  BY <1>0, <1>1
<1>3. disk.ino[new].nlink = 0 /\ disk.dir[new] = NoEntries
  BY <1>1, ZeroType DEF DiskInv, CleanDisk
<1>4. Unnamed(disk, new)
  BY <1>0, <1>3, Unlinked
<1>5. disk'.dir[new]["."] \in {None, new}
  BY <1>0, <1>1 DEF TreeDisk
<1>6. TreeDisk(disk') /\ \A x \in Inum : Links(disk', x) = Links(disk, x)
  <2>1. \A d \in Inum, n \in Names : disk'.dir[d][n] = disk.dir[d][n]
    BY <1>1
  <2>2. \A x \in Inum :
          \/ /\ disk'.ino[x].type = disk.ino[x].type /\ disk'.dir[x] = disk.dir[x]
             /\ disk.ino[x].type = "dir" /\ disk'.ino[x].nlink > 0 => disk.ino[x].nlink > 0
          \/ Unnamed(disk, x) /\ disk'.dir[x]["."] \in {None, x} /\ disk'.ino[x].nlink = 0
    BY <1>1, <1>2, <1>4, <1>5
  <2> QED
    BY <1>0, <2>1, <2>2, TreeSame
<1>7. \A x \in Inum : disk'.ino[x].nlink = disk.ino[x].nlink /\ (disk'.ino[x].type = "free" => disk.ino[x].type = "free")
  BY <1>1, <1>2, <1>3
<1>8. Pends(op[p]) = None /\ Pends(op'[p]) = None
  BY <1>1 DEF Pends
<1>9. Balanced(p)
  BY <1>6, <1>7, <1>8 DEF Balanced
<1>10. Spares(p)
  <2>1. \A q \in Proc : op[q].pc = "fill" => op[q].tgt \in Inum
    BY TgtIn DEF HasTgt
  <2> QED
    BY <1>1, <1>7, <2>1 DEF Spares
<1>11. OpLinked(op[p])'
  BY <1>1, <1>2, <1>3 DEF OpLinked
<1>12. (\A q \in Proc : cwd'[q] \in {cwd[q], cwd[p], None} \cup Live) /\ Commits
  BY DEF Commits
<1> QED
  BY <1>6, <1>7, <1>9, <1>10, <1>11, <1>12, MoveLinks

(* create() up to ialloc() keeps LinkInv. *)
LEMMA CreateLinks ==
  ASSUME Core, TypeOK', DiskInv, LinkInv, ~stray, NEW p \in Proc, Create(p)
  PROVE  LinkInv'
<1> DEFINE dp == op[p].ip
           name == Head(op[p].path)
<1>1. freeing' = freeing /\ cwd' = cwd /\ durable' = durable /\ ilock(dp)
  BY DEF Create, procvars
<1>2. /\ op[p].pc = "create" /\ dp \in Inum /\ op[p].tgt = None /\ name \in DirNames
      /\ puts[p] = <<>> /\ (\E s : puts' = [puts EXCEPT ![p] = s])
      /\ \A q \in Proc \ {p} : op'[q] = op[q]
      /\ \/ /\ disk' = disk /\ op'[p].pc = "exists" /\ op'[p].tgt \in Inum
            /\ op'[p].tgt = disk.dir[dp][name]
            /\ op'[p].up <=> name = ".." /\ disk.ino[dp].nlink = 0
         \/ disk' = disk /\ Moved(p, "end")
         \/ \E new \in Inum : \E z : Allocated(p, new, z)
  BY CreateFacts
<1>3. Alone(p)
  BY <1>1, <1>2 DEF Alone
<1>4. \A q \in Proc : cwd'[q] \in {cwd[q], cwd[p], None} \cup Live
  BY <1>1
<1>5. CASE /\ disk' = disk /\ op'[p].pc = "exists" /\ op'[p].tgt \in Inum
           /\ op'[p].tgt = disk.dir[dp][name]
           /\ op'[p].up <=> name = ".." /\ disk.ino[dp].nlink = 0
  <2>1. dp \in Live /\ lock[dp] = NoProc /\ disk.ino[dp].type = "dir" /\ disk.dir[dp][name] # None
    <3>1. OpAlive(op[p])
      BY DEF Core, AliveInv
    <3> QED
      BY <1>1, <1>2, <1>5, <3>1, LockedLive, ConstFacts DEF OpAlive
  <2>2. disk.dir[dp][name] \in Live \/ (name = ".." /\ disk.ino[dp].nlink = 0)
    BY <1>2, <2>1, LookupLive
  <2>3. op'[p].up \/ op'[p].tgt \in Live
    BY <1>5, <2>2
  <2>4. Leads(p) /\ Pends(op'[p]) = Pends(op[p])
    BY <1>2, <1>5, <2>3 DEF Leads, Pends
  <2> QED
    BY <1>1, <1>3, <1>4, <1>5, <2>4, StillLinks
<1>6. CASE disk' = disk /\ Moved(p, "end")
  <2>1. op'[p].pc = "end"
    BY <1>6 DEF Moved
  <2>2. Leads(p) /\ Pends(op'[p]) = Pends(op[p])
    BY <1>2, <2>1 DEF Leads, Pends
  <2> QED
    BY <1>1, <1>3, <1>4, <1>6, <2>2, StillLinks
<1>7. CASE \E new \in Inum : \E z : Allocated(p, new, z)
  BY <1>1, <1>2, <1>3, <1>7, AllocLinks
<1> QED
  BY <1>2, <1>5, <1>6, <1>7

(* iput() does not touch what anybody refers to. *)
RefsKept ==
  \A q \in Proc : /\ HasIp(op[q]) /\ op[q].ip \in Live => op[q].ip \in Live'
                  /\ op[q].tgt \in Live => op[q].tgt \in Live'
                  /\ cwd[q] \in Live => cwd[q] \in Live'

(* What a call or a process refers to stays alive through an iput(). *)
LEMMA PutRefs ==
  ASSUME Core, NEW p \in Proc, Iput(p) \/ IputDrop(p)
  PROVE  RefsKept
<1>0. TypeOK /\ disk' = disk
  BY DEF Core, Iput, IputDrop
<1>1. CASE freeing'[p] # "trunc" /\ \A q \in Proc \ {p} : freeing'[q] = freeing[q] /\ puts'[q] = puts[q]
  <2>1. Live \subseteq Live'
    BY <1>0, <1>1 DEF Live, Dying
  <2> QED
    BY <2>1 DEF RefsKept
<1>2. CASE IputDrop(p)
  <2>1. freeing' = [freeing EXCEPT ![p] = "no"] /\ puts' = [puts EXCEPT ![p] = Tail(@)]
    BY <1>2 DEF IputDrop
  <2>2. freeing'[p] # "trunc" /\ \A q \in Proc \ {p} : freeing'[q] = freeing[q] /\ puts'[q] = puts[q]
    BY <1>0, <2>1 DEF TypeOK
  <2> QED
    BY <1>1, <2>2
<1>3. CASE Iput(p)
  <2>1. puts[p] # <<>> /\ freeing[p] = "no"
    BY <1>3 DEF Iput
  <2>2. PICK i \in Inum : i = puts[p][1].i /\ Head(puts[p]) = puts[p][1]
    BY <2>1, PutterFacts
  <2>3. CASE freeing' = freeing /\ puts' = [puts EXCEPT ![p] = Tail(@)]
    <3>1. freeing'[p] # "trunc" /\ \A q \in Proc \ {p} : freeing'[q] = freeing[q] /\ puts'[q] = puts[q]
      BY <1>0, <2>1, <2>3 DEF TypeOK
    <3> QED
      BY <1>1, <3>1
  <2>4. CASE mem[i].ref = 1 /\ freeing' = [freeing EXCEPT ![p] = "trunc"] /\ puts' = puts
    <3>1. \A q \in Proc : cwd[q] # i /\ IpOf[q] # i /\ TgtOf[q] # i
      BY <2>1, <2>2, <2>4, LastPut
    <3>2. \A q \in Proc : cwd[q] # i /\ (HasIp(op[q]) => op[q].ip # i) /\ op[q].tgt # i
      BY <3>1 DEF IpOf, TgtOf, IpIn
    <3>3. \A q \in Proc \ {p} : freeing'[q] = freeing[q] /\ puts'[q] = puts[q]
      BY <1>0, <2>4 DEF TypeOK
    <3>4. puts'[p][1].i = i
      BY <2>2, <2>4
    <3>5. \A x \in Live : x # i => x \in Live'
      BY <1>0, <3>3, <3>4 DEF Live, Dying
    <3> QED
      BY <3>2, <3>5 DEF RefsKept
  <2>5. \/ freeing' = freeing /\ puts' = [puts EXCEPT ![p] = Tail(@)]
        \/ mem[i].ref = 1 /\ freeing' = [freeing EXCEPT ![p] = "trunc"] /\ puts' = puts
    BY <1>3, <2>2 DEF Iput
  <2> QED
    BY <2>3, <2>4, <2>5
<1> QED
  BY <1>2, <1>3

(* Steps that leave the calls where they are. *)
LEMMA PutLinks ==
  ASSUME Core, TypeOK', LinkInv, ~stray, NEW p \in Proc, op' = op, cwd' = cwd, durable' = durable, RefsKept,
         TreeDisk(disk'), \A i \in Inum : Links(disk', i) = Links(disk, i) /\ disk'.ino[i].nlink = disk.ino[i].nlink,
         \A q \in Proc : op[q].pc = "fill" => disk'.dir[op[q].tgt] = disk.dir[op[q].tgt],
         \A i \in Inum, n \in Names : disk.dir[i][n] = None => disk'.dir[i][n] = None
  PROVE  LinkInv'
<1>0. TypeOK
  BY DEF Core
<1>1. Balanced(p) /\ Commits
  BY DEF Balanced, Commits
<1>2. ASSUME NEW q \in Proc PROVE OpLinked(op[q])'
  <2>1. op[q].pc \in {"fill", "unlink3"} => op[q].tgt \in Inum
    BY TgtIn DEF HasTgt
  <2>2. OpLinked(op[q])
    BY DEF LinkInv
  <2>3. /\ op[q].pc = "fill" => /\ disk'.ino[op[q].tgt].nlink = disk.ino[op[q].tgt].nlink
                                /\ disk'.dir[op[q].tgt] = disk.dir[op[q].tgt]
        /\ op[q].pc = "unlink3" => \A n \in Names : disk.dir[op[q].tgt][n] = None => disk'.dir[op[q].tgt][n] = None
    BY <2>1
  <2>4. /\ HasIp(op[q]) /\ op[q].ip \in Live => op[q].ip \in Live'
        /\ op[q].tgt \in Live => op[q].tgt \in Live'
    BY DEF RefsKept
  <2> QED
    BY <2>2, <2>3, <2>4, OpKept
<1>3. \A q \in Proc : cwd'[q] # None => cwd'[q] \in Live'
  BY DEF LinkInv, RefsKept
<1> QED
  BY <1>0, <1>1, <1>2, <1>3, LinkStep

(* iput() that frees nothing yet keeps LinkInv. *)
LEMMA IputLinks ==
  ASSUME Core, TypeOK', LinkInv, ~stray, NEW p \in Proc, Iput(p) \/ IputDrop(p)
  PROVE  LinkInv'
<1>1. op' = op /\ cwd' = cwd /\ disk' = disk /\ durable' = durable
  BY DEF Iput, IputDrop, procvars
<1>2. RefsKept
  BY PutRefs
<1>3. TreeDisk(disk')
  BY <1>1 DEF LinkInv
<1> QED
  BY <1>1, <1>2, <1>3, PutLinks

(* An inode without links is freed. *)
LEMMA FreedTree ==
  ASSUME TypeOK, LinkInv, ~stray, NEW i \in Inum, disk.ino[i].nlink = 0, Freed(i)
  PROVE  /\ TreeDisk(disk') /\ \A x \in Inum : Links(disk', x) = Links(disk, x) /\ disk'.ino[x].nlink = disk.ino[x].nlink
         /\ \A x \in Inum, n \in Names : disk'.dir[x][n] = disk.dir[x][n]
<1>0. disk \in DiskType /\ TreeDisk(disk)
  BY DEF TypeOK, LinkInv
<1>1. Unnamed(disk, i) /\ \A n \in Names : disk.dir[i][n] = None
  BY Unlinked
<1>2. /\ disk'.ino[i].nlink = 0 /\ disk'.dir[i] = NoEntries
      /\ \A x \in Inum \ {i} : disk'.ino[x] = disk.ino[x] /\ disk'.dir[x] = disk.dir[x]
  BY ZeroType DEF Freed
<1>3. \A x \in Inum, n \in Names : disk'.dir[x][n] = disk.dir[x][n]
  BY <1>1, <1>2, NoEntriesType, ConstFacts
<1>4. disk'.dir[i]["."] \in {None, i}
  BY <1>2, NoEntriesType, ConstFacts
<1>5. \A x \in Inum :
        \/ /\ disk'.ino[x].type = disk.ino[x].type /\ disk'.dir[x] = disk.dir[x]
           /\ disk.ino[x].type = "dir" /\ disk'.ino[x].nlink > 0 => disk.ino[x].nlink > 0
        \/ Unnamed(disk, x) /\ disk'.dir[x]["."] \in {None, x} /\ disk'.ino[x].nlink = 0
  BY <1>1, <1>2, <1>4
<1>6. TreeDisk(disk') /\ \A x \in Inum : Links(disk', x) = Links(disk, x)
  BY <1>0, <1>3, <1>5, TreeSame
<1>7. \A x \in Inum : disk'.ino[x].nlink = disk.ino[x].nlink
  BY <1>2
<1> QED
  BY <1>3, <1>6, <1>7

(* iput() that frees its inode keeps LinkInv. *)
LEMMA IputFreeLinks ==
  ASSUME Core, TypeOK', DiskInv, LinkInv, ~stray, NEW p \in Proc, IputFree(p)
  PROVE  LinkInv'
<1>0. TypeOK /\ Good(disk) /\ AliveInv /\ CopyInv
  BY DEF Core, DiskInv, Good
<1>1. /\ op' = op /\ cwd' = cwd /\ durable' = durable /\ puts' = puts /\ freeing[p] = "trunc"
      /\ freeing' = [freeing EXCEPT ![p] = "drop"]
  BY DEF IputFree, procvars
<1>2. PICK i \in Inum : i = puts[p][1].i /\ Freed(i)
  BY <1>0, IputFreeGood
<1>3. disk.ino[i].nlink = 0
  BY <1>0, <1>1, <1>2 DEF AliveInv, CopyInv
<1>4. /\ TreeDisk(disk') /\ \A x \in Inum : Links(disk', x) = Links(disk, x) /\ disk'.ino[x].nlink = disk.ino[x].nlink
      /\ \A x \in Inum, n \in Names : disk'.dir[x][n] = disk.dir[x][n]
  BY <1>0, <1>2, <1>3, FreedTree
<1>5. i \notin Live
  BY <1>1, <1>2 DEF Live, Dying
<1>6. \A x \in Inum \ {i} : disk'.ino[x] = disk.ino[x] /\ disk'.dir[x] = disk.dir[x]
  BY <1>2 DEF Freed
<1>7. freeing'[p] # "trunc" /\ \A q \in Proc \ {p} : freeing'[q] = freeing[q]
  BY <1>0, <1>1 DEF TypeOK
<1>8. Live \subseteq Live'
  BY <1>1, <1>5, <1>6, <1>7 DEF Live, Dying
<1>9. RefsKept
  BY <1>8 DEF RefsKept
<1>10. \A q \in Proc : op[q].pc = "fill" => disk'.dir[op[q].tgt] = disk.dir[op[q].tgt]
  <2>1. \A q \in Proc : op[q].pc = "fill" => op[q].tgt \in Live
    BY <1>0 DEF AliveInv, OpAlive
  <2> QED
    BY <1>5, <1>6, <2>1 DEF Live
<1> QED
  BY <1>1, <1>4, <1>9, <1>10, PutLinks

---------------------------------------------------------------------------
(* The steps that make and remove names.                                   *)

(* A directory with links has "." and "..". *)
LEMMA NewName ==
  ASSUME TypeOK, LinkInv, ~stray, NEW d \in Inum, disk.ino[d].type = "dir", disk.ino[d].nlink # 0,
         NEW n \in DirNames, disk.dir[d][n] = None
  PROVE  n \in Names
<1>1. disk.ino[d].nlink \in Nat /\ d # None
  BY Counts, ConstFacts
<1>2. disk.ino[d].nlink > 0
  BY <1>1
<1>3. disk.dir[d]["."] # None /\ disk.dir[d][".."] # None
  BY <1>1, <1>2 DEF LinkInv, TreeDisk
<1> QED
  BY <1>3 DEF DirNames

(* The dirlink() of sys_link() keeps LinkInv: the name takes over the
   count.                                                                 *)
LEMMA LinkEnterLinks ==
  ASSUME Core, TypeOK', DiskInv, LinkInv, ~stray, ~stray', NEW p \in Proc, LinkEnter(p)
  PROVE  LinkInv'
<1> DEFINE dp == op[p].ip
           t == op[p].tgt
           name == Head(op[p].path)
<1>0. TypeOK /\ disk \in DiskType /\ TreeDisk(disk)
  BY DEF Core, TypeOK, LinkInv
<1>1. freeing' = freeing /\ cwd' = cwd /\ durable' = durable
  BY DEF LinkEnter, procvars
<1>2. /\ op[p].pc = "link2" /\ dp \in Inum /\ t \in Inum /\ name \in DirNames
      /\ puts[p] = <<>> /\ (\E s : puts' = [puts EXCEPT ![p] = s])
      /\ disk.ino[dp].type = "dir" /\ lock[dp] = NoProc /\ disk.ino[t].type # "dir"
      /\ \A x \in Inum : disk'.ino[x].type = disk.ino[x].type /\ disk'.ino[x].nlink = disk.ino[x].nlink
      /\ \/ /\ disk.dir[dp][name] = None
            /\ Entered(dp, name, t)
            /\ stray' = (stray \/ disk.ino[dp].nlink = 0) /\ Moved(p, "end")
         \/ disk'.dir = disk.dir /\ stray' = stray /\ Moved(p, "linkbad")
  BY LinkEnterFacts
<1>3. Alone(p)
  BY <1>1, <1>2 DEF Moved, Alone
<1>4. (\A q \in Proc : cwd'[q] \in {cwd[q], cwd[p], None} \cup Live) /\ Commits
  BY <1>1 DEF Commits
<1>5. OpLinked(op[p])'
  <2>1. op'[p].pc \in {"end", "linkbad"}
    BY <1>2 DEF Moved
  <2> QED
    BY <2>1 DEF OpLinked
<1>6. CASE disk'.dir = disk.dir /\ Moved(p, "linkbad")
  <2>1. SameNames
    BY <1>2, <1>6 DEF SameNames
  <2>2. Pends(op'[p]) = Pends(op[p])
    BY <1>2, <1>6 DEF Pends, Moved
  <2> QED
    BY <1>3, <1>4, <1>5, <2>1, <2>2, QuietLinks
<1>7. CASE /\ disk.dir[dp][name] = None /\ Entered(dp, name, t)
           /\ stray' = (stray \/ disk.ino[dp].nlink = 0) /\ Moved(p, "end")
  <2>1. disk.ino[dp].nlink # 0
    BY <1>7
  <2>2. name \in Names
    BY <1>0, <1>2, <1>7, <2>1, NewName
  <2>3. t # ROOTINO
    BY <1>0, <1>2 DEF TreeDisk
  <2>4. \A q \in Proc : ~(op[q].pc = "unlink3" /\ op[q].tgt = dp)
    BY <1>2, Removing, FsAssumption
  <2>5. Named(disk, dp)
    BY <1>2, <2>1, <2>4, NamedDir
  <2>a. Pends(op[p]) = t /\ Pends(op'[p]) = None
    BY <1>2, <1>7 DEF Pends, Moved
  <2>b. \A q \in Proc : op[q].pc = "fill" => op[q].tgt # dp
    BY <2>1 DEF LinkInv, OpLinked
  <2>c. /\ disk'.dir[dp][name] = t /\ disk.dir[dp][name] = None
        /\ \A m \in DirNames \ {name} : disk'.dir[dp][m] = disk.dir[dp][m]
        /\ \A y \in Inum \ {dp} : disk'.dir[y] = disk.dir[y]
    BY <1>7 DEF Entered
  <2>d. /\ dp \in Inum /\ t \in Inum /\ disk.ino[t].type # "dir"
        /\ \A x \in Inum : disk'.ino[x].type = disk.ino[x].type /\ disk'.ino[x].nlink = disk.ino[x].nlink
    BY <1>2
  <2> HIDE DEF dp, t, name
  <2>6. Names \subseteq DirNames /\ "." \in DirNames \ {name} /\ ".." \in DirNames \ {name}
    BY <2>2, ConstFacts
  <2>7. /\ \A e \in Inum, l \in Names : e # dp \/ l # name => disk'.dir[e][l] = disk.dir[e][l]
        /\ \A x \in Inum : disk'.dir[x]["."] = disk.dir[x]["."] /\ disk'.dir[x][".."] = disk.dir[x][".."]
    BY <2>c, <2>6
  <2>8. disk'.dir[t]["."] \in {None, t}
    BY <1>0, <2>d, <2>7 DEF TreeDisk
  <2>e. /\ \A x \in Inum : disk'.ino[x].type = disk.ino[x].type
        /\ \A x \in Inum \ {t} : /\ disk'.dir[x]["."] = disk.dir[x]["."] /\ disk'.dir[x][".."] = disk.dir[x][".."]
                                 /\ disk.ino[x].type = "dir" /\ disk'.ino[x].nlink > 0 => disk.ino[x].nlink > 0
        /\ disk.ino[t].type = "dir" => disk'.dir[t]["."] = t /\ disk'.dir[t][".."] = dp /\ Unnamed(disk, t)
        /\ dp \in Inum /\ t \in Inum
    BY <2>d, <2>7
  <2>f. /\ disk.dir[dp][name] = None /\ disk'.dir[dp][name] = t
        /\ \A e \in Inum, l \in Names : e # dp \/ l # name => disk'.dir[e][l] = disk.dir[e][l]
    BY <2>c, <2>7
  <2>g. disk \in DiskType /\ TreeDisk(disk) /\ name \in Names /\ t # ROOTINO /\ Named(disk, dp)
    BY <1>0, <2>2, <2>3, <2>5
  <2>h. Adds(disk, disk', dp, name, t)
    BY <2>g, <2>e, <2>f, <2>8 DEF Adds
  <2>9. TreeDisk(disk')
    BY <2>g, <2>e, <2>h, TreeAdd
  <2>10. \A x \in Inum : Links(disk', x) = Links(disk, x) + Is(t, x) + (IF disk.ino[t].type = "dir" THEN Is(dp, x) ELSE 0)
    BY <1>0, <2>2, <2>c, <2>d, <2>7, AddName
  <2>11. Balanced(p)
    <3> SUFFICES ASSUME NEW x \in Inum
                 PROVE  disk'.ino[x].nlink + Links(disk, x) + Is(Pends(op[p]), x)
                          = disk.ino[x].nlink + Links(disk', x) + Is(Pends(op'[p]), x)
      BY DEF Balanced
    <3>1. Links(disk', x) = Links(disk, x) + Is(t, x) + 0
      BY <2>d, <2>10
    <3>2. Is(Pends(op[p]), x) = Is(t, x) /\ Is(Pends(op'[p]), x) = 0 /\ Is(t, x) \in Nat
      BY <2>a, ConstFacts DEF Is
    <3>3. Links(disk, x) \in Nat /\ disk.ino[x].nlink \in Int
      BY <1>0, LinkSets DEF DiskType, Dinode
    <3> QED
      BY <2>d, <3>1, <3>2, <3>3
  <2>12. Spares(p)
    <3>1. \A q \in Proc : op[q].pc \in {"fill", "unlink3"} => op[q].tgt \in Inum
      BY TgtIn DEF HasTgt
    <3> QED
      BY <2>4, <2>b, <2>c, <2>d, <3>1 DEF Spares
  <2>13. \A x \in Inum : disk'.ino[x].type = "free" => disk.ino[x].type = "free"
    BY <2>d
  <2> QED
    BY <1>3, <1>4, <1>5, <2>9, <2>11, <2>12, <2>13, MoveLinks
<1> QED
  BY <1>2, <1>6, <1>7

(* sys_unlink() under both locks keeps LinkInv, and does not find
   "unlink: nlink < 1".                                                   *)
LEMMA UnlinkEntryLinks ==
  ASSUME Core, TypeOK', DiskInv, LinkInv, ~stray, NEW p \in Proc, UnlinkEntry(p)
  PROVE  LinkInv' /\ panic' = panic
<1> DEFINE dp == op[p].ip
           t == op[p].tgt
           name == Head(op[p].path)
<1>0. TypeOK /\ disk \in DiskType /\ TreeDisk(disk)
  BY DEF Core, TypeOK, LinkInv
<1>1. freeing' = freeing /\ cwd' = cwd /\ durable' = durable
  BY DEF UnlinkEntry, procvars
<1>2. /\ op[p].pc = "unlink2" /\ dp \in Inum /\ t \in Inum /\ name \in Names
      /\ puts[p] = <<>> /\ (\E s : puts' = [puts EXCEPT ![p] = s])
      /\ dp # t /\ disk.dir[dp][name] = t
      /\ \A x \in Inum : disk'.ino[x].type = disk.ino[x].type
      /\ \A x \in Inum \ {dp} : disk'.ino[x] = disk.ino[x]
      /\ panic' = IF disk.ino[t].nlink < 1 THEN "unlink: nlink < 1" ELSE panic
      /\ \/ disk' = disk /\ Moved(p, "end")
         \/ /\ Entered(dp, name, None)
            /\ disk'.ino[dp].nlink = disk.ino[dp].nlink - (IF disk.ino[t].type = "dir" THEN 1 ELSE 0)
            /\ disk.ino[t].type = "dir" => \A n \in Names : disk.dir[t][n] = None
            /\ Moved(p, "unlink3")
  BY UnlinkEntryFacts
<1>a. t # None /\ name \in DirNames
  BY <1>2, ConstFacts
<1>b. panic' = panic
  <2>1. disk.ino[t].nlink >= 1
    BY <1>0, <1>2, <1>a, NamedLinks
  <2>2. panic' = IF disk.ino[t].nlink < 1 THEN "unlink: nlink < 1" ELSE panic
    BY <1>2
  <2>3. disk.ino[t].nlink \in Int
    BY <1>0, <1>2 DEF DiskType, Dinode
  <2>4. ~(disk.ino[t].nlink < 1)
    BY <2>1, <2>3
  <2> QED
    BY <2>2, <2>4
<1>3. Alone(p)
  BY <1>1, <1>2 DEF Moved, Alone
<1>4. (\A q \in Proc : cwd'[q] \in {cwd[q], cwd[p], None} \cup Live) /\ Commits
  BY <1>1 DEF Commits
<1>5. Pends(op[p]) = None
  BY <1>2 DEF Pends
<1>6. CASE disk' = disk /\ Moved(p, "end")
  <2>1. op'[p].pc = "end"
    BY <1>6 DEF Moved
  <2>2. Leads(p) /\ Pends(op'[p]) = Pends(op[p])
    BY <1>5, <2>1 DEF Leads, Pends
  <2> QED
    BY <1>1, <1>3, <1>4, <1>6, <1>b, <2>2, StillLinks
<1>7. CASE /\ Entered(dp, name, None)
           /\ disk'.ino[dp].nlink = disk.ino[dp].nlink - (IF disk.ino[t].type = "dir" THEN 1 ELSE 0)
           /\ disk.ino[t].type = "dir" => \A n \in Names : disk.dir[t][n] = None
           /\ Moved(p, "unlink3")
  <2>1. \A n \in Names : disk.dir[t][n] = None
    BY <1>2, <1>7, NoEntriesType, ConstFacts DEF DiskInv, CleanDisk
  <2>a. op'[p].pc = "unlink3" /\ op'[p].tgt = t /\ Pends(op'[p]) = t
    BY <1>7 DEF Pends, Moved
  <2>b. \A q \in Proc : op[q].pc = "fill" => op[q].tgt # dp
    <3> SUFFICES ASSUME NEW q \in Proc, op[q].pc = "fill", op[q].tgt = dp PROVE FALSE
      OBVIOUS
    <3>1. disk.dir[dp] = NoEntries
      BY DEF LinkInv, OpLinked
    <3> QED
      BY <1>2, <1>a, <3>1, NoEntriesType
  <2>c. /\ disk'.dir[dp][name] = None /\ disk.dir[dp][name] = t
        /\ \A m \in DirNames \ {name} : disk'.dir[dp][m] = disk.dir[dp][m]
        /\ \A y \in Inum \ {dp} : disk'.dir[y] = disk.dir[y]
    BY <1>2, <1>7 DEF Entered
  <2>d. /\ dp \in Inum /\ t \in Inum /\ name \in Names /\ dp # t
        /\ \A x \in Inum : disk'.ino[x].type = disk.ino[x].type
        /\ \A x \in Inum \ {dp} : disk'.ino[x] = disk.ino[x]
        /\ disk'.ino[dp].nlink = disk.ino[dp].nlink - (IF disk.ino[t].type = "dir" THEN 1 ELSE 0)
    BY <1>2, <1>7
  <2>e. OpLinked(op[p])'
    BY <2>1, <2>a, <2>c, <2>d DEF OpLinked
  <2> HIDE DEF dp, t, name
  <2>6. Names \subseteq DirNames /\ "." \in DirNames \ {name} /\ ".." \in DirNames \ {name}
    BY <2>d, ConstFacts
  <2>7. /\ \A e \in Inum, l \in Names : e # dp \/ l # name => disk'.dir[e][l] = disk.dir[e][l]
        /\ \A x \in Inum : disk'.dir[x]["."] = disk.dir[x]["."] /\ disk'.dir[x][".."] = disk.dir[x][".."]
    BY <2>c, <2>6
  <2>8. \A x \in Inum : disk.ino[x].type = "dir" /\ disk'.ino[x].nlink > 0 => disk.ino[x].nlink > 0
    <3>1. disk.ino[dp].nlink \in Int
      BY <1>0, <2>d DEF DiskType, Dinode
    <3>2. disk'.ino[dp].nlink > 0 => disk.ino[dp].nlink > 0
      BY <2>d, <3>1
    <3> QED
      BY <2>d, <3>2
  <2>9. TreeDisk(disk')
    <3>1. \A x \in Inum : /\ disk'.ino[x].type = disk.ino[x].type
                          /\ disk'.dir[x]["."] = disk.dir[x]["."] /\ disk'.dir[x][".."] = disk.dir[x][".."]
                          /\ disk.ino[x].type = "dir" /\ disk'.ino[x].nlink > 0 => disk.ino[x].nlink > 0
      BY <2>d, <2>7, <2>8
    <3>2. /\ disk \in DiskType /\ TreeDisk(disk) /\ dp \in Inum /\ name \in Names /\ t \in Inum
          /\ disk.dir[dp][name] = t /\ disk'.dir[dp][name] = None /\ \A l \in Names : disk.dir[t][l] = None
      BY <1>0, <2>1, <2>c, <2>d
    <3>3. \A e \in Inum, l \in Names : e # dp \/ l # name => disk'.dir[e][l] = disk.dir[e][l]
      BY <2>7
    <3>4. Removes(disk, disk', dp, name, t)
      BY <3>1, <3>2, <3>3 DEF Removes
    <3> QED
      BY <3>2, <3>4, TreeRemove
  <2>f. disk' \in DiskType
    BY DEF TypeOK
  <2>10. \A x \in Inum : Links(disk, x) = Links(disk', x) + Is(t, x) + (IF disk'.ino[t].type = "dir" THEN Is(dp, x) ELSE 0)
    BY <2>c, <2>d, <2>f, <2>7, AddName
  <2>11. Balanced(p)
    <3> SUFFICES ASSUME NEW x \in Inum
                 PROVE  disk'.ino[x].nlink + Links(disk, x) + Is(Pends(op[p]), x)
                          = disk.ino[x].nlink + Links(disk', x) + Is(Pends(op'[p]), x)
      BY DEF Balanced
    <3> DEFINE k == IF disk.ino[t].type = "dir" THEN 1 ELSE 0
               u == disk.ino[x].nlink
               v == disk'.ino[x].nlink
               a == Links(disk, x)
               b == Links(disk', x)
               w == Is(t, x)
    <3>1. w \in Nat /\ k \in Nat /\ Is(Pends(op[p]), x) = 0 /\ Is(Pends(op'[p]), x) = w
      BY <1>5, <2>a, ConstFacts DEF Is
    <3>2. u \in Int /\ a \in Nat /\ b \in Nat
      BY <1>0, LinkSets DEF DiskType, Dinode
    <3>3. disk'.ino[t].type = disk.ino[t].type
      BY <2>d
    <3>4. CASE x = dp
      <4>1. a = b + w + k
        BY <2>10, <3>3, <3>4 DEF Is
      <4>2. v = u - k
        BY <2>d, <3>4
      <4> HIDE DEF k, u, v, a, b, w
      <4>3. v + a + 0 = u + b + w
        BY <3>1, <3>2, <4>1, <4>2
      <4> QED
        BY <3>1, <4>3 DEF u, v, a, b
    <3>5. CASE x # dp
      <4>1. a = b + w + 0
        BY <2>10, <3>5 DEF Is
      <4>2. v = u
        BY <2>d, <3>5
      <4> HIDE DEF k, u, v, a, b, w
      <4>3. v + a + 0 = u + b + w
        BY <3>1, <3>2, <4>1, <4>2
      <4> QED
        BY <3>1, <4>3 DEF u, v, a, b
    <3> QED
      BY <3>4, <3>5
  <2>12. Spares(p)
    <3>1. \A q \in Proc : op[q].pc \in {"fill", "unlink3"} => op[q].tgt \in Inum
      BY TgtIn DEF HasTgt
    <3>2. \A x \in Inum, n \in Names : disk.dir[x][n] = None => disk'.dir[x][n] = None
      BY <2>c, <2>7
    <3> QED
      BY <2>b, <2>c, <2>d, <3>1, <3>2 DEF Spares
  <2>13. \A x \in Inum : disk'.ino[x].type = "free" => disk.ino[x].type = "free"
    BY <2>d
  <2>14. LinkInv'
    BY <1>3, <1>4, <2>e, <2>9, <2>11, <2>12, <2>13, MoveLinks
  <2> QED
    BY <1>b, <2>14
<1> QED
  BY <1>2, <1>6, <1>7

(* create() has its new inode: it has no links, no names and no entries, and
   nobody else is at it; the directory it goes to is locked.               *)
LEMMA FillsAlone ==
  ASSUME Core, LinkInv, ~stray, NEW p \in Proc, CreateFill(p)
  PROVE  /\ op[p].pc = "fill" /\ op[p].ip \in Inum /\ op[p].tgt \in Inum /\ op[p].tgt # op[p].ip
         /\ Head(op[p].path) \in DirNames /\ op[p].call \in DOMAIN TypeOf
         /\ puts[p] = <<>> /\ freeing' = freeing /\ cwd' = cwd /\ durable' = durable
         /\ disk.ino[op[p].ip].type = "dir" /\ disk.ino[op[p].tgt].type = TypeOf[op[p].call]
         /\ lock[op[p].ip] = p
         /\ disk.ino[op[p].tgt].nlink = 0 /\ disk.dir[op[p].tgt] = NoEntries
         /\ Unnamed(disk, op[p].tgt)
         /\ \A q \in Proc : Pends(op[q]) # op[p].tgt
         /\ \A q \in Proc \ {p} : op[q].pc = "fill" => op[q].tgt # op[p].tgt
         /\ \A q \in Proc : op[q].pc = "unlink3" => op[q].tgt # op[p].tgt /\ op[q].tgt # op[p].ip
<1>0. TypeOK /\ "fill" \in Labels \ {"idle", "exit", "end"} /\ At(p, "fill") /\ AliveInv /\ LockInv
  BY DEF Core, Labels, CreateFill
<1>1. /\ op[p] \in OpType /\ OpOK(op[p]) /\ op[p].pc = "fill" /\ op[p].ip \in Inum /\ puts[p] = <<>>
      /\ op[p].tgt \in Inum /\ OpAlive(op[p])
  BY <1>0, AtFacts DEF HasIp, HasTgt, Labels, OpOK, AliveInv
<1>2. Head(op[p].path) \in DirNames /\ op[p].call \in DOMAIN TypeOf
  BY <1>1 DEF OpOK, OpType
<1>3. freeing' = freeing /\ cwd' = cwd /\ durable' = durable
  BY DEF CreateFill, procvars
<1>4. disk.ino[op[p].ip].type = "dir" /\ disk.ino[op[p].tgt].type = TypeOf[op[p].call]
  BY <1>1 DEF OpAlive
<1>5. lock[op[p].ip] = p
  BY <1>0, <1>1 DEF LockInv, Locks, Holds
<1>6. lock[op[p].tgt] = NoProc
  BY <1>1, LockedLive DEF CreateFill
<1>7. op[p].tgt # op[p].ip
  BY <1>5, <1>6, FsAssumption
<1>8. disk.ino[op[p].tgt].nlink = 0 /\ disk.dir[op[p].tgt] = NoEntries
  BY <1>1 DEF LinkInv, OpLinked
<1>9. Unnamed(disk, op[p].tgt) /\ \A q \in Proc : Pends(op[q]) # op[p].tgt
  BY <1>0, <1>1, <1>8, Unlinked
<1>10. \A q \in Proc \ {p} : op[q].pc = "fill" => op[q].tgt # op[p].tgt
  BY <1>0, <1>1 DEF AliveInv
<1>11. ASSUME NEW q \in Proc, op[q].pc = "unlink3"
       PROVE  op[q].tgt # op[p].tgt /\ op[q].tgt # op[p].ip
  <2>1. op[q].tgt # op[p].tgt
    BY <1>9, <1>11 DEF Pends
  <2>2. CASE op[q].tgt = op[p].ip
    <3>1. lock[op[p].ip] = q
      BY <1>1, <1>11, <2>2, Removing
    <3> QED
      BY <1>1, <1>5, <1>11, <3>1
  <2> QED
    BY <2>1, <2>2
<1> QED
  BY <1>1, <1>2, <1>3, <1>4, <1>5, <1>7, <1>8, <1>9, <1>10, <1>11

(* A create() that gives its inode up keeps LinkInv. *)
LEMMA UnfilledLinks ==
  ASSUME Core, TypeOK', DiskInv, LinkInv, ~stray, NEW p \in Proc, CreateFill(p), NEW c, Unfilled(p, c)
  PROVE  LinkInv'
<1> DEFINE dp == op[p].ip
           ip == op[p].tgt
<1>0. disk \in DiskType /\ TreeDisk(disk)
  BY DEF Core, TypeOK, LinkInv
<1>1. /\ op[p].pc = "fill" /\ dp \in Inum /\ ip \in Inum
      /\ puts[p] = <<>> /\ freeing' = freeing /\ cwd' = cwd /\ durable' = durable
      /\ disk.ino[ip].nlink = 0 /\ Unnamed(disk, ip)
      /\ \A q \in Proc \ {p} : op[q].pc = "fill" => op[q].tgt # ip
      /\ \A q \in Proc : op[q].pc = "unlink3" => op[q].tgt # ip
  BY FillsAlone
<1>2. /\ c.type = disk.ino[ip].type /\ c.nlink = 0
      /\ disk'.ino[ip] = c /\ \A x \in Inum \ {ip} : disk'.ino[x] = disk.ino[x]
      /\ \A x \in Inum \ {ip} : disk'.dir[x] = disk.dir[x]
      /\ \A n \in Names : disk'.dir[ip][n] = disk.dir[ip][n]
      /\ disk'.dir[ip]["."] \in {disk.dir[ip]["."], ip}
      /\ PutAll(p, <<UnlockPut(ip), UnlockPut(dp)>>, "end")
  BY DEF Unfilled
<1>3. /\ (\E s : puts' = [puts EXCEPT ![p] = s]) /\ op'[p].pc = "end"
      /\ \A q \in Proc \ {p} : op'[q] = op[q]
  <2>1. TypeOK /\ "end" \in Labels /\ Goto(p, "end") /\ \E s : puts' = [puts EXCEPT ![p] = s]
    BY <1>2 DEF PutAll, Core, Labels
  <2>2. Moved(p, "end")
    BY <2>1, GotoMoves
  <2> QED
    BY <2>1, <2>2 DEF Moved
<1>4. Alone(p)
  BY <1>1, <1>3 DEF Alone
<1>5. OpLinked(op[p])' /\ Pends(op[p]) = None /\ Pends(op'[p]) = None
  BY <1>1, <1>3 DEF OpLinked, Pends
<1>6. (\A q \in Proc : cwd'[q] \in {cwd[q], cwd[p], None} \cup Live) /\ Commits
  BY <1>1 DEF Commits
<1> HIDE DEF dp, ip
<1>7. Spares(p)
  <2>1. \A q \in Proc : op[q].pc \in {"fill", "unlink3"} => op[q].tgt \in Inum
    BY TgtIn DEF HasTgt
  <2> QED
    BY <1>1, <1>2, <2>1 DEF Spares
<1>8. disk'.dir[ip]["."] \in {None, ip}
  BY <1>0, <1>1, <1>2 DEF TreeDisk
<1>9. /\ \A d \in Inum, n \in Names : disk'.dir[d][n] = disk.dir[d][n]
      /\ \A x \in Inum :
           \/ /\ disk'.ino[x].type = disk.ino[x].type /\ disk'.dir[x] = disk.dir[x]
              /\ disk.ino[x].type = "dir" /\ disk'.ino[x].nlink > 0 => disk.ino[x].nlink > 0
           \/ Unnamed(disk, x) /\ disk'.dir[x]["."] \in {None, x} /\ disk'.ino[x].nlink = 0
  BY <1>1, <1>2, <1>8
<1>10. TreeDisk(disk') /\ \A i \in Inum : Links(disk', i) = Links(disk, i)
  BY <1>0, <1>9, TreeSame
<1>11. \A x \in Inum : disk'.ino[x].type = disk.ino[x].type /\ disk'.ino[x].nlink = disk.ino[x].nlink
  BY <1>1, <1>2
<1>12. Balanced(p)
  BY <1>5, <1>10, <1>11 DEF Balanced
<1> QED
  BY <1>4, <1>5, <1>6, <1>7, <1>10, <1>11, <1>12, MoveLinks

(* A create() that links its inode into a directory keeps LinkInv. *)
LEMMA FilledLinks ==
  ASSUME Core, TypeOK', DiskInv, LinkInv, ~stray, ~stray', NEW p \in Proc, CreateFill(p), NEW c, NEW d, Filled(p, c, d)
  PROVE  LinkInv'
<1> DEFINE dp == op[p].ip
           ip == op[p].tgt
           name == Head(op[p].path)
           isdir == op[p].call = "mkdir"
<1>0. TypeOK /\ disk \in DiskType /\ TreeDisk(disk)
  BY DEF Core, TypeOK, LinkInv
<1>1. /\ op[p].pc = "fill" /\ dp \in Inum /\ ip \in Inum /\ ip # dp /\ name \in DirNames
      /\ puts[p] = <<>> /\ freeing' = freeing /\ cwd' = cwd /\ durable' = durable
      /\ disk.ino[dp].type = "dir" /\ disk.ino[ip].nlink = 0 /\ Unnamed(disk, ip) /\ disk.dir[ip] = NoEntries
      /\ \A q \in Proc \ {p} : op[q].pc = "fill" => op[q].tgt # ip
      /\ \A q \in Proc : op[q].pc = "unlink3" => op[q].tgt # ip /\ op[q].tgt # dp
  BY FillsAlone
<1>a. isdir <=> disk.ino[ip].type = "dir"
  <2>1. op[p].call \in {"creat", "mkdir", "mknod"} /\ disk.ino[ip].type = TypeOf[op[p].call]
    BY FillsAlone DEF TypeOf
  <2> QED
    BY <2>1 DEF TypeOf
<1>2. /\ c.type = disk.ino[ip].type /\ c.nlink = 1 /\ d.type = disk.ino[dp].type
      /\ d.nlink = disk.ino[dp].nlink + (IF isdir THEN 1 ELSE 0)
      /\ disk'.ino[ip] = c /\ disk'.ino[dp] = d /\ \A x \in Inum \ {ip, dp} : disk'.ino[x] = disk.ino[x]
  BY DEF Filled
<1>b. /\ disk.dir[dp][name] = None /\ disk'.dir[dp][name] = ip
      /\ \A n \in DirNames \ {name} : disk'.dir[dp][n] = disk.dir[dp][n]
      /\ \A x \in Inum \ {ip, dp} : disk'.dir[x] = disk.dir[x]
      /\ ~isdir => disk'.dir[ip] = disk.dir[ip]
      /\ isdir => /\ disk'.dir[ip]["."] = ip /\ disk'.dir[ip][".."] = dp
                  /\ \A n \in Names : disk'.dir[ip][n] = disk.dir[ip][n]
  BY DEF Filled
<1>c. disk.ino[dp].nlink # 0
  BY DEF Filled
<1>3. /\ (\E s : puts' = [puts EXCEPT ![p] = s]) /\ op'[p].pc \in {"end", "opened"}
      /\ \A q \in Proc \ {p} : op'[q] = op[q]
  <2>1. \E s : PutAll(p, s, "opened") \/ PutAll(p, s, "end")
    BY DEF Filled
  <2>2. (Goto(p, "opened") \/ Goto(p, "end")) /\ \E s : puts' = [puts EXCEPT ![p] = s]
    BY <2>1 DEF PutAll
  <2>3. Moved(p, "opened") \/ Moved(p, "end")
    BY <1>0, <2>2, GotoMoves DEF Labels
  <2> QED
    BY <2>2, <2>3 DEF Moved
<1>4. Alone(p)
  BY <1>1, <1>3 DEF Alone
<1>5. OpLinked(op[p])' /\ Pends(op[p]) = None /\ Pends(op'[p]) = None
  BY <1>1, <1>3 DEF OpLinked, Pends
<1>6. (\A q \in Proc : cwd'[q] \in {cwd[q], cwd[p], None} \cup Live) /\ Commits
  BY <1>1 DEF Commits
<1>7. name \in Names
  BY <1>0, <1>1, <1>b, <1>c, NewName
<1>8. Named(disk, dp)
  BY <1>1, <1>c, NamedDir
<1>d. \A q \in Proc : op[q].pc = "fill" => op[q].tgt # dp
  BY <1>c DEF LinkInv, OpLinked
<1> HIDE DEF dp, ip, name, isdir
<1>9. Names \subseteq DirNames /\ "." \in DirNames \ {name} /\ ".." \in DirNames \ {name}
  BY <1>7, ConstFacts
<1>10. Spares(p)
  <2>1. \A q \in Proc : op[q].pc \in {"fill", "unlink3"} => op[q].tgt \in Inum
    BY TgtIn DEF HasTgt
  <2>2. \A q \in Proc \ {p} : op[q].pc = "fill" => op[q].tgt \in Inum \ {ip, dp}
    BY <1>1, <1>d, <2>1
  <2>3. \A q \in Proc \ {p} : op[q].pc = "unlink3" => op[q].tgt \in Inum \ {ip, dp}
    BY <1>1, <2>1
  <2> QED
    BY <1>2, <1>b, <2>2, <2>3 DEF Spares
<1>11. \A e \in Inum, l \in Names : e # dp \/ l # name => disk'.dir[e][l] = disk.dir[e][l]
  <2>1. \A l \in Names : disk'.dir[ip][l] = disk.dir[ip][l]
    BY <1>b
  <2> QED
    BY <1>b, <1>9, <2>1
<1>12. \A x \in Inum : disk'.ino[x].type = disk.ino[x].type
  BY <1>2
<1>13. Adds(disk, disk', dp, name, ip)
  <2>1. ip # ROOTINO
    BY <1>1 DEF Unnamed
  <2>2. ASSUME NEW x \in Inum \ {ip}
        PROVE  /\ disk'.dir[x]["."] = disk.dir[x]["."] /\ disk'.dir[x][".."] = disk.dir[x][".."]
               /\ disk.ino[x].type = "dir" /\ disk'.ino[x].nlink > 0 => disk.ino[x].nlink > 0
    <3>1. CASE x = dp
      <4>1. disk.ino[dp].nlink \in Nat
        BY <1>0, <1>1, Counts
      <4>2. disk.ino[dp].nlink > 0
        BY <1>c, <4>1
      <4> QED
        BY <1>b, <1>9, <3>1, <4>2
    <3>2. CASE x # dp
      BY <1>2, <1>b, <3>2
    <3> QED
      BY <3>1, <3>2
  <2>3. disk'.dir[ip]["."] \in {None, ip}
    <3>1. disk.dir[ip]["."] \in {None, ip}
      BY <1>0, <1>1 DEF TreeDisk
    <3> QED
      BY <1>b, <3>1
  <2>4. disk.ino[ip].type = "dir" => disk'.dir[ip]["."] = ip /\ disk'.dir[ip][".."] = dp /\ Unnamed(disk, ip)
    BY <1>1, <1>a, <1>b
  <2> QED
    BY <1>8, <1>11, <1>12, <1>b, <2>1, <2>2, <2>3, <2>4 DEF Adds
<1>14. TreeDisk(disk')
  BY <1>0, <1>1, <1>7, <1>13, TreeAdd
<1>15. \A x \in Inum : Links(disk', x) = Links(disk, x) + Is(ip, x) + (IF disk.ino[ip].type = "dir" THEN Is(dp, x) ELSE 0)
  BY <1>0, <1>1, <1>7, <1>11, <1>12, <1>b, AddName
<1>16. Balanced(p)
  <2> SUFFICES ASSUME NEW x \in Inum
               PROVE  disk'.ino[x].nlink + Links(disk, x) + Is(Pends(op[p]), x)
                        = disk.ino[x].nlink + Links(disk', x) + Is(Pends(op'[p]), x)
    BY DEF Balanced
  <2> DEFINE k == IF isdir THEN 1 ELSE 0
             u == disk.ino[x].nlink
             v == disk'.ino[x].nlink
             a == Links(disk, x)
             b == Links(disk', x)
  <2>1. k \in Nat /\ Is(Pends(op[p]), x) = 0 /\ Is(Pends(op'[p]), x) = 0
    BY <1>5, ConstFacts DEF Is
  <2>2. u \in Int /\ v \in Int /\ a \in Nat /\ b \in Nat
    BY <1>0, LinkSets DEF DiskType, Dinode, TypeOK
  <2>3. \/ b = a + 1 /\ v = u + 1
        \/ b = a + k /\ v = u + k
        \/ b = a /\ v = u
    <3>1. CASE x = ip
      <4>1. b = a + 1 + 0
        BY <1>1, <1>15, <3>1 DEF Is
      <4>2. v = 1 /\ u = 0
        BY <1>1, <1>2, <3>1
      <4> HIDE DEF a, b, u, v
      <4> QED
        BY <2>2, <4>1, <4>2
    <3>2. CASE x = dp
      <4>1. b = a + 0 + k
        BY <1>1, <1>15, <1>a, <3>2 DEF Is
      <4>2. v = u + k
        BY <1>2, <3>2
      <4> HIDE DEF a, b, u, v, k
      <4> QED
        BY <2>1, <2>2, <4>1, <4>2
    <3>3. CASE x # ip /\ x # dp
      <4>1. b = a + 0 + 0
        BY <1>15, <3>3 DEF Is
      <4>2. v = u
        BY <1>2, <3>3
      <4> HIDE DEF a, b, u, v, k
      <4> QED
        BY <2>2, <4>1, <4>2
    <3> QED
      BY <3>1, <3>2, <3>3
  <2> HIDE DEF a, b, u, v, k
  <2>4. v + a + 0 = u + b + 0
    BY <2>1, <2>2, <2>3
  <2> QED
    BY <2>1, <2>4 DEF a, b, u, v
<1> QED
  BY <1>4, <1>5, <1>6, <1>10, <1>12, <1>14, <1>16, MoveLinks

(* create() after ialloc() keeps LinkInv. *)
LEMMA FillLinks ==
  ASSUME Core, TypeOK', DiskInv, LinkInv, ~stray, ~stray', NEW p \in Proc, CreateFill(p)
  PROVE  LinkInv'
<1>1. CASE \E c, d : Filled(p, c, d)
  BY <1>1, FilledLinks
<1>2. CASE \E c : Unfilled(p, c)
  BY <1>2, UnfilledLinks
<1> QED
  BY <1>1, <1>2, FillFacts

---------------------------------------------------------------------------
(* Crashes, ireclaim() and the first states.                               *)

(* A step that has nothing to do with names. *)
LEMMA StandLinks ==
  ASSUME LinkInv, disk' = disk, durable' = durable, op' = op, cwd' = cwd, puts' = puts, freeing' = freeing,
         stray' = stray
  PROVE  LinkInv'
<1>1. Live' = Live /\ Pending' = Pending
  BY DEF Live, Dying, Pending
<1>2. \A p \in Proc : OpLinked(op[p])' <=> OpLinked(op[p])
  BY <1>1 DEF OpLinked
<1> QED
  BY <1>1, <1>2 DEF LinkInv

(* A crash keeps LinkInv: what is committed is balanced by itself. *)
LEMMA CrashLinks ==
  ASSUME LinkInv, ~stray, Crash
  PROVE  LinkInv'
<1>1. /\ disk' = durable /\ durable' = durable /\ op' = [p \in Proc |-> Idle] /\ cwd' = [p \in Proc |-> None]
  BY DEF Crash
<1>2. ASSUME NEW i \in Inum PROVE disk'.ino[i].nlink = Links(disk', i) + Occ(Pending', i)
  <2>1. DOMAIN Pending' = Proc /\ \A q \in Proc : Pending'[q] # i
    BY <1>1, ConstFacts DEF Pending, Pends, Idle
  <2>2. Occ(Pending', i) = 0
    BY <2>1, FiniteFacts, OccSome
  <2>3. Links(disk', i) \in Nat
    BY LinkSets
  <2>4. disk'.ino[i].nlink = Links(disk', i)
    BY <1>1 DEF LinkInv
  <2> QED
    BY <2>2, <2>3, <2>4
<1>3. \A i \in Inum : Occ(Pending, i)' = Occ(Pending', i) /\ Links(disk, i)' = Links(disk', i)
  OBVIOUS
<1>4. \A p \in Proc : OpLinked(op[p])'
  BY <1>1 DEF OpLinked, Idle
<1>5. \A p \in Proc : cwd'[p] = None
  BY <1>1
<1>6. TreeDisk(disk') /\ TreeDisk(durable') /\ \A i \in Inum : durable'.ino[i].nlink = Links(durable', i)
  BY <1>1 DEF LinkInv
<1> QED
  BY <1>2, <1>3, <1>4, <1>5, <1>6 DEF LinkInv

(* Before the first process runs. *)
LEMMA NobodyYet ==
  ASSUME Core, boot # None, NEW q \in Proc
  PROVE  op[q].pc = "idle" /\ cwd[q] = None /\ freeing[q] = "no" /\ Pends(op[q]) = None
<1>1. q \notin alive
  BY DEF Core, BootInv
<1>2. op[q].pc = "idle" /\ cwd[q] = None /\ freeing[q] = "no"
  BY <1>1, AbsentProc
<1> QED
  BY <1>2 DEF Pends

(* A step of ireclaim() keeps LinkInv. *)
LEMMA ReclaimLinks ==
  ASSUME Core, TypeOK', DiskInv, LinkInv, ~stray, Reclaim
  PROVE  LinkInv'
<1>0. TypeOK /\ Good(disk) /\ boot # None /\ First \in Proc
  <2>1. boot \in Inum
    BY DEF Reclaim
  <2> QED
    BY <2>1, ConstFacts, FsAssumption DEF Core, DiskInv, Good
<1>1. op' = op /\ cwd' = cwd /\ durable' = disk'
  BY DEF Reclaim, procvars
<1>2. \A q \in Proc : op[q].pc = "idle" /\ cwd[q] = None /\ Pends(op[q]) = None
  BY <1>0, NobodyYet
<1>3. /\ TreeDisk(disk')
      /\ \A x \in Inum : Links(disk', x) = Links(disk, x) /\ disk'.ino[x].nlink = disk.ino[x].nlink
  <2>1. CASE disk' = disk
    BY <2>1 DEF LinkInv
  <2>2. CASE boot \in Inum /\ disk.ino[boot].nlink = 0 /\ Freed(boot)
    BY <1>0, <2>2, FreedTree
  <2> QED
    BY <1>0, <2>1, <2>2, ReclaimFacts
<1>4. Balanced(First)
  BY <1>1, <1>3 DEF Balanced
<1>5. Commits
  BY <1>1, <1>2 DEF Commits
<1>6. \A q \in Proc : OpLinked(op[q])'
  BY <1>1, <1>2 DEF OpLinked
<1>7. \A q \in Proc : cwd'[q] # None => cwd'[q] \in Live'
  BY <1>1, <1>2
<1> QED
  BY <1>0, <1>1, <1>3, <1>4, <1>5, <1>6, <1>7, LinkStep

(* The start of the first process keeps LinkInv. *)
LEMMA BootedLinks ==
  ASSUME Core, TypeOK', DiskInv, LinkInv, ~stray, Booted
  PROVE  LinkInv'
<1>0. TypeOK /\ boot # None /\ First \in Proc /\ TreeDisk(disk)
  BY FsAssumption DEF Core, Booted, None, LinkInv
<1>1. op' = op /\ disk' = disk /\ durable' = durable /\ freeing' = freeing /\ puts' = puts
      /\ cwd' = [cwd EXCEPT ![First] = ROOTINO]
  BY DEF Booted
<1>2. \A q \in Proc : op[q].pc = "idle" /\ cwd[q] = None
  BY <1>0, NobodyYet
<1>3. Live' = Live /\ ROOTINO \in Live
  BY <1>1, RootLive DEF Live, Dying
<1>4. Balanced(First) /\ Commits /\ TreeDisk(disk')
  BY <1>0, <1>1 DEF Balanced, Commits
<1>5. \A q \in Proc : OpLinked(op[q])'
  BY <1>1, <1>2 DEF OpLinked
<1>6. \A q \in Proc : cwd'[q] # None => cwd'[q] \in Live'
  BY <1>0, <1>1, <1>2, <1>3 DEF TypeOK
<1> QED
  BY <1>0, <1>1, <1>4, <1>5, <1>6, LinkStep

(* Once a count is wrong it stays so. *)
LEMMA StraySticks ==
  ASSUME Core, [Next]_vars, stray
  PROVE  stray'
<1>1. CASE \E p \in Proc : CreateFill(p)
  BY <1>1, FillFacts DEF Filled, Unfilled
<1>2. CASE \E p \in Proc : LinkEnter(p)
  BY <1>2, LinkEnterFacts
<1>3. CASE \E p \in Proc : LinkCount(p)
  BY <1>3 DEF LinkCount
<1>4. CASE \E p \in Proc : Call(p) \/ Namex(p) \/ NamexDone(p) \/ Iput(p) \/ IputFree(p) \/ IputDrop(p) \/ IlockPanic(p)
  BY <1>4 DEF Call, Namex, NamexDone, Iput, IputFree, IputDrop, IlockPanic
<1>5. CASE \E p \in Proc : Create(p) \/ CreateExists(p) \/ Open(p) \/ OpenCreated(p) \/ Dup(p) \/ Close(p)
  BY <1>5 DEF Create, CreateExists, Open, OpenCreated, Dup, Close
<1>6. CASE \E p \in Proc : Write(p) \/ Read(p) \/ Fstat(p) \/ LinkBad(p) \/ Unlink(p) \/ UnlinkEntry(p) \/ UnlinkCount(p)
  BY <1>6 DEF Write, Read, Fstat, LinkBad, Unlink, UnlinkEntry, UnlinkCount
<1>7. CASE \E p \in Proc : Chdir(p) \/ Fork(p) \/ Exit(p) \/ ExitClose(p) \/ ExitCwd(p) \/ End(p)
  BY <1>7 DEF Chdir, Fork, Exit, ExitClose, ExitCwd, End
<1>8. CASE Crash \/ Reclaim \/ Booted
  BY <1>8 DEF Crash, Reclaim, Booted
<1>9. CASE UNCHANGED vars
  BY <1>9 DEF vars
<1> QED
  BY <1>1, <1>2, <1>3, <1>4, <1>5, <1>6, <1>7, <1>8, <1>9 DEF Next

(* Every step keeps LinkInv. *)
LEMMA NextLink ==
  ASSUME Core, DiskInv, LinkInv, [Next]_vars
  PROVE  LinkInv'
<1>1. TypeOK'
  BY NextCore DEF Core
<1>2. CASE stray'
  BY <1>2 DEF LinkInv
<1>3. CASE ~stray'
  <2>0. ~stray
    BY <1>3, StraySticks
  <2>1. CASE \E p \in Proc : Call(p) \/ Namex(p) \/ NamexDone(p) \/ Iput(p) \/ IputFree(p) \/ IputDrop(p)
    BY <1>1, <2>0, <2>1, CallLinks, NamexLinks, NamexDoneLinks, IputLinks, IputFreeLinks
  <2>2. CASE \E p \in Proc : IlockPanic(p)
    BY <2>2, StandLinks DEF IlockPanic, procvars
  <2>3. CASE \E p \in Proc : Create(p) \/ CreateExists(p) \/ CreateFill(p)
    BY <1>1, <1>3, <2>0, <2>3, CreateLinks, ExistsLinks, FillLinks
  <2>4. CASE \E p \in Proc : Open(p) \/ OpenCreated(p)
    BY <1>1, <2>0, <2>4, OpenLinks
  <2>5. CASE \E p \in Proc : Dup(p) \/ Close(p) \/ Write(p) \/ Read(p) \/ Fstat(p) \/ Fork(p)
                             \/ Exit(p) \/ ExitClose(p) \/ ExitCwd(p) \/ End(p)
    BY <1>1, <2>0, <2>5, QuietCallLinks
  <2>6. CASE \E p \in Proc : LinkCount(p) \/ LinkEnter(p) \/ LinkBad(p) \/ UnlinkCount(p)
    BY <1>1, <1>3, <2>0, <2>6, LinkCountLinks, LinkEnterLinks, LinkBadLinks
  <2>7. CASE \E p \in Proc : Unlink(p) \/ UnlinkEntry(p) \/ Chdir(p)
    BY <1>1, <2>0, <2>7, UnlinkLinks, UnlinkEntryLinks, ChdirLinks
  <2>8. CASE Crash \/ Reclaim \/ Booted
    BY <1>1, <2>0, <2>8, CrashLinks, ReclaimLinks, BootedLinks
  <2>9. CASE UNCHANGED vars
    BY <2>9, StandLinks DEF vars
  <2> QED
    BY <2>1, <2>2, <2>3, <2>4, <2>5, <2>6, <2>7, <2>8, <2>9 DEF Next
<1> QED
  BY <1>2, <1>3

(* The links of the first image: one name each, and one of a directory in each but the last. *)
LEMMA ShapeLinks ==
  ASSUME NEW n \in Nat, NEW dirs \in Seq(Names), n = Len(dirs), n < NINODES, Shape(disk, n, dirs)
  PROVE  /\ \A i \in Inum : disk.ino[i].nlink = Links(disk, i)
         /\ TreeDisk(disk)
<1>0. /\ ROOTINO = 1 /\ NINODES \in Nat /\ Inum = 1 .. NINODES /\ None = 0 /\ disk \in DiskType
      /\ \A k \in 1 .. n : dirs[k] \in Names
  BY FsAssumption DEF ROOTINO, Inum, None, Shape
<1>1. \A i \in Inum : i > n + 1 => disk.ino[i].nlink = 0 /\ disk.ino[i].type = "free" /\ \A m \in DirNames : disk.dir[i][m] = None
  BY ZeroType, NoEntriesType DEF Shape, Zero
<1>2. \A i \in Inum : i <= n + 1 =>
        /\ disk.ino[i].type = "dir" /\ disk.ino[i].nlink = (IF i > n THEN 1 ELSE 2)
        /\ disk.dir[i]["."] = i /\ disk.dir[i][".."] = (IF i = ROOTINO THEN i ELSE i - 1)
        /\ \A m \in Names : disk.dir[i][m] = (IF i <= n /\ m = dirs[i] THEN i + 1 ELSE None)
  BY DEF Shape
<1>3. \A d \in Inum, m \in Names :
        disk.dir[d][m] # None <=> d <= n /\ m = dirs[d]
  <2> SUFFICES ASSUME NEW d \in Inum, NEW m \in Names
               PROVE  disk.dir[d][m] # None <=> d <= n /\ m = dirs[d]
    OBVIOUS
  <2>1. m \in DirNames
    BY ConstFacts
  <2>2. CASE d > n + 1
    BY <1>0, <1>1, <2>1, <2>2
  <2>3. CASE d <= n + 1
    BY <1>0, <1>2, <2>3
  <2> QED
    BY <1>0, <2>2, <2>3
<1>4. \A d \in Inum : d <= n => dirs[d] \in Names /\ disk.dir[d][dirs[d]] = d + 1 /\ d + 1 \in Inum /\ disk.ino[d + 1].type = "dir"
                                 /\ disk.dir[d + 1][".."] = d
  BY <1>0, <1>2
<1>5. ASSUME NEW i \in Inum PROVE disk.ino[i].nlink = Links(disk, i)
  <2> DEFINE N == Cardinality(NamesOf(disk, i))
             S == Cardinality(SubdirsOf(disk, i))
             r == IF i = ROOTINO THEN 1 ELSE 0
  <2>1. Links(disk, i) = N + S + r
    BY DEF Links
  <2>2. N = IF i > 1 /\ i <= n + 1 THEN 1 ELSE 0
    <3>1. CASE i > 1 /\ i <= n + 1
      <4>1. i - 1 \in Inum /\ i - 1 <= n /\ (i - 1) + 1 = i
        BY <1>0, <3>1
      <4>2. \A d \in Inum, m \in Names : disk.dir[d][m] = i => d = i - 1 /\ m = dirs[i - 1]
        BY <1>0, <1>3, <1>4
      <4>3. disk.dir[i - 1][dirs[i - 1]] = i /\ dirs[i - 1] \in Names
        BY <1>4, <4>1
      <4>4. NamesOf(disk, i) = {<<i - 1, dirs[i - 1]>>}
        BY <4>1, <4>2, <4>3 DEF NamesOf
      <4> QED
        BY <3>1, <4>4, FS_Singleton
    <3>2. CASE ~(i > 1 /\ i <= n + 1)
      <4>1. \A d \in Inum, m \in Names : disk.dir[d][m] # i
        BY <1>0, <1>3, <1>4, <3>2
      <4>2. NamesOf(disk, i) = {}
        BY <4>1 DEF NamesOf
      <4> QED
        BY <3>2, <4>2, FS_EmptySet
    <3> QED
      BY <3>1, <3>2
  <2>3. S = IF i <= n THEN 1 ELSE 0
    <3>1. CASE i <= n
      <4>1. SubdirsOf(disk, i) = {dirs[i]}
        BY <1>0, <1>3, <1>4, <3>1 DEF SubdirsOf
      <4> QED
        BY <3>1, <4>1, FS_Singleton
    <3>2. CASE ~(i <= n)
      <4>1. SubdirsOf(disk, i) = {}
        BY <1>3, <3>2 DEF SubdirsOf
      <4> QED
        BY <3>2, <4>1, FS_EmptySet
    <3> QED
      BY <3>1, <3>2
  <2>4. disk.ino[i].nlink = IF i > n + 1 THEN 0 ELSE IF i > n THEN 1 ELSE 2
    BY <1>0, <1>1, <1>2
  <2> HIDE DEF N, S
  <2> QED
    BY <1>0, <2>1, <2>2, <2>3, <2>4
<1>6. TreeDisk(disk)
  <2>1. disk.dir[ROOTINO][".."] = ROOTINO /\ disk.ino[ROOTINO].type = "dir"
    BY <1>0, <1>2
  <2>2. \A d \in Inum, m \in Names : disk.dir[d][m] # ROOTINO
    BY <1>0, <1>3, <1>4
  <2>3. ASSUME NEW i \in Inum
        PROVE  /\ disk.dir[i]["."] \in {None, i}
               /\ disk.ino[i].type = "dir" /\ disk.ino[i].nlink > 0 => disk.dir[i]["."] = i /\ disk.dir[i][".."] # None
    <3>1. CASE i > n + 1
      BY <1>1, <3>1, ConstFacts
    <3>2. CASE i <= n + 1
      BY <1>0, <1>2, <3>2
    <3> QED
      BY <1>0, <3>1, <3>2
  <2>4. ASSUME NEW i \in Inum, NEW m \in Names, disk.dir[i][m] # None PROVE Named(disk, i)
    <3>1. i <= n
      BY <1>3, <2>4
    <3>2. CASE i = ROOTINO
      BY <3>2 DEF Named
    <3>3. CASE i # ROOTINO
      <4>1. i - 1 \in Inum /\ i - 1 <= n /\ (i - 1) + 1 = i
        BY <1>0, <3>1, <3>3
      <4>2. disk.dir[i - 1][dirs[i - 1]] = i /\ dirs[i - 1] \in Names
        BY <1>4, <4>1
      <4> QED
        BY <4>1, <4>2 DEF Named
    <3> QED
      BY <3>2, <3>3
  <2>5. \A i \in Inum : \A m \in SubdirsOf(disk, i) : disk.dir[disk.dir[i][m]][".."] = i
    BY <1>3, <1>4 DEF SubdirsOf
  <2> QED
    BY <2>1, <2>2, <2>3, <2>4, <2>5 DEF TreeDisk
<1> QED
  BY <1>5, <1>6

(* LinkInv holds at first. *)
LEMMA InitLinks ==
  ASSUME Init
  PROVE  LinkInv
<1>1. PICK dirs \in Nested : \E k \in Nat :
        /\ Shape(disk, k, dirs) /\ k = Len(dirs) /\ k < NINODES /\ dirs \in Seq(Names)
        /\ cwd = [p \in Proc |-> IF p = First THEN k + ROOTINO ELSE None]
  BY InitDisk
<1>2. PICK n \in Nat :
        /\ Shape(disk, n, dirs) /\ n = Len(dirs) /\ n < NINODES /\ dirs \in Seq(Names)
        /\ cwd = [p \in Proc |-> IF p = First THEN n + ROOTINO ELSE None]
  BY <1>1
<1>3. TreeDisk(disk) /\ \A i \in Inum : disk.ino[i].nlink = Links(disk, i)
  BY <1>2, ShapeLinks
<1>4. durable = disk /\ op = [p \in Proc |-> Idle] /\ freeing = [p \in Proc |-> "no"]
  BY DEF Init
<1>5. ASSUME NEW i \in Inum PROVE disk.ino[i].nlink = Links(disk, i) + Occ(Pending, i)
  <2>1. DOMAIN Pending = Proc /\ \A q \in Proc : Pending[q] # i
    BY <1>4, ConstFacts DEF Pending, Pends, Idle
  <2>2. Occ(Pending, i) = 0
    BY <2>1, FiniteFacts, OccSome
  <2>3. Links(disk, i) \in Nat
    BY LinkSets
  <2> QED
    BY <1>3, <2>2, <2>3
<1>6. \A p \in Proc : OpLinked(op[p])
  BY <1>4 DEF OpLinked, Idle
<1>7. n + ROOTINO \in Live
  <2>1. n + ROOTINO \in Inum /\ n + ROOTINO <= n + 1
    BY <1>2, FsAssumption DEF ROOTINO, Inum
  <2>2. disk.ino[n + ROOTINO].type = "dir"
    BY <1>2, <2>1 DEF Shape
  <2> QED
    BY <1>4, <2>1, <2>2 DEF Live, Dying
<1>8. \A p \in Proc : cwd[p] # None => cwd[p] \in Live
  BY <1>2, <1>7
<1> QED
  BY <1>3, <1>4, <1>5, <1>6, <1>8 DEF LinkInv

---------------------------------------------------------------------------
(* What the link layer shows.                                              *)

LinkedInv == Core /\ DiskInv /\ LinkInv

(* The three layers hold at first. *)
LEMMA LinkedInit == Init => LinkedInv
  BY InitCore, InitDiskInv, InitLinks DEF LinkedInv

(* Every step keeps the three layers. *)
LEMMA LinkedNext == LinkedInv /\ [Next]_vars => LinkedInv'
  BY NextCore, NextDisk, NextLink DEF LinkedInv

(* LinkCounts: whatever link(), unlink(), create() and mkdir() were in the
   middle of when the machine stopped, the counts on the disk are exact and
   every ".." leads to where the directory's name is: iupdate(), dirlink()
   and the group commit of end_op().                                       *)
THEOREM LinkCountsInvariant == Spec => []LinkCounts
<1>1. LinkedInv => LinkCounts
  BY DEF LinkedInv, LinkInv, LinkCounts, Links, TreeDisk
<1> QED
  BY <1>1, LinkedInit, LinkedNext, PTL DEF Spec

(* NoDanglingName: no name that a crash leaves leads to an inode that iput()
   or ireclaim() has freed.                                                *)
THEOREM NamesInvariant == Spec => []NoDanglingName
<1>1. LinkedInv => NoDanglingName
  <2> SUFFICES ASSUME LinkedInv, ~stray, NEW d \in Inum, NEW n \in Names, durable.dir[d][n] # None
               PROVE  durable.ino[durable.dir[d][n]].type # "free"
    BY DEF NoDanglingName
  <2> DEFINE x == durable.dir[d][n]
  <2>1. x \in Inum /\ CleanDisk(durable)
    BY ConstFacts DEF LinkedInv, Core, TypeOK, DiskType, DiskInv
  <2>2. durable.ino[x].nlink = Links(durable, x)
    BY <2>1 DEF LinkedInv, LinkInv
  <2>3. Links(durable, x) >= 1 /\ Links(durable, x) \in Nat
    BY NameCounts, LinkSets
  <2>4. durable.ino[x].nlink # 0
    BY <2>2, <2>3
  <2> QED
    BY <2>1, <2>4, ZeroType DEF CleanDisk
<1> QED
  BY <1>1, LinkedInit, LinkedNext, PTL DEF Spec

(* HeldIsAlive: nothing that an open file or a current directory refers to is
   freed under it, though its last name may be gone: the test of iput().   *)
THEOREM HeldInvariant == Spec => []HeldIsAlive
<1>1. LinkedInv => HeldIsAlive
  <2> SUFFICES ASSUME LinkedInv PROVE HeldIsAlive
    OBVIOUS
  <2>0. TypeOK /\ FileInv /\ AliveInv /\ LinkInv
    BY DEF LinkedInv, Core
  <2>1. ASSUME NEW f \in File, file[f].ref > 0 PROVE disk.ino[file[f].ip].type # "free"
    BY <2>0, <2>1 DEF FileInv, AliveInv, Live
  <2>2. ASSUME ~stray, NEW p \in alive, cwd[p] # None PROVE disk.ino[cwd[p]].type # "free"
    BY <2>0, <2>2 DEF LinkInv, Live, TypeOK
  <2> QED
    BY <2>1, <2>2 DEF HeldIsAlive
<1> QED
  BY <1>1, LinkedInit, LinkedNext, PTL DEF Spec

(* Reclaimed: ireclaim() leaves no inode without links behind. *)
THEOREM ReclaimInvariant == Spec => []Reclaimed
<1>1. Init => BootedInv
  BY DEF Init, BootedInv
<1>2. LinkedInv /\ BootedInv /\ [Next]_vars => BootedInv'
  BY NextBooted DEF LinkedInv
<1>3. LinkedInv /\ BootedInv => Reclaimed
  <2> SUFFICES ASSUME LinkedInv, BootedInv, boot = NINODES + 1, NEW i \in Inum, disk.ino[i].type # "free"
               PROVE  disk.ino[i].nlink # 0 /\ (~stray => disk.ino[i].nlink > 0)
    BY DEF Reclaimed
  <2>0. TypeOK /\ LinkInv
    BY DEF LinkedInv, Core
  <2>1. boot # None /\ i < boot
    BY FsAssumption DEF None, Inum
  <2>2. disk.ino[i].nlink # 0
    BY <2>1 DEF BootedInv
  <2>3. ASSUME ~stray PROVE disk.ino[i].nlink > 0
    <3>1. disk.ino[i].nlink \in Nat
      BY <2>0, <2>3, Counts
    <3> QED
      BY <2>2, <3>1
  <2> QED
    BY <2>2, <2>3
<1> QED
  BY <1>1, <1>2, <1>3, LinkedInit, LinkedNext, PTL DEF Spec

---------------------------------------------------------------------------
(* The assertions of the code.                                             *)

(* ilock() finds a free inode only by way of the ".." of a removed directory. *)
LEMMA LocksAlive ==
  ASSUME LinkedInv, ~stray, NEW p \in Proc, LockTarget(p) # None, Copy(LockTarget(p)).type = "free"
  PROVE  op[p].up
<1>0. TypeOK /\ CopyInv /\ OpLinked(op[p]) /\ OpAlive(op[p]) /\ op[p] \in OpType
  BY DEF LinkedInv, Core, LinkInv, AliveInv, TypeOK
<1>1. LockTarget(p) \in Inum
  BY <1>0 DEF LockTarget, OpType
<1>2. LockTarget(p) \notin Live
  BY <1>0, <1>1, CopyIsDisk DEF Live
<1>3. CASE LockTarget(p) = op[p].ip /\ op[p].pc \in {"walk", "create", "unlink", "open", "link1", "link2", "chdir"}
  BY <1>0, <1>2, <1>3 DEF OpLinked, OpAlive
<1>4. CASE LockTarget(p) = op[p].tgt /\ op[p].pc \in {"exists", "fill", "unlink2", "linkbad"}
  BY <1>0, <1>2, <1>4 DEF OpLinked, OpAlive
<1> QED
  BY <1>3, <1>4 DEF LockTarget

(* Every step starts where the kernel has not panicked, and few panic. *)
LEMMA PanicSteps ==
  ASSUME LinkedInv, Next
  PROVE  /\ panic = "no"
         /\ \/ panic' \in {"no", "iget: no inodes"}
            \/ (panic' = "unlink: nlink < 1" /\ stray')
            \/ \E p \in Proc : IlockPanic(p)
<1>0. Core /\ Good(disk) /\ TypeOK /\ TypeOK' /\ DiskInv /\ LinkInv
  BY LinkedNext DEF LinkedInv, Core, DiskInv, Good
<1>1. CASE \E p \in Proc : Call(p) \/ Namex(p) \/ Create(p) \/ LinkCount(p) \/ Unlink(p)
  <2>1. CASE \E p \in Proc : Call(p)
    BY <2>1 DEF Call, At
  <2>2. CASE \E p \in Proc : Namex(p)
    BY <2>2 DEF Namex, At
  <2>3. CASE \E p \in Proc : Create(p)
    BY <2>3 DEF Create, At
  <2>4. CASE \E p \in Proc : LinkCount(p)
    BY <2>4 DEF LinkCount, At
  <2>5. CASE \E p \in Proc : Unlink(p)
    BY <2>5 DEF Unlink, At
  <2> QED
    BY <1>1, <2>1, <2>2, <2>3, <2>4, <2>5
<1>2. CASE \E p \in Proc : Iput(p)
  BY <1>0, <1>2, IputCore DEF Iput
<1>3. CASE \E p \in Proc : IputFree(p)
  BY <1>0, <1>3, IputFreeGood DEF IputFree
<1>4. CASE Reclaim
  BY <1>0, <1>4, ReclaimFacts DEF Reclaim
<1>5. CASE \E p \in Proc : UnlinkEntry(p)
  <2>1. PICK p \in Proc : UnlinkEntry(p)
    BY <1>5
  <2>2. /\ panic = "no" /\ stray' = stray
        /\ panic' = "unlink: nlink < 1" \/ panic' = panic
    BY <2>1 DEF UnlinkEntry, At
  <2>3. ~stray => panic' = panic
    BY <1>0, <2>1, UnlinkEntryLinks
  <2> QED
    BY <2>2, <2>3
<1>6. CASE \E p \in Proc : NamexDone(p) \/ IputDrop(p) \/ CreateExists(p) \/ CreateFill(p) \/ Open(p) \/ OpenCreated(p) \/ Dup(p)
  BY <1>6 DEF NamexDone, IputDrop, CreateExists, CreateFill, Open, OpenCreated, Dup, At
<1>7. CASE \E p \in Proc : Close(p) \/ Write(p) \/ Read(p) \/ Fstat(p) \/ LinkEnter(p) \/ LinkBad(p) \/ UnlinkCount(p) \/ Chdir(p)
  BY <1>7 DEF Close, Write, Read, Fstat, LinkEnter, LinkBad, UnlinkCount, Chdir, At
<1>8. CASE \E p \in Proc : Fork(p) \/ Exit(p) \/ ExitClose(p) \/ ExitCwd(p) \/ End(p)
  BY <1>8 DEF Fork, Exit, ExitClose, ExitCwd, End, At
<1>9. CASE Crash \/ Booted
  BY <1>9 DEF Crash, Booted
<1>10. CASE \E p \in Proc : IlockPanic(p)
  BY <1>10 DEF IlockPanic
<1> QED
  BY <1>1, <1>2, <1>3, <1>4, <1>5, <1>6, <1>7, <1>8, <1>9, <1>10 DEF Next

(* OnlyDotDotPanics: iput() never frees a free block and never has to wait
   for a lock, unlink() never finds a name of an inode without links, and
   ilock() a free inode only by way of the ".." of a removed directory.    *)
THEOREM PanicInvariant == Spec => []OnlyDotDotPanics
<1>1. Init => OnlyDotDotPanics
  BY DEF Init, OnlyDotDotPanics
<1>2. LinkedInv /\ OnlyDotDotPanics /\ [Next]_vars => OnlyDotDotPanics'
  <2> SUFFICES ASSUME LinkedInv, OnlyDotDotPanics, [Next]_vars PROVE OnlyDotDotPanics'
    OBVIOUS
  <2>1. CASE UNCHANGED vars
    BY <2>1 DEF vars, OnlyDotDotPanics, LockTarget, Copy
  <2>2. CASE panic' \in {"no", "iget: no inodes"} \/ (panic' = "unlink: nlink < 1" /\ stray')
    BY <2>2 DEF OnlyDotDotPanics
  <2>3. CASE \E p \in Proc : IlockPanic(p)
    <3>1. PICK p \in Proc : IlockPanic(p)
      BY <2>3
    <3>2. /\ LockTarget(p) # None /\ Copy(LockTarget(p)).type = "free" /\ panic' = "ilock: no type"
          /\ op' = op /\ puts' = puts /\ mem' = mem /\ disk' = disk /\ stray' = stray
      BY <3>1 DEF IlockPanic
    <3>3. LockTarget(p)' = LockTarget(p) /\ Copy(LockTarget(p))' = Copy(LockTarget(p))
      BY <3>2 DEF LockTarget, Copy
    <3>4. stray \/ op[p].up
      BY <3>2, LocksAlive
    <3> QED
      BY <3>2, <3>3, <3>4 DEF OnlyDotDotPanics
  <2>4. CASE Next
    <3>1. \/ panic' \in {"no", "iget: no inodes"} \/ (panic' = "unlink: nlink < 1" /\ stray')
          \/ \E p \in Proc : IlockPanic(p)
      BY <2>4, PanicSteps
    <3> QED
      BY <2>2, <2>3, <3>1
  <2> QED
    BY <2>1, <2>4
<1> QED
  BY <1>1, <1>2, LinkedInit, LinkedNext, PTL DEF Spec

===========================================================================
