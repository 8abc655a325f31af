----------------------------- MODULE RespCache -----------------------------
(***************************************************************************)
(* The kernel's response cache (kernel/cache.c, the three system calls in  *)
(* kernel/sysproc.c) under the agents that use it through proxy_call()     *)
(* (user/proxy_client.h), and cacheclear().                                *)
(*                                                                         *)
(* A step is one hold of cache.lock, or one transaction under the lock of  *)
(* /cache.bin's inode.  Between its steps a call holds neither, and other  *)
(* agents' calls get in.                                                   *)
(*                                                                         *)
(* A record is what cache_slot holds: the role and prompt that make the    *)
(* key (cache_fnv1a() is taken to be collision free) and the value, which  *)
(* is the n-th answer the host gives to that role and prompt.              *)
(***************************************************************************)
EXTENDS Naturals, Sequences, FiniteSets

CONSTANTS
  Agent,     \* processes that call proxy_call()
  Query,     \* the [role, prompt] they ask
  Words,     \* the content words of each prompt, stopwords dropped
  Answers,   \* bound: different answers of the host to one query
  NSLOT,     \* CACHE_NSLOT
  MAXREC     \* records that fit into /cache.bin

ASSUME CacheAssumption ==
  /\ NSLOT \in Nat \ {0} /\ MAXREC \in Nat /\ Answers \in Nat \ {0}
  /\ \A q \in Query : /\ q = [role |-> q.role, prompt |-> q.prompt]
                        /\ q # [role |-> "", prompt |-> ""]
                        /\ q.prompt \in DOMAIN Words
  /\ Query # {}

SIG_K == 16
SIG_NUM == 2
SIG_DEN == 5

Empty == [role |-> "", prompt |-> "", n |-> 0]
Record == {[role |-> q.role, prompt |-> q.prompt, n |-> i] : q \in Query, i \in 1 .. Answers}

VARIABLES
  slot,       \* cache.slot[]
  disk,       \* /cache.bin
  apc,         \* where in proxy_call() each agent is
  query,      \* what it asks
  rec,        \* the record it has in hand
  overlapped, \* history: a call began before another agent's call was over
  lost        \* history: an append failed

cachevars == <<slot, disk, apc, query, rec, overlapped, lost>>

Key(r) == [role |-> r.role, prompt |-> r.prompt]

(* The positions in which two MinHash signatures agree: the share of the   *)
(* words the prompts have in common.  Without words all positions do.      *)
sig_match(p, q) ==
  IF Words[p] \cup Words[q] = {} THEN SIG_K
  ELSE (SIG_K * Cardinality(Words[p] \cap Words[q])) \div Cardinality(Words[p] \cup Words[q])

sig_over_threshold(m) == m * SIG_DEN >= SIG_NUM * SIG_K

(* Mutant: the role is not compared. *)
AnyRole(q, s, i) ==
  LET here == {j \in DOMAIN s : s[j] # Empty}
  IN /\ i \in here
     /\ sig_over_threshold(sig_match(q.prompt, s[i].prompt))
     /\ \A j \in here : \/ sig_match(q.prompt, s[j].prompt) < sig_match(q.prompt, s[i].prompt)
                        \/ sig_match(q.prompt, s[j].prompt) = sig_match(q.prompt, s[i].prompt)
                             /\ i <= j

(* i is the semantic hit for q among the records s: the first of those of  *)
(* the role with the best match, if that is over the threshold.            *)
SemanticHit(q, s, i) ==
  LET here == {j \in DOMAIN s : s[j] # Empty /\ s[j].role = q.role}
  IN /\ i \in here
     /\ sig_over_threshold(sig_match(q.prompt, s[i].prompt))
     /\ \A j \in here : \/ sig_match(q.prompt, s[j].prompt) < sig_match(q.prompt, s[i].prompt)
                        \/ sig_match(q.prompt, s[j].prompt) = sig_match(q.prompt, s[i].prompt)
                             /\ i <= j

(* The RAM slots, or the records of the file, with q's key. *)
Exact(q, s) == {i \in DOMAIN s : Key(s[i]) = q}

LastOf(S) == CHOOSE i \in S : \A j \in S : j <= i
FirstOf(S) == CHOOSE i \in S : \A j \in S : i <= j

Free == {i \in 1 .. NSLOT : slot[i] = Empty}

(* ram_put(): the slot with the key, else the first empty one, else none.  *)
ram_put(r) ==
  slot' = IF Exact(Key(r), slot) # {} THEN [slot EXCEPT ![FirstOf(Exact(Key(r), slot))] = r]
          ELSE IF Free # {} THEN [slot EXCEPT ![FirstOf(Free)] = r]
          ELSE slot

---------------------------------------------------------------------------
CacheInit ==
  /\ slot = [i \in 1 .. NSLOT |-> Empty]
  /\ disk = <<>>
  /\ apc = [a \in Agent |-> "idle"]
  /\ query = [a \in Agent |-> CHOOSE q \in Query : TRUE]
  /\ rec = [a \in Agent |-> Empty]
  /\ overlapped = FALSE
  /\ lost = FALSE

InCall == {"scan", "promote", "append", "truncate"}

(* A call of agent a begins. *)
Begin(a) == overlapped' = (overlapped \/ \E b \in Agent \ {a} : apc[b] \in InCall)

Goto(a, l) == apc' = [apc EXCEPT ![a] = l]

Hit(a, r) == Goto(a, "hit") /\ rec' = [rec EXCEPT ![a] = r]

(* cache_get() under cache.lock: exact, then semantic, then the disk. *)
GetRam(a, q) ==
  /\ apc[a] = "idle"
  /\ query' = [query EXCEPT ![a] = q]
  /\ Begin(a)
  /\ \/ \E i \in Exact(q, slot) : Hit(a, slot[i])
     \/ /\ Exact(q, slot) = {}
        /\ \E i \in 1 .. NSLOT : SemanticHit(q, slot, i) /\ Hit(a, slot[i])
     \/ /\ Exact(q, slot) = {}
        /\ \A i \in 1 .. NSLOT : ~SemanticHit(q, slot, i)
        /\ Goto(a, "scan") /\ UNCHANGED rec
  /\ UNCHANGED <<slot, disk, lost>>

(* cache_disk_scan(): the last record of the key, else a semantic hit. *)
Scan(a) ==
  /\ apc[a] = "scan"
  /\ LET q == query[a] IN
     \/ /\ Exact(q, disk) # {}
        /\ Goto(a, "promote") /\ rec' = [rec EXCEPT ![a] = disk[LastOf(Exact(q, disk))]]
     \/ /\ Exact(q, disk) = {}
        /\ \E i \in DOMAIN disk :
             /\ SemanticHit(q, disk, i)
             /\ Goto(a, "promote") /\ rec' = [rec EXCEPT ![a] = disk[i]]
     \/ /\ Exact(q, disk) = {}
        /\ \A i \in DOMAIN disk : ~SemanticHit(q, disk, i)
        /\ Goto(a, "host") /\ UNCHANGED rec
  /\ UNCHANGED <<slot, disk, query, overlapped, lost>>

(* The hit goes back into RAM, under cache.lock. *)
Promote(a) ==
  /\ apc[a] = "promote"
  /\ ram_put(rec[a])
  /\ Goto(a, "hit")
  /\ UNCHANGED <<disk, query, rec, overlapped, lost>>

(* proxy_call() returns. *)
Return(a) ==
  /\ apc[a] = "hit"
  /\ Goto(a, "idle")
  /\ rec' = [rec EXCEPT ![a] = Empty]
  /\ UNCHANGED <<slot, disk, query, overlapped, lost>>

(* PROXY_REQ, PROXY_RES: the host answers. *)
Answer(a, n) ==
  /\ apc[a] = "host"
  /\ rec' = [rec EXCEPT ![a] = [role |-> query[a].role, prompt |-> query[a].prompt, n |-> n]]
  /\ Goto(a, "set")
  /\ UNCHANGED <<slot, disk, query, overlapped, lost>>

(* proxy_recv() fails, or the answer is too long for cacheset()'s argstr().*)
NoAnswer(a) ==
  /\ apc[a] = "host"
  /\ Goto(a, "idle")
  /\ UNCHANGED <<slot, disk, query, rec, overlapped, lost>>

(* cache_set() under cache.lock; a full table ends the call. *)
SetRam(a) ==
  /\ apc[a] = "set"
  /\ Begin(a)
  /\ IF Exact(Key(rec[a]), slot) # {} \/ Free # {}
     THEN ram_put(rec[a]) /\ Goto(a, "append") /\ UNCHANGED rec
     ELSE Goto(a, "idle") /\ rec' = [rec EXCEPT ![a] = Empty] /\ UNCHANGED slot
  /\ UNCHANGED <<disk, query, lost>>

(* Mutant: a key the file has already is not written again. *)
OnceAppend(a) ==
  /\ apc[a] = "append"
  /\ disk' = IF Len(disk) < MAXREC /\ Exact(Key(rec[a]), disk) = {} THEN Append(disk, rec[a]) ELSE disk
  /\ lost' = (lost \/ Len(disk) = MAXREC)
  /\ Goto(a, "idle") /\ rec' = [rec EXCEPT ![a] = Empty]
  /\ UNCHANGED <<slot, query, overlapped>>

(* cache_disk_append(), which writei() refuses once the file is full. *)
DiskAppend(a) ==
  /\ apc[a] = "append"
  /\ disk' = IF Len(disk) < MAXREC THEN Append(disk, rec[a]) ELSE disk
  /\ lost' = (lost \/ Len(disk) = MAXREC)
  /\ Goto(a, "idle") /\ rec' = [rec EXCEPT ![a] = Empty]
  /\ UNCHANGED <<slot, query, overlapped>>

(* The file is gone or the disk full: the size is rolled back, and the     *)
(* caller is not told.                                                     *)
AppendFails(a) ==
  /\ apc[a] = "append"
  /\ lost' = TRUE
  /\ Goto(a, "idle") /\ rec' = [rec EXCEPT ![a] = Empty]
  /\ UNCHANGED <<slot, disk, query, overlapped>>

(* cache_clear(): the slots, then, if asked to, the file. *)
ClearRam(a, withDisk) ==
  /\ apc[a] = "idle"
  /\ Begin(a)
  /\ slot' = [i \in 1 .. NSLOT |-> Empty]
  /\ Goto(a, IF withDisk THEN "truncate" ELSE "idle")
  /\ UNCHANGED <<disk, query, rec, lost>>

Truncate(a) ==
  /\ apc[a] = "truncate"
  /\ disk' = <<>>
  /\ Goto(a, "idle")
  /\ UNCHANGED <<slot, query, rec, overlapped, lost>>

(* The machine is restarted; RAM is empty and every process gone. *)
Reboot ==
  /\ slot' = [i \in 1 .. NSLOT |-> Empty]
  /\ apc' = [a \in Agent |-> "idle"]
  /\ rec' = [a \in Agent |-> Empty]
  /\ UNCHANGED <<disk, query, overlapped, lost>>

CacheNext ==
  \/ \E a \in Agent :
       \/ \E q \in Query : GetRam(a, q)
       \/ Scan(a) \/ Promote(a) \/ Return(a)
       \/ \E n \in 1 .. Answers : Answer(a, n)
       \/ NoAnswer(a) \/ SetRam(a) \/ DiskAppend(a) \/ AppendFails(a)
       \/ \E withDisk \in BOOLEAN : ClearRam(a, withDisk)
       \/ Truncate(a)
  \/ Reboot

CacheSpec == CacheInit /\ [][CacheNext]_cachevars

---------------------------------------------------------------------------
CacheTypeOK ==
  /\ slot \in [1 .. NSLOT -> Record \cup {Empty}]
  /\ disk \in Seq(Record) /\ Len(disk) <= MAXREC
  /\ apc \in [Agent -> InCall \cup {"idle", "host", "set", "hit"}]
  /\ query \in [Agent -> Query]
  /\ rec \in [Agent -> Record \cup {Empty}]
  /\ overlapped \in BOOLEAN
  /\ lost \in BOOLEAN

(* ram_put(): however sets and promotions interleave, no key is in RAM     *)
(* twice.                                                                  *)
UniqueKeys ==
  \A i, j \in 1 .. NSLOT : slot[i] # Empty /\ Key(slot[i]) = Key(slot[j]) => i = j

(* cache_get(): an agent is served what the host answered to its own role, *)
(* for its own prompt or one over the threshold.                           *)
GenuineHit ==
  \A a \in Agent : apc[a] = "hit" =>
    /\ rec[a].role = query[a].role
    /\ \/ rec[a].prompt = query[a].prompt
       \/ sig_over_threshold(sig_match(query[a].prompt, rec[a].prompt))

Quiet == \A a \in Agent : apc[a] \notin InCall

(* cache_set(): "This makes the cache survive RAM-slot eviction / reboot": *)
(* if no two calls overlapped and no append failed, everything RAM serves  *)
(* is on disk too when no call is in progress.                             *)
RamIsOnDisk ==
  Quiet /\ ~overlapped /\ ~lost =>
    \A i \in 1 .. NSLOT : slot[i] # Empty => \E j \in DOMAIN disk : disk[j] = slot[i]

(* cache_disk_scan(): "Last write wins for exact-key matches": under the   *)
(* same conditions RAM serves the last record of its key.                  *)
LastWriteWins ==
  Quiet /\ ~overlapped /\ ~lost =>
    \A i \in 1 .. NSLOT : slot[i] # Empty =>
      slot[i] = disk[LastOf(Exact(Key(slot[i]), disk))]

---------------------------------------------------------------------------
(* The parts of the inductive invariant *)

(* The record in hand answers the query; one that is set or appended is an *)
(* answer to it.                                                           *)
Serves(a) ==
  /\ rec[a].role = query[a].role
  /\ \/ rec[a].prompt = query[a].prompt
     \/ sig_over_threshold(sig_match(query[a].prompt, rec[a].prompt))

HandInv ==
  \A a \in Agent : /\ apc[a] \in {"promote", "hit"} => Serves(a)
                   /\ apc[a] \in {"promote", "set", "append"} => rec[a] # Empty

OnDisk(r) == \E j \in DOMAIN disk : disk[j] = r

(* As long as no calls overlap and no append fails: one call at a time,    *)
(* what it promotes is on disk, what it is to append is the one slot that  *)
(* is not, and RAM stays empty until the file is.                          *)
AloneInv ==
  ~overlapped /\ ~lost =>
    /\ \A a, b \in Agent : apc[a] \in InCall /\ apc[b] \in InCall => a = b
    /\ \A i \in 1 .. NSLOT : slot[i] # Empty =>
         OnDisk(slot[i]) \/ \E a \in Agent : apc[a] = "append" /\ rec[a] = slot[i]
    /\ \A a \in Agent : apc[a] = "promote" => OnDisk(rec[a])
    /\ \A a \in Agent : apc[a] = "truncate" => \A i \in 1 .. NSLOT : slot[i] = Empty

CacheIInv == CacheTypeOK /\ HandInv /\ AloneInv /\ UniqueKeys
=============================================================================
