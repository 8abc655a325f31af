---------------------------- MODULE AgentProofs ----------------------------
(***************************************************************************)
(* The agents: the pipes between them, whatever the shell or triage makes  *)
(* of them and whoever is killed; the verdict and its correction, for      *)
(* every proposal with integer fields; and any number of evaluators and    *)
(* other users of the one checkpoint slot.  Every pipe is a byte stream    *)
(* and lives as long as its files; what is accepted and what is rolled     *)
(* back to is always safe, and the slot only ever gives an evaluator what  *)
(* it put there itself.                                                    *)
(***************************************************************************)
EXTENDS Pipeline, Evaluator, VerdictLoop, FiniteSetTheorems, SequenceTheorems, WellFoundedInduction, TLAPS

---------------------------------------------------------------------------
(* Remainders.                                                             *)

Rem(x, n) == x % n

(* Division with remainder, for numbers that have names. *)
LEMMA DivNamed ==
  ASSUME NEW n \in Int, n > 0, NEW x \in Int, NEW d \in Int, d = x \div n, NEW r \in Int, r = x % n
  PROVE  x = n * d + r
  BY SMT

(* Every number is a multiple of n and a remainder. *)
LEMMA Divides ==
  ASSUME NEW n \in Nat, n > 0, NEW x \in Nat
  PROVE  \E d \in Nat : x = n * d + Rem(x, n) /\ Rem(x, n) \in 0 .. n - 1
<1>1. Rem(x, n) \in 0 .. n - 1
  BY DEF Rem
<1>2. x \div n \in Int
  OBVIOUS
<1> DEFINE d == x \div n
           r == Rem(x, n)
<1>3. n \in Int /\ x \in Int /\ d \in Int /\ r \in Int
  BY <1>1, <1>2
<1>4. x = n * d + r
  BY <1>3, DivNamed DEF Rem
<1>5. r \in 0 .. n - 1
  BY <1>1
<1> HIDE DEF d, r
<1>6. d >= 0
  <2>1. ASSUME d < 0 PROVE FALSE
    <3>1. -1 - d \in Nat
      BY <1>3, <2>1
    <3>2. n * (-1 - d) >= 0
      BY <3>1
    <3>3. n * (-1 - d) = -n - n * d /\ n * d \in Int
      BY <1>3
    <3> QED
      BY <1>3, <1>4, <1>5, <3>2, <3>3
  <2> QED
    BY <1>3, <2>1
<1>7. d \in Nat
  BY <1>3, <1>6
<1> QED
  BY <1>4, <1>5, <1>7 DEF r

(* Multiples of n are at least n apart. *)
LEMMA Multiples ==
  ASSUME NEW n \in Nat, NEW a \in Nat, NEW b \in Nat, a > b
  PROVE  n * a >= n * b + n
<1>1. n * (a - b - 1) >= 0
  OBVIOUS
<1>2. n * (a - b - 1) = n * a - n * b - n
  OBVIOUS
<1>3. n * a \in Nat /\ n * b \in Nat
  OBVIOUS
<1> QED
  BY <1>1, <1>2, <1>3

(* There is one way to write a number as a multiple and a remainder. *)
LEMMA OneQuotient ==
  ASSUME NEW n \in Nat, n > 0, NEW a \in Nat, NEW b \in Nat, NEW r \in 0 .. n - 1, NEW s \in 0 .. n - 1,
         n * a + r = n * b + s
  PROVE  a = b /\ r = s
<1>0. n * a \in Nat /\ n * b \in Nat
  OBVIOUS
<1>1. CASE a > b
  BY <1>0, <1>1, Multiples
<1>2. CASE b > a
  BY <1>0, <1>2, Multiples
<1>3. CASE a = b
  BY <1>0, <1>3
<1> QED
  BY <1>1, <1>2, <1>3

(* ... so that the remainder is the one that % gives. *)
LEMMA RemIs ==
  ASSUME NEW n \in Nat, n > 0, NEW a \in Nat, NEW r \in 0 .. n - 1, NEW x \in Nat, x = n * a + r
  PROVE  Rem(x, n) = r
<1> DEFINE s == Rem(x, n)
<1>1. PICK b \in Nat : x = n * b + s /\ s \in 0 .. n - 1
  BY Divides
<1> HIDE DEF s
<1>2. n * a + r = n * b + s
  BY <1>1
<1>3. s = r
  BY <1>1, <1>2, OneQuotient
<1> QED
  BY <1>3 DEF s

(* The same, with the hypotheses in one formula. *)
LEMMA RemIsAll ==
  \A n, a, r, x : n \in Nat /\ n > 0 /\ x \in Nat /\ a \in Nat /\ x = n * a + r /\ r \in 0 .. n - 1
                   => Rem(x, n) = r
<1> TAKE n, a, r, x
<1> HAVE n \in Nat /\ n > 0 /\ x \in Nat /\ a \in Nat /\ x = n * a + r /\ r \in 0 .. n - 1
<1>1. n > 0
  OBVIOUS
<1> QED
  BY <1>1, RemIs

(* A multiple of n more changes no remainder. *)
LEMMA RemTurn ==
  ASSUME NEW n \in Nat, n > 0, NEW u \in Nat, Rem(u, n) = 0, NEW x \in Nat
  PROVE  Rem(x + u, n) = Rem(x, n)
<1> DEFINE r == Rem(x, n)
<1>1. PICK a \in Nat : x = n * a + r /\ r \in 0 .. n - 1
  BY Divides
<1>2. PICK b \in Nat : u = n * b + 0
  BY Divides
<1> HIDE DEF r
<1>3. x + u = n * (a + b) + r /\ a + b \in Nat /\ x + u \in Nat
  <2>1. n * (a + b) = n * a + n * b
    OBVIOUS
  <2>2. n * a \in Nat /\ n * b \in Nat /\ n * (a + b) \in Nat
    OBVIOUS
  <2> QED
    BY <1>1, <1>2, <2>1, <2>2
<1>4. Rem(x + u, n) = r
  <2> DEFINE y == x + u
             c == a + b
  <2>1. n \in Nat /\ n > 0 /\ y \in Nat /\ c \in Nat /\ y = n * c + r /\ r \in 0 .. n - 1
    BY <1>1, <1>3
  <2> HIDE DEF y, c
  <2>2. Rem(y, n) = r
    BY <2>1, RemIsAll, Zenon
  <2> QED
    BY <2>2 DEF y
<1> QED
  BY <1>4 DEF r

(* Less than n more changes it. *)
LEMMA RemMoves ==
  ASSUME NEW n \in Nat, n > 0, NEW x \in Nat, NEW k \in Nat, k > 0, k < n
  PROVE  Rem(x + k, n) # Rem(x, n)
<1> DEFINE r == Rem(x, n)
           s == Rem(x + k, n)
<1>1. PICK a \in Nat : x = n * a + r /\ r \in 0 .. n - 1
  BY Divides
<1>2. PICK b \in Nat : x + k = n * b + s /\ s \in 0 .. n - 1
  <2>1. x + k \in Nat
    OBVIOUS
  <2> QED
    BY <2>1, Divides
<1> HIDE DEF r, s
<1>3. n * a \in Nat /\ n * b \in Nat
  OBVIOUS
<1>4. SUFFICES ASSUME r = s PROVE FALSE
  BY DEF r, s
<1>5. n * b = n * a + k
  BY <1>1, <1>2, <1>3, <1>4
<1>6. n * a + k = n * b + 0 /\ k \in 0 .. n - 1 /\ 0 \in 0 .. n - 1
  BY <1>3, <1>5
<1> QED
  BY <1>6, OneQuotient

---------------------------------------------------------------------------
(* The ring.                                                               *)

(* What PipeAssumption says of the sizes. *)
LEMMA Sizes ==
  /\ PIPESIZE \in Nat /\ PIPESIZE > 0 /\ UINT \in Nat /\ PIPESIZE < UINT /\ Rem(UINT, PIPESIZE) = 0
  /\ NFILE \in Nat /\ NFILE > 0 /\ NOFILE \in Nat /\ NOFILE > 2 /\ NPIPE \in Nat /\ STAGES \in Nat /\ STAGES > 0
  BY PipeAssumption DEF Rem

(* A counter that goes on, before and after it wraps. *)
LEMMA Adds ==
  ASSUME NEW a \in 0 .. UINT - 1, NEW k \in 0 .. UINT - 1
  PROVE  /\ Add(a, k) \in 0 .. UINT - 1
         /\ Add(a, k) = IF a + k < UINT THEN a + k ELSE a + k - UINT
<1>1. CASE a + k < UINT
  BY <1>1, Sizes DEF Add
<1>2. CASE a + k >= UINT
  <2>1. a + k \in UINT .. 2 * UINT - 1
    BY <1>2, Sizes
  <2> QED
    BY <1>2, <2>1, Sizes DEF Add
<1> QED
  BY <1>1, <1>2, Sizes

(* A ring whose counters are in order. *)
PipeType ==
  [used : BOOLEAN, nread : 0 .. UINT - 1, nwrite : 0 .. UINT - 1, data : [0 .. PIPESIZE - 1 -> Nat],
   readopen : BOOLEAN, writeopen : BOOLEAN]
Ring(P) == P \in PipeType /\ Fill(P) <= PIPESIZE

(* nwrite is ahead of nread by the number of bytes. *)
LEMMA Fills ==
  ASSUME NEW P \in PipeType
  PROVE  /\ Fill(P) \in 0 .. UINT - 1
         /\ Fill(P) = IF P.nread <= P.nwrite THEN P.nwrite - P.nread ELSE P.nwrite + UINT - P.nread
         /\ P.nwrite = Add(P.nread, Fill(P))
         /\ Fill(P) = 0 <=> P.nread = P.nwrite
<1> DEFINE r == P.nread
           w == P.nwrite
<1>0. r \in 0 .. UINT - 1 /\ w \in 0 .. UINT - 1
  BY DEF PipeType
<1>1. Fill(P) = (w + UINT - r) % UINT
  BY DEF Fill
<1> HIDE DEF r, w
<1>2. Fill(P) = IF r <= w THEN w - r ELSE w + UINT - r
  <2>1. CASE r <= w
    <3>1. w + UINT - r \in UINT .. 2 * UINT - 1
      BY <1>0, <2>1, Sizes
    <3> QED
      BY <1>0, <1>1, <2>1, <3>1, Sizes
  <2>2. CASE ~(r <= w)
    <3>1. w + UINT - r \in 0 .. UINT - 1
      BY <1>0, <2>2, Sizes
    <3> QED
      BY <1>0, <1>1, <2>2, <3>1, Sizes
  <2> QED
    BY <2>1, <2>2
<1>3. Fill(P) \in 0 .. UINT - 1
  BY <1>0, <1>2, Sizes
<1>4. w = Add(r, Fill(P))
  <2> DEFINE f == Fill(P)
  <2>1. f \in 0 .. UINT - 1 /\ f = IF r <= w THEN w - r ELSE w + UINT - r
    BY <1>2, <1>3
  <2> HIDE DEF f
  <2>2. Add(r, f) = IF r + f < UINT THEN r + f ELSE r + f - UINT
    BY <1>0, <2>1, Adds
  <2>3. w = Add(r, f)
    BY <1>0, <2>1, <2>2, Sizes
  <2> QED
    BY <2>3 DEF f
<1>5. Fill(P) = 0 <=> r = w
  BY <1>0, <1>2, Sizes
<1> QED
  BY <1>2, <1>3, <1>4, <1>5 DEF r, w

(* ... and nothing else is. *)
LEMMA FillFrom ==
  ASSUME NEW P \in PipeType, NEW k \in 0 .. UINT - 1, P.nwrite = Add(P.nread, k)
  PROVE  Fill(P) = k
<1> DEFINE r == P.nread
           w == P.nwrite
           f == Fill(P)
<1>1. /\ r \in 0 .. UINT - 1 /\ w \in 0 .. UINT - 1 /\ w = Add(r, k)
      /\ f = IF r <= w THEN w - r ELSE w + UINT - r
  BY Fills DEF PipeType
<1> HIDE DEF r, w, f
<1>2. w = IF r + k < UINT THEN r + k ELSE r + k - UINT
  BY <1>1, Adds
<1>3. f = k
  BY <1>1, <1>2, Sizes
<1> QED
  BY <1>3 DEF f

(* Two advances are one. *)
LEMMA AddAdd ==
  ASSUME NEW a \in 0 .. UINT - 1, NEW j \in 0 .. UINT - 1, NEW k \in 0 .. UINT - 1, j + k < UINT
  PROVE  Add(Add(a, j), k) = Add(a, j + k)
<1> DEFINE b == Add(a, j)
<1>1. b \in 0 .. UINT - 1 /\ b = IF a + j < UINT THEN a + j ELSE a + j - UINT
  BY Adds
<1> HIDE DEF b
<1>2. Add(b, k) = IF b + k < UINT THEN b + k ELSE b + k - UINT
  BY <1>1, Adds
<1>3. j + k \in 0 .. UINT - 1
  BY Sizes
<1>4. Add(a, j + k) = IF a + (j + k) < UINT THEN a + (j + k) ELSE a + (j + k) - UINT
  <2> DEFINE m == j + k
  <2>1. m \in 0 .. UINT - 1
    BY <1>3
  <2> HIDE DEF m
  <2>2. Add(a, m) = IF a + m < UINT THEN a + m ELSE a + m - UINT
    BY <2>1, Adds
  <2> QED
    BY <2>2 DEF m
<1>5. Add(b, k) = Add(a, j + k)
  BY <1>1, <1>2, <1>4, Sizes
<1> QED
  BY <1>5 DEF b

(* The slot of the byte at distance k from a. *)
SlotOf(a, k) == Add(a, k) % PIPESIZE

(* Going round the counter does not change the slot, as PIPESIZE divides UINT. *)
LEMMA SlotRem ==
  ASSUME NEW a \in 0 .. UINT - 1, NEW k \in 0 .. UINT - 1
  PROVE  SlotOf(a, k) = Rem(a + k, PIPESIZE) /\ SlotOf(a, k) \in 0 .. PIPESIZE - 1
<1> DEFINE b == Add(a, k)
<1>1. b \in 0 .. UINT - 1 /\ b = IF a + k < UINT THEN a + k ELSE a + k - UINT
  BY Adds
<1>2. SlotOf(a, k) = Rem(b, PIPESIZE)
  BY DEF SlotOf, Rem
<1> HIDE DEF b
<1>3. Rem(b, PIPESIZE) \in 0 .. PIPESIZE - 1
  BY <1>1, Sizes DEF Rem
<1>4. CASE a + k < UINT
  BY <1>1, <1>2, <1>3, <1>4
<1>5. CASE ~(a + k < UINT)
  <2>1. b \in Nat /\ a + k = b + UINT
    BY <1>1, <1>5, Sizes
  <2>2. Rem(b + UINT, PIPESIZE) = Rem(b, PIPESIZE)
    BY <2>1, Sizes, RemTurn
  <2> QED
    BY <1>2, <1>3, <2>1, <2>2
<1> QED
  BY <1>4, <1>5

(* Bytes less than PIPESIZE apart have slots of their own. *)
LEMMA SlotsApart ==
  ASSUME NEW a \in 0 .. UINT - 1, NEW j \in 0 .. PIPESIZE - 1, NEW k \in 0 .. PIPESIZE - 1, j # k
  PROVE  SlotOf(a, j) # SlotOf(a, k)
<1>1. ASSUME NEW m \in 0 .. PIPESIZE - 1, NEW n \in 0 .. PIPESIZE - 1, m < n
      PROVE  SlotOf(a, m) # SlotOf(a, n)
  <2> DEFINE x == a + m
             d == n - m
  <2>1. x \in Nat /\ d \in Nat /\ d > 0 /\ d < PIPESIZE /\ a + n = x + d /\ a + m = x
    BY <1>1, Sizes
  <2>2. SlotOf(a, m) = Rem(a + m, PIPESIZE) /\ SlotOf(a, n) = Rem(a + n, PIPESIZE)
    BY Sizes, SlotRem
  <2> HIDE DEF x, d
  <2>3. Rem(x + d, PIPESIZE) # Rem(x, PIPESIZE)
    BY <2>1, Sizes, RemMoves
  <2> QED
    BY <2>1, <2>2, <2>3
<1> QED
  BY <1>1, Sizes

(* A function on 1 .. n is a sequence. *)
LEMMA FunIsSeq ==
  ASSUME NEW S, NEW n \in Nat, NEW s \in [1 .. n -> S]
  PROVE  s \in Seq(S) /\ Len(s) = n /\ (n = 0 => s = <<>>)
<1>1. s \in Seq(S)
  BY SeqDef
<1>2. Len(s) = n
  BY <1>1, LenProperties
<1> QED
  BY <1>1, <1>2, EmptySeq

(* What is in a ring is a sequence. *)
LEMMA BytesType ==
  ASSUME NEW P, Ring(P)
  PROVE  /\ Bytes(P) \in Seq(Nat) /\ Len(Bytes(P)) = Fill(P) /\ Fill(P) \in 0 .. PIPESIZE
         /\ \A n \in 1 .. Fill(P) : Bytes(P)[n] = P.data[SlotOf(P.nread, n - 1)]
         /\ P.nread = P.nwrite <=> Bytes(P) = <<>>
<1> DEFINE f == Fill(P)
           s == Bytes(P)
<1>1. P.nread \in 0 .. UINT - 1 /\ f \in 0 .. PIPESIZE /\ P.data \in [0 .. PIPESIZE - 1 -> Nat]
  BY Fills, Sizes DEF Ring, PipeType
<1>2. s = [n \in 1 .. f |-> P.data[SlotOf(P.nread, n - 1)]]
  BY DEF Bytes, SlotOf
<1>3. ASSUME NEW n \in 1 .. f PROVE P.data[SlotOf(P.nread, n - 1)] \in Nat
  <2>1. n - 1 \in 0 .. UINT - 1
    BY <1>1, Sizes
  <2>2. SlotOf(P.nread, n - 1) \in 0 .. PIPESIZE - 1
    BY <1>1, <2>1, SlotRem
  <2> QED
    BY <1>1, <2>2
<1>4. P.nread = P.nwrite <=> f = 0
  BY Fills DEF Ring
<1> HIDE DEF s, f
<1>5. s \in [1 .. f -> Nat] /\ f \in Nat
  BY <1>1, <1>2, <1>3
<1>6. s \in Seq(Nat) /\ Len(s) = f /\ (f = 0 => s = <<>>)
  BY <1>5, FunIsSeq
<1>7. s = <<>> => f = 0
  BY <1>6, EmptySeq
<1>8. \A n \in 1 .. f : s[n] = P.data[SlotOf(P.nread, n - 1)]
  BY <1>2
<1> QED
  BY <1>1, <1>4, <1>6, <1>7, <1>8 DEF s, f

(* A byte is taken out. *)
LEMMA RingTake ==
  ASSUME NEW P, Ring(P), P.nread # P.nwrite, NEW Q, Q = [P EXCEPT !.nread = Add(@, 1)]
  PROVE  Ring(Q) /\ Bytes(P) # <<>> /\ Bytes(Q) = Tail(Bytes(P))
<1> DEFINE f == Fill(P)
           r == P.nread
<1>1. /\ P \in PipeType /\ f \in 0 .. UINT - 1 /\ f <= PIPESIZE /\ f # 0 /\ P.nwrite = Add(r, f)
      /\ r \in 0 .. UINT - 1
  BY Fills DEF Ring, PipeType
<1>2. Add(r, 1) \in 0 .. UINT - 1
  <2>1. 1 \in 0 .. UINT - 1
    BY Sizes
  <2> QED
    BY <1>1, <2>1, Adds
<1>3. Q \in PipeType /\ Q.nread = Add(r, 1) /\ Q.nwrite = P.nwrite /\ Q.data = P.data
  BY <1>1, <1>2 DEF PipeType
<1> HIDE DEF f, r
<1>4. Fill(Q) = f - 1
  <2>1. f - 1 \in 0 .. UINT - 1 /\ 1 \in 0 .. UINT - 1 /\ 1 + (f - 1) < UINT /\ 1 + (f - 1) = f
    BY <1>1, Sizes
  <2>2. Add(Add(r, 1), f - 1) = Add(r, f)
    BY <1>1, <2>1, AddAdd
  <2> QED
    BY <1>1, <1>3, <2>1, <2>2, FillFrom
<1>5. Ring(Q)
  BY <1>1, <1>3, <1>4, Sizes DEF Ring
<1>6. ASSUME NEW n \in 1 .. f - 1 PROVE SlotOf(Q.nread, n - 1) = SlotOf(r, (n + 1) - 1)
  <2>1. n - 1 \in 0 .. UINT - 1 /\ 1 \in 0 .. UINT - 1 /\ 1 + (n - 1) < UINT /\ 1 + (n - 1) = (n + 1) - 1
    BY <1>1, Sizes
  <2>2. Add(Add(r, 1), n - 1) = Add(r, 1 + (n - 1))
    BY <1>1, <2>1, AddAdd
  <2> QED
    BY <1>3, <2>1, <2>2 DEF SlotOf
<1> DEFINE s == Bytes(P)
           t == Bytes(Q)
<1>7. /\ s \in Seq(Nat) /\ Len(s) = f /\ s # <<>>
      /\ \A n \in 1 .. f : s[n] = P.data[SlotOf(r, n - 1)]
  BY BytesType DEF f, r
<1>8. /\ t \in Seq(Nat) /\ Len(t) = f - 1
      /\ \A n \in 1 .. f - 1 : t[n] = P.data[SlotOf(Q.nread, n - 1)]
  BY <1>3, <1>4, <1>5, BytesType
<1> HIDE DEF s, t
<1>9. Tail(s) \in Seq(Nat) /\ Len(Tail(s)) = f - 1 /\ \A n \in 1 .. f - 1 : Tail(s)[n] = s[n + 1]
  BY <1>7, HeadTailProperties
<1>10. \A n \in 1 .. f - 1 : n + 1 \in 1 .. f
  BY <1>1
<1>11. \A n \in 1 .. f - 1 : t[n] = Tail(s)[n]
  BY <1>6, <1>7, <1>8, <1>9, <1>10
<1>12. t = Tail(s)
  BY <1>8, <1>9, <1>11, SeqEqual
<1> QED
  BY <1>5, <1>7, <1>12 DEF s, t

(* Put() writes each byte to its slot and nothing else. *)
LEMMA PutFields ==
  ASSUME NEW P \in PipeType, NEW s \in Seq(Nat), Len(s) <= PIPESIZE, NEW Q, Q = Put(P, s)
  PROVE  /\ Q \in PipeType /\ Q.nread = P.nread /\ Q.nwrite = Add(P.nwrite, Len(s))
         /\ Q.used = P.used /\ Q.readopen = P.readopen /\ Q.writeopen = P.writeopen
         /\ \A n \in 1 .. Len(s) : Q.data[SlotOf(P.nwrite, n - 1)] = s[n]
         /\ \A x \in 0 .. PIPESIZE - 1 :
              (\A n \in 1 .. Len(s) : SlotOf(P.nwrite, n - 1) # x) => Q.data[x] = P.data[x]
<1> DEFINE w == P.nwrite
           l == Len(s)
           D == 0 .. PIPESIZE - 1
           Hit(x) == \E n \in 1 .. l : SlotOf(w, n - 1) = x
           Newest(x) == CHOOSE n \in 1 .. l : SlotOf(w, n - 1) = x /\ \A m \in n + 1 .. l : SlotOf(w, m - 1) # x
           New == [x \in D |-> IF Hit(x) THEN s[Newest(x)] ELSE P.data[x]]
<1>1. /\ w \in 0 .. UINT - 1 /\ l \in 0 .. PIPESIZE /\ P.data \in [D -> Nat] /\ DOMAIN P.data = D
      /\ \A n \in 1 .. l : s[n] \in Nat
  BY LenProperties, ElementOfSeq, Sizes DEF PipeType
<1>2. Q = [P EXCEPT !.nwrite = Add(@, l), !.data = New]
  <2>1. \A n : SlotOf(w, n - 1) = Add(P.nwrite, n - 1) % PIPESIZE
    BY DEF SlotOf
  <2> QED
    BY <1>1 DEF Put, SlotOf
<1> HIDE DEF w, l
<1>3. ASSUME NEW n \in 1 .. l
      PROVE  /\ SlotOf(w, n - 1) \in D
             /\ \A m \in 1 .. l : m # n => SlotOf(w, m - 1) # SlotOf(w, n - 1)
  <2>1. \A m \in 1 .. l : m - 1 \in 0 .. PIPESIZE - 1 /\ m - 1 \in 0 .. UINT - 1
    BY <1>1, Sizes
  <2>2. SlotOf(w, n - 1) \in D
    BY <1>1, <2>1, SlotRem
  <2>3. ASSUME NEW m \in 1 .. l, m # n PROVE SlotOf(w, m - 1) # SlotOf(w, n - 1)
    <3>1. m - 1 # n - 1 /\ m - 1 \in 0 .. PIPESIZE - 1 /\ n - 1 \in 0 .. PIPESIZE - 1
      BY <2>1, <2>3
    <3> QED
      BY <1>1, <3>1, SlotsApart
  <2> QED
    BY <2>2, <2>3
<1>4. ASSUME NEW n \in 1 .. l PROVE Hit(SlotOf(w, n - 1)) /\ Newest(SlotOf(w, n - 1)) = n
  <2> DEFINE x == SlotOf(w, n - 1)
  <2>1. \A m \in n + 1 .. l : m \in 1 .. l /\ m # n
    BY <1>1
  <2>2. \A m \in n + 1 .. l : SlotOf(w, m - 1) # x
    BY <1>3, <2>1
  <2>3. \A m \in 1 .. l : SlotOf(w, m - 1) = x => m = n
    BY <1>3
  <2> HIDE DEF x
  <2>4. SlotOf(w, n - 1) = x
    BY DEF x
  <2>5. Newest(x) = n /\ Hit(x)
    BY <2>2, <2>3, <2>4
  <2> QED
    BY <2>5 DEF x
<1>5. ASSUME NEW n \in 1 .. l PROVE New[SlotOf(w, n - 1)] = s[n]
  BY <1>3, <1>4
<1>6. ASSUME NEW x \in D, \A n \in 1 .. l : SlotOf(w, n - 1) # x PROVE New[x] = P.data[x]
  BY <1>6
<1>7. New \in [D -> Nat]
  <2>1. ASSUME NEW x \in D PROVE New[x] \in Nat
    <3>1. CASE Hit(x)
      <4>1. PICK n \in 1 .. l : SlotOf(w, n - 1) = x
        BY <3>1
      <4> QED
        BY <1>1, <1>5, <4>1
    <3>2. CASE ~Hit(x)
      BY <1>1, <3>2
    <3> QED
      BY <3>1, <3>2
  <2> QED
    BY <2>1
<1>8. Add(w, l) \in 0 .. UINT - 1
  <2>1. l \in 0 .. UINT - 1
    BY <1>1, Sizes
  <2> QED
    BY <1>1, <2>1, Adds
<1> HIDE DEF New
<1>9. /\ Q \in PipeType /\ Q.nread = P.nread /\ Q.nwrite = Add(w, l) /\ Q.data = New
      /\ Q.used = P.used /\ Q.readopen = P.readopen /\ Q.writeopen = P.writeopen
  BY <1>2, <1>7, <1>8 DEF PipeType, w
<1> QED
  BY <1>5, <1>6, <1>9 DEF w, l

(* Bytes are put in: they come after those that are there. *)
LEMMA RingPut ==
  ASSUME NEW P, Ring(P), NEW s \in Seq(Nat), Len(s) <= Room(P), NEW Q, Q = Put(P, s)
  PROVE  Ring(Q) /\ Bytes(Q) = Bytes(P) \o s
<1> DEFINE f == Fill(P)
           r == P.nread
           w == P.nwrite
           l == Len(s)
<1>1. /\ P \in PipeType /\ f \in 0 .. PIPESIZE /\ r \in 0 .. UINT - 1 /\ w = Add(r, f)
      /\ l \in Nat /\ l + f <= PIPESIZE /\ l <= PIPESIZE /\ P.data \in [0 .. PIPESIZE - 1 -> Nat]
  <2>1. P \in PipeType /\ f \in 0 .. UINT - 1 /\ f <= PIPESIZE /\ w = Add(r, f) /\ l <= PIPESIZE - f
    BY Fills DEF Ring, Room
  <2>2. l \in Nat
    BY LenProperties
  <2>3. r \in 0 .. UINT - 1 /\ P.data \in [0 .. PIPESIZE - 1 -> Nat]
    BY <2>1 DEF PipeType
  <2> HIDE DEF f, l, r, w
  <2> QED
    BY <2>1, <2>2, <2>3, Sizes
<1>2. /\ Q \in PipeType /\ Q.nread = r /\ Q.nwrite = Add(w, l)
      /\ \A n \in 1 .. l : Q.data[SlotOf(w, n - 1)] = s[n]
      /\ \A x \in 0 .. PIPESIZE - 1 : (\A n \in 1 .. l : SlotOf(w, n - 1) # x) => Q.data[x] = P.data[x]
  BY <1>1, PutFields
<1> HIDE DEF f, r, w, l
<1>3. Fill(Q) = f + l
  <2>1. f \in 0 .. UINT - 1 /\ l \in 0 .. UINT - 1 /\ f + l < UINT /\ f + l \in 0 .. UINT - 1
    BY <1>1, Sizes
  <2>2. Q.nwrite = Add(Q.nread, f + l)
    BY <1>1, <1>2, <2>1, AddAdd
  <2> QED
    BY <1>2, <2>1, <2>2, FillFrom
<1>4. Ring(Q)
  BY <1>1, <1>2, <1>3, Sizes DEF Ring
<1> DEFINE b == Bytes(P)
           c == Bytes(Q)
<1>5. b \in Seq(Nat) /\ Len(b) = f /\ \A n \in 1 .. f : b[n] = P.data[SlotOf(r, n - 1)]
  BY BytesType DEF f, r
<1>6. c \in Seq(Nat) /\ Len(c) = f + l /\ \A n \in 1 .. f + l : c[n] = Q.data[SlotOf(r, n - 1)]
  BY <1>2, <1>3, <1>4, BytesType
<1> HIDE DEF b, c
<1>7. b \o s \in Seq(Nat) /\ Len(b \o s) = f + l
      /\ \A n \in 1 .. f + l : (b \o s)[n] = IF n <= f THEN b[n] ELSE s[n - f]
  BY <1>5, ConcatProperties DEF l
<1>8. ASSUME NEW m \in 1 .. l PROVE SlotOf(w, m - 1) = SlotOf(r, (f + m) - 1)
  <2>1. /\ m - 1 \in 0 .. UINT - 1 /\ f \in 0 .. UINT - 1 /\ f + (m - 1) < UINT
        /\ f + (m - 1) = (f + m) - 1
    BY <1>1, Sizes
  <2>2. Add(Add(r, f), m - 1) = Add(r, f + (m - 1))
    BY <1>1, <2>1, AddAdd
  <2> QED
    BY <1>1, <2>1, <2>2 DEF SlotOf
<1>9. ASSUME NEW n \in 1 .. f + l PROVE c[n] = (b \o s)[n]
  <2>1. CASE n <= f
    <3>1. n \in 1 .. f /\ n - 1 \in 0 .. PIPESIZE - 1 /\ n - 1 \in 0 .. UINT - 1
      BY <1>1, <2>1, Sizes
    <3>2. ASSUME NEW m \in 1 .. l PROVE SlotOf(w, m - 1) # SlotOf(r, n - 1)
      <4>1. (f + m) - 1 \in 0 .. PIPESIZE - 1 /\ (f + m) - 1 # n - 1
        BY <1>1, <3>1, Sizes
      <4>2. SlotOf(r, (f + m) - 1) # SlotOf(r, n - 1)
        BY <1>1, <3>1, <4>1, SlotsApart
      <4> QED
        BY <1>8, <4>2
    <3>3. SlotOf(r, n - 1) \in 0 .. PIPESIZE - 1
      BY <1>1, <3>1, SlotRem
    <3>4. Q.data[SlotOf(r, n - 1)] = P.data[SlotOf(r, n - 1)]
      BY <1>2, <3>2, <3>3
    <3> QED
      BY <1>5, <1>6, <1>7, <2>1, <3>1, <3>4
  <2>2. CASE ~(n <= f)
    <3>1. n - f \in 1 .. l /\ (f + (n - f)) - 1 = n - 1
      BY <1>1, <2>2
    <3>2. SlotOf(w, (n - f) - 1) = SlotOf(r, n - 1)
      BY <1>8, <3>1
    <3>3. Q.data[SlotOf(w, (n - f) - 1)] = s[n - f]
      BY <1>2, <3>1
    <3> QED
      BY <1>6, <1>7, <2>2, <3>2, <3>3
  <2> QED
    BY <2>1, <2>2
<1>10. c = b \o s
  BY <1>6, <1>7, <1>9, SeqEqual
<1> QED
  BY <1>4, <1>10 DEF b, c
---------------------------------------------------------------------------
(* The invariant.                                                          *)

(* The calls of a program; those of the processes that it forks; and those of
   the processes that these fork.                                          *)
CallNames == {"exec", "open", "wait", "exit", "parse", "prompt", "readline", "emit", "write"}
Call0 ==
  [c : CallNames] \cup [c : {"close"}, d : 0 .. 1] \cup [c : {"closeend", "dupend"}, k : PipeVar, e : 0 .. 1]
  \cup [c : {"pipe"}, k : PipeVar] \cup [c : {"run"}, cmd : Commands]
Call1 == Call0 \cup [c : {"fork"}, child : Seq(Call0)]
Call2 == Call1 \cup [c : {"fork"}, child : Seq(Call1)]

FileType == [ref : Nat, kind : {"none", "console", "file", "pipe"}, pi : {None} \cup PipeId, writable : BOOLEAN]

(* What processes, files and pipes are. *)
ProgramType == todo \in [Proc -> Seq(Call2)] /\ ends \in [Proc -> [PipeVar -> Fd \X Fd]]
DataType == buf \in [Proc -> Seq(Nat)] /\ input \in Seq(Nat)
LineType == line \in Runs /\ parsed.ok => parsed.cmd \in Commands
TableType ==
  /\ state \in [Proc -> {"unused", "run", "sleep", "zombie"}]
  /\ ofile \in [Proc -> [Fd -> {None} \cup File]]
  /\ file \in [File -> FileType]
  /\ pipe \in [PipeId -> PipeType]

(* How often F takes the value v. *)
Occ(F, v) == Cardinality({s \in DOMAIN F : F[s] = v})

(* file[f].ref counts descriptors; a pipe has one file for each end. *)
Descriptor == [s \in Proc \X Fd |-> ofile[s[1]][s[2]]]
RefInv ==
  \A f \in File :
    /\ file[f].ref = Occ(Descriptor, f)
    /\ file[f].ref = 0 => file[f] = NoFile
    /\ file[f].kind = "pipe" <=> file[f].pi # None
EndInv ==
  \A f, g \in File :
    file[f].pi # None /\ file[f].pi = file[g].pi /\ file[f].writable = file[g].writable => f = g

(* Who is not there has nothing open. *)
GoneInv == \A p \in Proc : state[p] \in {"unused", "zombie"} => \A d \in Fd : ofile[p][d] = None

(* The rings are in order, and a pipe that is not in use is empty. *)
RingInv == \A i \in PipeId : Fill(pipe[i]) <= PIPESIZE /\ (~pipe[i].used => pipe[i] = NoPipe)

PipeInv ==
  ProgramType /\ DataType /\ LineType /\ TableType /\ RefInv /\ EndInv /\ GoneInv /\ PipeHeld /\ RingInv

---------------------------------------------------------------------------
(* Programs.                                                               *)

(* What PipeAssumption says of commands. *)
LEMMA CommandFacts ==
  ASSUME NEW cmd \in Commands
  PROVE  /\ cmd.type \in {"EXEC", "REDIR", "LIST", "PIPE", "BACK"}
         /\ cmd.type = "REDIR" => cmd.fd \in 0 .. 1
         /\ cmd.type \in {"REDIR", "BACK"} => cmd.cmd \in Commands
         /\ cmd.type \in {"LIST", "PIPE"} => cmd.left \in Commands /\ cmd.right \in Commands
  BY PipeAssumption

(* The calls that occur. *)
LEMMA Calls ==
  /\ \A c \in CallNames : Op(c) \in Call0
  /\ \A d \in 0 .. 1 : Close(d) \in Call0
  /\ \A c \in {"closeend", "dupend"}, k \in PipeVar, e \in 0 .. 1 : EndOf(c, k, e) \in Call0
  /\ \A k \in PipeVar : MakePipe(k) \in Call0
  /\ \A cmd \in Commands : Run(cmd) \in Call0
  /\ Exit \in Call0 /\ Op("wait") \in Call0 /\ Op("open") \in Call0 /\ Op("exec") \in Call0
  /\ Call0 \subseteq Call1 /\ Call1 \subseteq Call2
<1>1. \A c \in CallNames : Op(c) \in Call0
  BY DEF Op, Call0
<1>2. \A d \in 0 .. 1 : Close(d) \in Call0
  BY DEF Close, Call0
<1>3. \A c \in {"closeend", "dupend"}, k \in PipeVar, e \in 0 .. 1 : EndOf(c, k, e) \in Call0
  BY DEF EndOf, Call0
<1>4. \A k \in PipeVar : MakePipe(k) \in Call0
  BY DEF MakePipe, Call0
<1>5. \A cmd \in Commands : Run(cmd) \in Call0
  BY DEF Run, Call0
<1>6. {"wait", "open", "exec", "exit"} \subseteq CallNames
  BY DEF CallNames
<1>7. Call0 \subseteq Call1 /\ Call1 \subseteq Call2
  BY DEF Call1, Call2
<1> QED
  BY <1>1, <1>2, <1>3, <1>4, <1>5, <1>6, <1>7 DEF Exit

(* Sequences of calls are sequences of more calls. *)
LEMMA SeqCalls == Seq(Call0) \subseteq Seq(Call1) /\ Seq(Call1) \subseteq Seq(Call2)
  BY Calls, SeqMonotonic

(* fork() of a program. *)
LEMMA Forks ==
  /\ \A t \in Seq(Call0) : Fork(t) \in Call1
  /\ \A t \in Seq(Call1) : Fork(t) \in Call2
  BY DEF Fork, Call1, Call2

(* The parts that programs are put together from. *)
LEMMA Pieces ==
  ASSUME NEW k \in PipeVar
  PROVE  /\ CloseEnds(k) \in Seq(Call0)
         /\ \A e \in 0 .. 1 : Plug(k, e) \in Seq(Call0)
         /\ WaitBoth \in Seq(Call0)
<1>1. EndOf("closeend", k, 0) \in Call0 /\ EndOf("closeend", k, 1) \in Call0
  BY Calls
<1>2. CloseEnds(k) \in Seq(Call0)
  BY <1>1 DEF CloseEnds
<1>3. ASSUME NEW e \in 0 .. 1 PROVE Plug(k, e) \in Seq(Call0)
  <2>1. Close(e) \in Call0 /\ EndOf("dupend", k, e) \in Call0
    BY Calls
  <2>2. <<Close(e), EndOf("dupend", k, e)>> \in Seq(Call0)
    BY <2>1
  <2> QED
    BY <1>2, <2>2, ConcatProperties DEF Plug
<1>4. WaitBoth \in Seq(Call0)
  BY Calls DEF WaitBoth
<1> QED
  BY <1>2, <1>3, <1>4

(* runcmd() gives a program. *)
LEMMA RunType ==
  ASSUME NEW cmd \in Commands
  PROVE  runcmd(cmd) \in Seq(Call1)
<1>0. /\ Exit \in Call1 /\ Op("wait") \in Call1 /\ Op("open") \in Call1 /\ Op("exec") \in Call1
      /\ 1 \in PipeVar
  BY Calls, Sizes DEF PipeVar
<1>1. CASE cmd.type = "EXEC"
  BY <1>0, <1>1 DEF runcmd
<1>2. CASE cmd.type = "REDIR"
  <2>1. Close(cmd.fd) \in Call1 /\ Run(cmd.cmd) \in Call1
    BY <1>2, CommandFacts, Calls
  <2>2. runcmd(cmd) = <<Close(cmd.fd), Op("open"), Run(cmd.cmd)>>
    BY <1>2 DEF runcmd
  <2> QED
    BY <1>0, <2>1, <2>2
<1>3. CASE cmd.type = "LIST"
  <2>1. Run(cmd.left) \in Call0 /\ Run(cmd.right) \in Call1
    BY <1>3, CommandFacts, Calls
  <2>2. Fork(<<Run(cmd.left)>>) \in Call1
    <3>1. <<Run(cmd.left)>> \in Seq(Call0)
      BY <2>1
    <3> QED
      BY <3>1, Forks
  <2>3. runcmd(cmd) = <<Fork(<<Run(cmd.left)>>), Op("wait"), Run(cmd.right)>>
    BY <1>3 DEF runcmd
  <2> QED
    BY <1>0, <2>1, <2>2, <2>3
<1>4. CASE cmd.type = "PIPE"
  <2>1. Run(cmd.left) \in Call0 /\ Run(cmd.right) \in Call0 /\ MakePipe(1) \in Call1
    BY <1>0, <1>4, CommandFacts, Calls
  <2>2. /\ Plug(1, 1) \in Seq(Call0) /\ Plug(1, 0) \in Seq(Call0)
        /\ CloseEnds(1) \in Seq(Call1) /\ WaitBoth \in Seq(Call1)
    BY <1>0, Pieces, SeqCalls
  <2>3. <<Run(cmd.left)>> \in Seq(Call0) /\ <<Run(cmd.right)>> \in Seq(Call0)
    BY <2>1
  <2>4. /\ Plug(1, 1) \o <<Run(cmd.left)>> \in Seq(Call0)
        /\ Plug(1, 0) \o <<Run(cmd.right)>> \in Seq(Call0)
    BY <2>2, <2>3, ConcatProperties
  <2> DEFINE f == Fork(Plug(1, 1) \o <<Run(cmd.left)>>)
             g == Fork(Plug(1, 0) \o <<Run(cmd.right)>>)
             a == <<MakePipe(1), f, g>>
             b == CloseEnds(1)
             c == WaitBoth
             d == <<Exit>>
  <2>5. f \in Call1 /\ g \in Call1
    BY <2>4, Forks
  <2>6. runcmd(cmd) = a \o b \o c \o d
    BY <1>4 DEF runcmd
  <2> HIDE DEF f, g
  <2>7. a \in Seq(Call1) /\ b \in Seq(Call1) /\ c \in Seq(Call1) /\ d \in Seq(Call1)
    BY <1>0, <2>1, <2>2, <2>5
  <2> HIDE DEF a, b, c, d
  <2>8. a \o b \in Seq(Call1)
    BY <2>7, ConcatProperties
  <2>9. a \o b \o c \in Seq(Call1)
    BY <2>7, <2>8, ConcatProperties
  <2>10. a \o b \o c \o d \in Seq(Call1)
    BY <2>7, <2>9, ConcatProperties
  <2> QED
    BY <2>6, <2>10
<1>5. CASE cmd.type = "BACK"
  <2>1. Run(cmd.cmd) \in Call0
    BY <1>5, CommandFacts, Calls
  <2>2. Fork(<<Run(cmd.cmd)>>) \in Call1
    <3>1. <<Run(cmd.cmd)>> \in Seq(Call0)
      BY <2>1
    <3> QED
      BY <3>1, Forks
  <2>3. runcmd(cmd) = <<Fork(<<Run(cmd.cmd)>>), Exit>>
    BY <1>5 DEF runcmd
  <2> QED
    BY <1>0, <2>2, <2>3
<1> QED
  BY <1>1, <1>2, <1>3, <1>4, <1>5, CommandFacts

(* A program with its first command expanded. *)
LEMMA ExpandType ==
  ASSUME NEW t \in Seq(Call2)
  PROVE  Expand(t) \in Seq(Call2)
<1>1. CASE t # <<>> /\ Head(t).c = "run"
  <2>1. Head(t) \in Call2
    BY <1>1
  <2>2. Head(t).cmd \in Commands
    BY <1>1, <2>1 DEF Call2, Call1, Call0, CallNames
  <2> QED
    BY <1>1, <2>2, RunType, SeqCalls DEF Expand
<1>2. CASE ~(t # <<>> /\ Head(t).c = "run")
  BY <1>2 DEF Expand
<1> QED
  BY <1>1, <1>2

(* main() of triage is a program. *)
LEMMA TriageType == triage \in Seq(Call1)
<1>0. STAGES \in Nat /\ STAGES > 0 /\ PipeVar = 1 .. STAGES
  BY Sizes DEF PipeVar
<1>1. close_p \in Seq(Call0)
  <2> DEFINE n == 2 * (STAGES - 1)
  <2>1. n \in Nat
    BY <1>0
  <2>2. ASSUME NEW m \in 1 .. n PROVE EndOf("closeend", (m + 1) \div 2, (m + 1) % 2) \in Call0
    <3>1. (m + 1) \div 2 \in 1 .. STAGES /\ (m + 1) % 2 \in 0 .. 1
      BY <1>0
    <3> QED
      BY <1>0, <3>1, Calls
  <2>3. close_p = [m \in 1 .. n |-> EndOf("closeend", (m + 1) \div 2, (m + 1) % 2)]
    BY DEF close_p
  <2> HIDE DEF n
  <2>4. close_p \in [1 .. n -> Call0]
    BY <2>2, <2>3
  <2> QED
    BY <2>1, <2>4, FunIsSeq
<1>2. ASSUME NEW k \in 1 .. STAGES PROVE spawn_stage(k) \in Call1
  <2> DEFINE a == IF k > 1 THEN <<Close(0), EndOf("dupend", k - 1, 0)>> ELSE <<>>
             b == IF k < STAGES THEN <<Close(1), EndOf("dupend", k, 1)>> ELSE <<>>
             d == <<Op("exec")>>
  <2>1. a \in Seq(Call0)
    <3>1. CASE k > 1
      <4>1. k - 1 \in PipeVar
        BY <1>0, <3>1
      <4>2. Close(0) \in Call0 /\ EndOf("dupend", k - 1, 0) \in Call0
        BY <4>1, Calls
      <4> QED
        BY <3>1, <4>2
    <3>2. CASE ~(k > 1)
      BY <3>2
    <3> QED
      BY <3>1, <3>2
  <2>2. b \in Seq(Call0)
    <3>1. Close(1) \in Call0 /\ EndOf("dupend", k, 1) \in Call0
      BY <1>0, Calls
    <3> QED
      BY <3>1
  <2>3. d \in Seq(Call0)
    BY Calls
  <2>4. spawn_stage(k) = Fork(a \o b \o close_p \o d)
    BY DEF spawn_stage
  <2> HIDE DEF a, b, d
  <2>5. a \o b \in Seq(Call0)
    BY <2>1, <2>2, ConcatProperties
  <2>6. a \o b \o close_p \in Seq(Call0)
    BY <1>1, <2>5, ConcatProperties
  <2>7. a \o b \o close_p \o d \in Seq(Call0)
    BY <2>3, <2>6, ConcatProperties
  <2> QED
    BY <2>4, <2>7, Forks
<1> DEFINE a == [k \in 1 .. STAGES - 1 |-> MakePipe(k)]
           b == [k \in 1 .. STAGES |-> spawn_stage(k)]
           d == [k \in 1 .. STAGES |-> Op("wait")]
           e == <<Exit>>
<1>3. a \in Seq(Call1)
  <2>1. STAGES - 1 \in Nat /\ \A k \in 1 .. STAGES - 1 : MakePipe(k) \in Call1
    BY <1>0, Calls
  <2>2. a \in [1 .. STAGES - 1 -> Call1]
    BY <2>1
  <2> HIDE DEF a
  <2> QED
    BY <2>1, <2>2, FunIsSeq
<1>4. b \in Seq(Call1)
  <2>1. b \in [1 .. STAGES -> Call1]
    BY <1>2
  <2> HIDE DEF b
  <2> QED
    BY <1>0, <2>1, FunIsSeq
<1>5. d \in Seq(Call1)
  <2>1. d \in [1 .. STAGES -> Call1]
    BY Calls
  <2> HIDE DEF d
  <2> QED
    BY <1>0, <2>1, FunIsSeq
<1>6. e \in Seq(Call1) /\ close_p \in Seq(Call1)
  BY <1>1, Calls, SeqCalls
<1>7. triage = a \o b \o close_p \o d \o e
  BY DEF triage
<1> HIDE DEF a, b, d, e
<1>8. a \o b \in Seq(Call1)
  BY <1>3, <1>4, ConcatProperties
<1>9. a \o b \o close_p \in Seq(Call1)
  BY <1>6, <1>8, ConcatProperties
<1>10. a \o b \o close_p \o d \in Seq(Call1)
  BY <1>5, <1>9, ConcatProperties
<1>11. a \o b \o close_p \o d \o e \in Seq(Call1)
  BY <1>6, <1>10, ConcatProperties
<1> QED
  BY <1>7, <1>11

(* main() of the shell is one. *)
LEMMA ShellType ==
  ASSUME NEW t \in Seq(Call1)
  PROVE  shell(t) \in Seq(Call2)
<1>1. "prompt" \in CallNames /\ "wait" \in CallNames
  BY DEF CallNames
<1>2. Fork(t) \in Call2 /\ Op("wait") \in Call2 /\ Op("prompt") \in Call2
  BY <1>1, Forks, Calls
<1> QED
  BY <1>2 DEF shell

(* The call that a process makes, and the calls after it. *)
LEMMA HeadType ==
  ASSUME ProgramType, NEW p \in Proc, todo[p] # <<>>
  PROVE  /\ Head(todo[p]) \in Call2 /\ Tail(todo[p]) \in Seq(Call2)
         /\ Head(todo[p]).c = "close" => Head(todo[p]).d \in 0 .. 1
         /\ Head(todo[p]).c \in {"closeend", "dupend"} => Head(todo[p]).k \in PipeVar /\ Head(todo[p]).e \in 0 .. 1
         /\ Head(todo[p]).c = "pipe" => Head(todo[p]).k \in PipeVar
         /\ Head(todo[p]).c = "fork" => Head(todo[p]).child \in Seq(Call2)
<1> DEFINE h == Head(todo[p])
<1>1. h \in Call2 /\ Tail(todo[p]) \in Seq(Call2)
  BY HeadTailProperties DEF ProgramType
<1> HIDE DEF h
<1>2. h.c = "close" => h.d \in 0 .. 1
  BY <1>1 DEF Call2, Call1, Call0, CallNames
<1>3. h.c \in {"closeend", "dupend"} => h.k \in PipeVar /\ h.e \in 0 .. 1
  BY <1>1 DEF Call2, Call1, Call0, CallNames
<1>4. h.c = "pipe" => h.k \in PipeVar
  BY <1>1 DEF Call2, Call1, Call0, CallNames
<1>5. h.c = "fork" => h.child \in Seq(Call0) \/ h.child \in Seq(Call1)
  BY <1>1 DEF Call2, Call1, Call0, CallNames
<1>6. h.c = "fork" => h.child \in Seq(Call2)
  BY <1>5, SeqCalls
<1> QED
  BY <1>1, <1>2, <1>3, <1>4, <1>6 DEF h

(* A process goes on with t. *)
LEMMA GoesOnType ==
  ASSUME ProgramType, NEW p \in Proc, NEW t \in Seq(Call2), GoesOn(p, t)
  PROVE  todo' \in [Proc -> Seq(Call2)]
  BY ExpandType DEF GoesOn, ProgramType

(* A process goes on with the next call. *)
LEMMA DoneType ==
  ASSUME ProgramType, NEW p \in Proc, todo[p] # <<>>, Done(p)
  PROVE  todo' \in [Proc -> Seq(Call2)]
<1>1. Expand(Tail(todo[p])) \in Seq(Call2)
  BY HeadType, ExpandType
<1> QED
  BY <1>1 DEF Done, ProgramType

(* A process goes on with one call. *)
LEMMA WordType ==
  ASSUME ProgramType, NEW p \in Proc, NEW c \in CallNames, GoesOn(p, <<Op(c)>>)
  PROVE  todo' \in [Proc -> Seq(Call2)]
<1>1. Op(c) \in Call2
  BY Calls
<1>2. <<Op(c)>> \in Seq(Call2)
  BY <1>1
<1> QED
  BY <1>2, GoesOnType

(* A process gives up. *)
LEMMA ExitType ==
  ASSUME ProgramType, NEW p \in Proc, GoesOn(p, <<Exit>>)
  PROVE  todo' \in [Proc -> Seq(Call2)]
<1>1. "exit" \in CallNames
  BY DEF CallNames
<1> QED
  BY <1>1, WordType DEF Exit

---------------------------------------------------------------------------
(* Counting descriptors.                                                   *)

(* 1 where x is v. *)
Is(x, v) == IF x = v THEN 1 ELSE 0

(* One slot takes another value. *)
LEMMA OccStep ==
  ASSUME NEW S, IsFiniteSet(S), NEW F, DOMAIN F = S, NEW G, DOMAIN G = S, NEW a \in S,
         \A s \in S \ {a} : G[s] = F[s], NEW x
  PROVE  Occ(G, x) = Occ(F, x) - Is(F[a], x) + Is(G[a], x) /\ Occ(F, x) \in Nat /\ Occ(G, x) \in Nat
<1> DEFINE R == {s \in S : F[s] = x} \ {a}
<1>2. IsFiniteSet(R) /\ Cardinality(R) \in Nat
  BY FS_Subset, FS_CardinalityType
<1>3. a \notin R /\ Cardinality(R \cup {a}) = Cardinality(R) + 1
  BY <1>2, FS_AddElement
<1>4. ASSUME NEW H, DOMAIN H = S, \A s \in S \ {a} : H[s] = F[s]
      PROVE  Occ(H, x) = Cardinality(R) + Is(H[a], x)
  <2>1. CASE H[a] = x
    <3>1. {s \in S : H[s] = x} = R \cup {a}
      BY <1>4, <2>1
    <3> HIDE DEF R
    <3> QED
      BY <1>3, <1>4, <2>1, <3>1 DEF Occ, Is
  <2>2. CASE H[a] # x
    <3>1. {s \in S : H[s] = x} = R
      BY <1>4, <2>2
    <3> HIDE DEF R
    <3> QED
      BY <1>2, <1>4, <2>2, <3>1 DEF Occ, Is
  <2> QED
    BY <2>1, <2>2
<1> HIDE DEF R
<1>5. Occ(F, x) = Cardinality(R) + Is(F[a], x) /\ Occ(G, x) = Cardinality(R) + Is(G[a], x)
  BY <1>4
<1> QED
  BY <1>2, <1>5 DEF Is

(* Distinct slots are counted apart. *)
LEMMA OccSome ==
  ASSUME NEW S, IsFiniteSet(S), NEW F, DOMAIN F = S, NEW x
  PROVE  /\ Occ(F, x) \in Nat
         /\ Occ(F, x) = 0 <=> \A a \in S : F[a] # x
         /\ Occ(F, x) <= 1 => \A a, b \in S : F[a] = x /\ F[b] = x => a = b
<1> DEFINE R == {s \in S : F[s] = x}
<1>1. IsFiniteSet(R) /\ Cardinality(R) \in Nat /\ Occ(F, x) = Cardinality(R)
  BY FS_Subset, FS_CardinalityType DEF Occ
<1>2. Cardinality(R) = 0 <=> R = {}
  BY <1>1, FS_EmptySet
<1>3. ASSUME NEW a \in S, NEW b \in S, F[a] = x, F[b] = x, a # b PROVE Cardinality(R) > 1
  <2>1. IsFiniteSet(R \ {a}) /\ Cardinality(R \ {a}) = Cardinality(R) - 1
    BY <1>1, <1>3, FS_RemoveElement
  <2>2. b \in R \ {a}
    BY <1>3
  <2>3. Cardinality(R \ {a}) # 0
    BY <2>1, <2>2, FS_EmptySet
  <2> HIDE DEF R
  <2> QED
    BY <1>1, <2>1, <2>3, FS_CardinalityType
<1>4. R = {} <=> \A a \in S : F[a] # x
  OBVIOUS
<1>5. Cardinality(R) <= 1 => \A a, b \in S : F[a] = x /\ F[b] = x => a = b
  <2> SUFFICES ASSUME Cardinality(R) <= 1, NEW a \in S, NEW b \in S, F[a] = x, F[b] = x, a # b
               PROVE  FALSE
    OBVIOUS
  <2> HIDE DEF R
  <2> QED
    BY <1>1, <1>3
<1> HIDE DEF R
<1> QED
  BY <1>1, <1>2, <1>4, <1>5

(* A set of numbers that is not empty has a least member. *)
LEMMA LowestIn ==
  ASSUME NEW S, S \subseteq Nat, S # {}
  PROVE  Lowest(S) \in S
<1> DEFINE Less == {ss \in Nat \X Nat : ss[1] < ss[2]}
<1>1. IsWellFoundedOn(Less, Nat)
  BY NatLessThanWellFounded DEF OpToRel
<1>2. \A x, y \in Nat : y < x => <<y, x>> \in Less
  OBVIOUS
<1> HIDE DEF Less
<1>3. PICK x \in S : \A y \in S : ~(<<y, x>> \in Less)
  BY <1>1, WFMin
<1>4. ASSUME NEW y \in S PROVE x <= y
  <2>1. x \in Nat /\ y \in Nat /\ ~(<<y, x>> \in Less)
    BY <1>3
  <2>2. ~(y < x)
    BY <1>2, <2>1
  <2> QED
    BY <2>1, <2>2
<1> QED
  BY <1>4 DEF Lowest

(* A set of two or more has two. *)
LEMMA TwoIn ==
  ASSUME NEW S, S \subseteq Nat, IsFiniteSet(S), ~(Cardinality(S) < 2)
  PROVE  Lowest(S) \in S /\ Lowest(S \ {Lowest(S)}) \in S \ {Lowest(S)}
<1> DEFINE x == Lowest(S)
<1>1. S # {}
  BY FS_EmptySet
<1>2. x \in S
  BY <1>1, LowestIn
<1> HIDE DEF x
<1>3. Cardinality(S) \in Nat /\ Cardinality(S \ {x}) = Cardinality(S) - 1
  BY <1>2, FS_RemoveElement, FS_CardinalityType
<1>4. S \ {x} # {}
  BY <1>3, FS_EmptySet
<1>5. Lowest(S \ {x}) \in S \ {x}
  BY <1>4, LowestIn
<1> QED
  BY <1>2, <1>5 DEF x

(* The tables. *)
LEMMA Tables ==
  /\ 0 \in Fd /\ 1 \in Fd /\ None \notin File /\ None \notin PipeId /\ Console \in File
  /\ Fd \subseteq Nat /\ File \subseteq Nat /\ PipeId \subseteq Nat
  /\ IsFiniteSet(Fd) /\ IsFiniteSet(File) /\ IsFiniteSet(Proc) /\ IsFiniteSet(Proc \X Fd) /\ Sh \in Proc
<1>1. IsFiniteSet(Fd) /\ IsFiniteSet(File)
  <2>1. 0 \in Int /\ 1 \in Int /\ NOFILE - 1 \in Int /\ NFILE \in Int
    BY Sizes
  <2> QED
    BY <2>1, FS_Interval DEF Fd, File
<1>2. IsFiniteSet(Proc)
  <2>1. IsFiniteSet({Sh}) /\ IsFiniteSet(Child)
    BY PipeAssumption, FS_Singleton
  <2> QED
    BY <2>1, FS_Union DEF Proc
<1>3. IsFiniteSet(Proc \X Fd)
  BY <1>1, <1>2, FS_Product
<1>4. 0 \in Fd /\ 1 \in Fd /\ None \notin File /\ None \notin PipeId /\ Console \in File
  BY Sizes DEF Fd, File, PipeId, None, Console
<1>5. Fd \subseteq Nat /\ File \subseteq Nat /\ PipeId \subseteq Nat
  BY Sizes DEF Fd, File, PipeId
<1> QED
  BY <1>1, <1>2, <1>3, <1>4, <1>5 DEF Proc

(* Descriptors that are open lead to files that are. *)
LEMMA OpenFile ==
  ASSUME TableType, RefInv, NEW p \in Proc, NEW d \in Fd, ofile[p][d] # None
  PROVE  ofile[p][d] \in File /\ file[ofile[p][d]].ref > 0 /\ file[ofile[p][d]] \in FileType
<1> DEFINE f == ofile[p][d]
<1>1. f \in File /\ file[f] \in FileType
  BY DEF TableType
<1>2. Descriptor[<<p, d>>] = f /\ DOMAIN Descriptor = Proc \X Fd /\ <<p, d>> \in Proc \X Fd
  BY DEF Descriptor
<1> HIDE DEF f
<1>3. Occ(Descriptor, f) \in Nat /\ Occ(Descriptor, f) # 0
  BY <1>2, Tables, OccSome
<1>4. file[f].ref > 0
  BY <1>1, <1>3 DEF RefInv
<1> QED
  BY <1>1, <1>4 DEF f

(* What an agent reads, if it is a pipe. *)
LEMMA InPipe ==
  ASSUME TableType, RefInv, NEW p \in Proc, In(p).kind = "pipe"
  PROVE  /\ In(p).pi \in PipeId /\ ofile[p][0] \in File
         /\ file[ofile[p][0]].ref > 0 /\ file[ofile[p][0]].pi = In(p).pi /\ ~file[ofile[p][0]].writable
<1>1. ofile[p][0] # None /\ In(p) = file[ofile[p][0]] /\ ~file[ofile[p][0]].writable
  BY DEF In, NoFile
<1>2. ofile[p][0] \in File /\ file[ofile[p][0]].ref > 0 /\ file[ofile[p][0]] \in FileType
  BY <1>1, Tables, OpenFile
<1>3. In(p).pi # None
  BY <1>1, <1>2 DEF RefInv
<1> QED
  BY <1>1, <1>2, <1>3 DEF FileType

(* What it writes to, if it is a pipe. *)
LEMMA OutPipe ==
  ASSUME TableType, RefInv, NEW p \in Proc, Out(p).kind = "pipe"
  PROVE  /\ Out(p).pi \in PipeId /\ ofile[p][1] \in File
         /\ file[ofile[p][1]].ref > 0 /\ file[ofile[p][1]].pi = Out(p).pi /\ file[ofile[p][1]].writable
<1>1. ofile[p][1] # None /\ Out(p) = file[ofile[p][1]] /\ file[ofile[p][1]].writable
  BY DEF Out, NoFile
<1>2. ofile[p][1] \in File /\ file[ofile[p][1]].ref > 0 /\ file[ofile[p][1]] \in FileType
  BY <1>1, Tables, OpenFile
<1>3. Out(p).pi # None
  BY <1>1, <1>2 DEF RefInv
<1> QED
  BY <1>1, <1>2, <1>3 DEF FileType

---------------------------------------------------------------------------
(* The programs stay programs, and lines stay bytes.                       *)

Programs == ProgramType /\ DataType /\ LineType

(* A step that leaves the lines alone and goes on with a program. *)
LEMMA OnlyTodo ==
  ASSUME Programs, todo' \in [Proc -> Seq(Call2)], UNCHANGED <<ends, buf, input, line, parsed>>
  PROVE  Programs'
  BY DEF Programs, ProgramType, DataType, LineType

(* The line that an agent has read, or is reading. *)
LEMMA GotType ==
  ASSUME Programs, NEW p \in Proc, NEW b \in Nat, Got(p, b)
  PROVE  todo' \in [Proc -> Seq(Call2)] /\ buf' \in [Proc -> Seq(Nat)]
<1>1. "emit" \in CallNames /\ todo \in [Proc -> Seq(Call2)] /\ buf \in [Proc -> Seq(Nat)] /\ ProgramType
  BY DEF CallNames, Programs, ProgramType, DataType
<1>2. CASE b = 0 /\ buf[p] = <<>>
  BY <1>1, <1>2, ExitType DEF Got, LineRead
<1>3. CASE b = 0 /\ buf[p] # <<>>
  BY <1>1, <1>3, WordType DEF Got, LineRead
<1>4. CASE b # 0
  <2>1. buf' = [buf EXCEPT ![p] = Append(@, b)] /\ UNCHANGED todo
    BY <1>4 DEF Got
  <2>2. Append(buf[p], b) \in Seq(Nat)
    BY <1>1, AppendProperties
  <2> QED
    BY <1>1, <2>1, <2>2
<1> QED
  BY <1>2, <1>3, <1>4

(* The end of a line without a newline. *)
LEMMA LineReadType ==
  ASSUME Programs, NEW p \in Proc, LineRead(p)
  PROVE  todo' \in [Proc -> Seq(Call2)]
<1>1. "emit" \in CallNames /\ ProgramType
  BY DEF CallNames, Programs
<1> QED
  BY <1>1, ExitType, WordType DEF LineRead

(* The next line. *)
LEMMA NextLineType ==
  ASSUME Programs, NEW p \in Proc, NextLine(p)
  PROVE  todo' \in [Proc -> Seq(Call2)] /\ buf' \in [Proc -> Seq(Nat)]
<1>1. "readline" \in CallNames /\ ProgramType /\ buf \in [Proc -> Seq(Nat)]
  BY DEF CallNames, Programs, DataType
<1>2. todo' \in [Proc -> Seq(Call2)]
  BY <1>1, WordType DEF NextLine
<1> QED
  BY <1>1, <1>2 DEF NextLine

(* A step that reads or writes a line. *)
LEMMA TodoAndBuf ==
  ASSUME Programs, todo' \in [Proc -> Seq(Call2)], buf' \in [Proc -> Seq(Nat)], input' \in Seq(Nat),
         UNCHANGED <<ends, line, parsed>>
  PROVE  Programs'
  BY DEF Programs, ProgramType, DataType, LineType

(* The system calls that are not about pipes' contents. *)
LEMMA CallsProgram ==
  ASSUME Programs, TableType, NEW p \in Proc,
         SysClose(p) \/ SysDup(p) \/ SysOpen(p) \/ SysWait(p) \/ SysExec(p) \/ Die(p) \/ Kill(p) \/ Sleep(p)
         \/ ExitClose(p)
  PROVE  Programs'
<1>0. ProgramType /\ "readline" \in CallNames
  BY DEF Programs, CallNames
<1>1. CASE SysClose(p)
  <2>1. todo[p] # <<>> /\ Done(p) /\ UNCHANGED <<ends, buf, input, line, parsed>>
    BY <1>1 DEF SysClose, AtCall
  <2> QED
    BY <1>0, <2>1, DoneType, OnlyTodo
<1>2. CASE SysDup(p)
  <2>1. todo[p] # <<>> /\ Done(p) /\ UNCHANGED <<ends, buf, input, line, parsed>>
    BY <1>2 DEF SysDup, AtCall, procvars
  <2> QED
    BY <1>0, <2>1, DoneType, OnlyTodo
<1>3. CASE SysOpen(p)
  <2>1. todo[p] # <<>> /\ (Done(p) \/ GoesOn(p, <<Exit>>)) /\ UNCHANGED <<ends, buf, input, line, parsed>>
    BY <1>3 DEF SysOpen, AtCall, procvars
  <2> QED
    BY <1>0, <2>1, DoneType, ExitType, OnlyTodo
<1>4. CASE SysWait(p)
  <2>1. todo[p] # <<>> /\ Done(p) /\ UNCHANGED <<ends, buf, input, line, parsed>>
    BY <1>4 DEF SysWait, AtCall
  <2> QED
    BY <1>0, <2>1, DoneType, OnlyTodo
<1>5. CASE SysExec(p)
  <2>1. (GoesOn(p, <<Op("readline")>>) \/ GoesOn(p, <<Exit>>)) /\ UNCHANGED <<ends, buf, input, line, parsed>>
    BY <1>5 DEF SysExec, procvars
  <2> QED
    BY <1>0, <2>1, WordType, ExitType, OnlyTodo
<1>6. CASE Die(p)
  <2>1. GoesOn(p, <<Exit>>) /\ UNCHANGED <<ends, buf, input, line, parsed>>
    BY <1>6 DEF Die, procvars
  <2> QED
    BY <1>0, <2>1, ExitType, OnlyTodo
<1>7. CASE Kill(p) \/ Sleep(p) \/ ExitClose(p)
  <2>1. UNCHANGED <<todo, ends, buf, input, line, parsed>>
    BY <1>7 DEF Kill, Sleep, ExitClose
  <2>2. todo' \in [Proc -> Seq(Call2)]
    BY <1>0, <2>1 DEF ProgramType
  <2> QED
    BY <2>1, <2>2, OnlyTodo
<1> QED
  BY <1>1, <1>2, <1>3, <1>4, <1>5, <1>6, <1>7

(* pipe() sets the descriptors of a variable. *)
LEMMA PipeProgram ==
  ASSUME Programs, TableType, NEW p \in Proc, SysPipe(p)
  PROVE  Programs'
<1>0. ProgramType /\ todo[p] # <<>> /\ Head(todo[p]).c = "pipe" /\ UNCHANGED <<buf, input, line, parsed>>
  BY DEF Programs, SysPipe, AtCall
<1>1. CASE GoesOn(p, <<Exit>>) /\ UNCHANGED ends
  BY <1>0, <1>1, ExitType, OnlyTodo
<1>2. CASE ~(GoesOn(p, <<Exit>>) /\ UNCHANGED ends)
  <2> DEFINE F == FreeFds(p)
             k == Head(todo[p]).k
             d0 == Lowest(F)
             d1 == Lowest(F \ {d0})
  <2>1. Done(p) /\ ends' = [ends EXCEPT ![p][k] = <<d0, d1>>] /\ ~(Cardinality(F) < 2)
    BY <1>2 DEF SysPipe
  <2>2. F \subseteq Nat /\ IsFiniteSet(F) /\ F \subseteq Fd
    BY Tables, FS_Subset DEF FreeFds
  <2>3. d0 \in Fd /\ d1 \in Fd
    BY <2>1, <2>2, TwoIn
  <2>4. k \in PipeVar
    BY <1>0, HeadType
  <2> HIDE DEF F, k, d0, d1
  <2>5. ends' \in [Proc -> [PipeVar -> Fd \X Fd]]
    <3>1. ends \in [Proc -> [PipeVar -> Fd \X Fd]]
      BY <1>0 DEF ProgramType
    <3>2. <<d0, d1>> \in Fd \X Fd
      BY <2>3
    <3> QED
      BY <2>1, <2>4, <3>1, <3>2
  <2>6. todo' \in [Proc -> Seq(Call2)]
    BY <1>0, <2>1, DoneType
  <2> QED
    BY <1>0, <2>5, <2>6 DEF Programs, ProgramType, DataType, LineType
<1> QED
  BY <1>1, <1>2

(* fork() starts a program with the parent's variables. *)
LEMMA ForkProgram ==
  ASSUME Programs, NEW p \in Proc, SysFork(p)
  PROVE  Programs'
<1>0. ProgramType /\ todo[p] # <<>> /\ Head(todo[p]).c = "fork" /\ UNCHANGED <<buf, input, line, parsed>>
  BY DEF Programs, SysFork, AtCall
<1>1. CASE GoesOn(p, <<Exit>>) /\ UNCHANGED ends
  BY <1>0, <1>1, ExitType, OnlyTodo
<1>2. CASE ~(GoesOn(p, <<Exit>>) /\ UNCHANGED ends)
  <2>1. PICK q \in Proc :
          /\ todo' = [todo EXCEPT ![p] = Expand(Tail(@)), ![q] = Expand(Head(todo[p]).child)]
          /\ ends' = [ends EXCEPT ![q] = ends[p]]
    BY <1>2 DEF SysFork
  <2>2. Expand(Tail(todo[p])) \in Seq(Call2) /\ Expand(Head(todo[p]).child) \in Seq(Call2)
    BY <1>0, HeadType, ExpandType
  <2>3. todo' \in [Proc -> Seq(Call2)] /\ ends' \in [Proc -> [PipeVar -> Fd \X Fd]]
    BY <1>0, <2>1, <2>2 DEF ProgramType
  <2> QED
    BY <1>0, <2>3 DEF Programs, ProgramType, DataType, LineType
<1> QED
  BY <1>1, <1>2

(* exit() and the shell's child. *)
LEMMA OtherProgram ==
  ASSUME Programs, NEW p \in Proc, ExitZombie(p) \/ ParseLine(p)
  PROVE  Programs'
<1>0. ProgramType
  BY DEF Programs
<1>1. CASE ExitZombie(p)
  <2>1. NoEnds \in [PipeVar -> Fd \X Fd]
    BY Tables DEF NoEnds
  <2>2. /\ todo' \in [Proc -> Seq(Call2)] /\ ends' \in [Proc -> [PipeVar -> Fd \X Fd]]
        /\ buf' \in [Proc -> Seq(Nat)] /\ UNCHANGED <<input, line, parsed>>
    BY <1>1, <2>1 DEF ExitZombie, Programs, ProgramType, DataType
  <2> QED
    BY <2>2 DEF Programs, ProgramType, DataType, LineType
<1>2. CASE ParseLine(p)
  <2>1. todo' \in [Proc -> Seq(Call2)]
    <3>1. CASE line \in Runs /\ parsed.ok
      <4>1. Run(parsed.cmd) \in Call2 /\ GoesOn(p, <<Run(parsed.cmd)>>)
        BY <1>2, <3>1, Calls DEF ParseLine, Programs, LineType
      <4>2. <<Run(parsed.cmd)>> \in Seq(Call2)
        BY <4>1
      <4> QED
        BY <1>0, <4>1, <4>2, GoesOnType
    <3>2. CASE ~(line \in Runs /\ parsed.ok)
      BY <1>0, <1>2, <3>2, ExitType DEF ParseLine
    <3> QED
      BY <3>1, <3>2
  <2>2. LineType' /\ UNCHANGED <<ends, buf, input>>
    BY <1>2 DEF ParseLine, LineType, Nothing, procvars
  <2> QED
    BY <2>1, <2>2 DEF Programs, ProgramType, DataType
<1> QED
  BY <1>1, <1>2

(* The agents. *)
LEMMA AgentProgram ==
  ASSUME Programs, TableType, RefInv, RingInv, NEW p \in Proc,
         ReadOther(p) \/ Emit(p) \/ PipeRead(p) \/ PipeWrite(p)
  PROVE  Programs'
<1>0. ProgramType /\ todo \in [Proc -> Seq(Call2)] /\ buf \in [Proc -> Seq(Nat)] /\ input \in Seq(Nat)
  BY DEF Programs, ProgramType, DataType
<1>1. CASE ReadOther(p)
  <2>0. UNCHANGED <<ends, line, parsed>>
    BY <1>1 DEF ReadOther, procvars
  <2>1. CASE In(p).kind = "console" /\ input # <<>>
    <3>1. Got(p, Head(input)) /\ input' = Tail(input) /\ Head(input) \in Nat /\ Tail(input) \in Seq(Nat)
      BY <1>0, <1>1, <2>1 DEF ReadOther
    <3> QED
      BY <2>0, <3>1, GotType, TodoAndBuf
  <2>2. CASE ~(In(p).kind = "console" /\ input # <<>>)
    <3>1. LineRead(p) /\ UNCHANGED <<input, buf>>
      BY <1>1, <2>2 DEF ReadOther
    <3> QED
      BY <1>0, <2>0, <3>1, LineReadType, TodoAndBuf
  <2> QED
    BY <2>1, <2>2
<1>2. CASE Emit(p)
  <2>0. UNCHANGED <<ends, line, parsed, input>> /\ "write" \in CallNames
    BY <1>2 DEF Emit, procvars, CallNames
  <2>1. CASE GoesOn(p, <<Exit>>) /\ UNCHANGED buf
    BY <1>0, <2>0, <2>1, ExitType, TodoAndBuf
  <2>2. CASE GoesOn(p, <<Op("write")>>) /\ buf' = [buf EXCEPT ![p] = Append(@, 0)]
    <3>1. buf' \in [Proc -> Seq(Nat)]
      BY <1>0, <2>2
    <3> QED
      BY <1>0, <2>0, <2>2, <3>1, WordType, TodoAndBuf
  <2>3. CASE NextLine(p)
    BY <1>0, <2>0, <2>3, NextLineType, TodoAndBuf
  <2> QED
    BY <1>2, <2>1, <2>2, <2>3 DEF Emit
<1>3. CASE PipeRead(p)
  <2> DEFINE i == In(p).pi
             P == pipe[i]
  <2>0. UNCHANGED <<ends, line, parsed, input>>
    BY <1>3 DEF PipeRead
  <2>1. CASE UNCHANGED <<todo, buf>>
    BY <1>0, <2>0, <2>1, TodoAndBuf
  <2>2. CASE LineRead(p) /\ UNCHANGED buf
    BY <1>0, <2>0, <2>2, LineReadType, TodoAndBuf
  <2>3. CASE Got(p, P.data[P.nread % PIPESIZE])
    <3>1. P \in PipeType
      BY <1>3, InPipe DEF PipeRead, TableType
    <3>2. P.nread % PIPESIZE \in 0 .. PIPESIZE - 1 /\ P.data \in [0 .. PIPESIZE - 1 -> Nat]
      BY <3>1, Sizes DEF PipeType
    <3>3. P.data[P.nread % PIPESIZE] \in Nat
      BY <3>2
    <3> QED
      BY <1>0, <2>0, <2>3, <3>3, GotType, TodoAndBuf
  <2> QED
    BY <1>3, <2>1, <2>2, <2>3 DEF PipeRead
<1>4. CASE PipeWrite(p)
  <2> DEFINE P == pipe[Out(p).pi]
             left == buf[p]
             n == Least(Len(left), Room(P))
  <2>0. UNCHANGED <<ends, line, parsed, input>>
    BY <1>4 DEF PipeWrite
  <2>1. CASE NextLine(p)
    BY <1>0, <2>0, <2>1, NextLineType, TodoAndBuf
  <2>2. CASE n < Len(left) /\ buf' = [buf EXCEPT ![p] = SubSeq(left, n + 1, Len(left))] /\ UNCHANGED todo
    <3>1. P \in PipeType /\ Fill(P) <= PIPESIZE
      BY <1>4, OutPipe DEF PipeWrite, TableType, RingInv
    <3>2. left \in Seq(Nat) /\ Len(left) \in Nat /\ Fill(P) \in Int /\ PIPESIZE \in Int
      BY <1>0, <3>1, Fills, Sizes, LenProperties
    <3>3. n \in Nat
      BY <3>1, <3>2 DEF Least, Room
    <3> HIDE DEF n
    <3>4. \A m \in n + 1 .. Len(left) : m \in 1 .. Len(left)
      BY <3>2, <3>3
    <3>5. \A m \in n + 1 .. Len(left) : left[m] \in Nat
      BY <3>2, <3>4, ElementOfSeq
    <3>6. SubSeq(left, n + 1, Len(left)) \in Seq(Nat)
      BY <3>2, <3>3, <3>5, SubSeqProperties
    <3>7. buf' \in [Proc -> Seq(Nat)]
      BY <1>0, <2>2, <3>6
    <3> QED
      BY <1>0, <2>0, <2>2, <3>7, TodoAndBuf
  <2> QED
    BY <1>4, <2>1, <2>2 DEF PipeWrite
<1> QED
  BY <1>1, <1>2, <1>3, <1>4

---------------------------------------------------------------------------
(* The tables of files and pipes.                                          *)

Tab == TableType /\ RefInv /\ EndInv /\ GoneInv /\ PipeHeld /\ RingInv

(* What happens to pipe i is a step of its stream, or nothing. *)
StreamOK(i) == Stream(i)!Next \/ UNCHANGED Stream(i)!vars
Streams == \A i \in PipeId : StreamOK(i)

(* A pipe that is left alone. *)
LEMMA StreamSame ==
  ASSUME NEW i \in PipeId, pipe'[i] = pipe[i]
  PROVE  StreamOK(i)
<1>1. UNCHANGED <<Content(i), pipe[i].readopen, pipe[i].writeopen>>
  BY DEF Content, Bytes, Fill, Add
<1> QED
  BY <1>1 DEF StreamOK, Stream!vars

(* Nobody vanishes with descriptors open. *)
StaysAway ==
  /\ state' \in [Proc -> {"unused", "run", "sleep", "zombie"}]
  /\ \A q \in Proc : state'[q] \in {"unused", "zombie"} =>
       state[q] \in {"unused", "zombie"} \/ \A d \in Fd : ofile[q][d] = None

(* A step that leaves files and pipes alone. *)
LEMMA TablesSame ==
  ASSUME Tab, StaysAway, UNCHANGED <<ofile, file, pipe>>
  PROVE  Tab' /\ Streams
<1>1. TableType' /\ GoneInv'
  BY DEF Tab, TableType, StaysAway, GoneInv
<1>2. EndInv' /\ PipeHeld'
  BY DEF Tab, EndInv, PipeHeld
<1>5. RefInv'
  <2>1. Descriptor' = Descriptor
    BY DEF Descriptor
  <2> QED
    BY <2>1 DEF Tab, RefInv
<1>3. RingInv'
  BY DEF Tab, RingInv, Fill
<1>4. Streams
  BY StreamSame DEF Streams
<1> QED
  BY <1>1, <1>2, <1>3, <1>4, <1>5 DEF Tab

(* wakeup() *)
LEMMA WakeupStays ==
  ASSUME TableType, GoneInv, NEW c, wakeup(Sleepers(c))
  PROVE  StaysAway
  BY DEF wakeup, StaysAway, TableType, GoneInv, Sleepers

(* The system calls that do not touch files. *)
LEMMA QuietTables ==
  ASSUME Tab, NEW p \in Proc,
         SysWait(p) \/ SysExec(p) \/ ParseLine(p) \/ Die(p) \/ Kill(p) \/ Sleep(p) \/ ReadOther(p) \/ Emit(p)
         \/ ExitZombie(p)
  PROVE  Tab' /\ Streams
<1>0. state \in [Proc -> {"unused", "run", "sleep", "zombie"}] /\ GoneInv
  BY DEF Tab, TableType
<1>1. CASE SysExec(p) \/ ParseLine(p) \/ Die(p) \/ ReadOther(p) \/ Emit(p)
  <2>1. UNCHANGED <<state, ofile, file, pipe>>
    BY <1>1 DEF SysExec, ParseLine, Die, ReadOther, Emit, procvars
  <2>2. StaysAway
    BY <1>0, <2>1 DEF StaysAway
  <2> QED
    BY <2>1, <2>2, TablesSame
<1>2. CASE SysWait(p)
  <2>1. UNCHANGED <<ofile, file, pipe>>
    BY <1>2 DEF SysWait
  <2>2. CASE UNCHANGED state
    <3>1. StaysAway
      BY <1>0, <2>2 DEF StaysAway
    <3> QED
      BY <2>1, <3>1, TablesSame
  <2>3. CASE \E q \in Proc : state[q] = "zombie" /\ state' = [state EXCEPT ![q] = "unused"]
    <3>1. StaysAway
      BY <1>0, <2>3 DEF StaysAway, GoneInv
    <3> QED
      BY <2>1, <3>1, TablesSame
  <2> QED
    BY <1>2, <2>2, <2>3 DEF SysWait
<1>3. CASE Kill(p) \/ Sleep(p)
  <2>1. UNCHANGED <<ofile, file, pipe>> /\ (state' = [state EXCEPT ![p] = "run"] \/ state' = [state EXCEPT ![p] = "sleep"])
    BY <1>3 DEF Kill, Sleep
  <2>2. StaysAway
    BY <1>0, <2>1 DEF StaysAway, GoneInv
  <2> QED
    BY <2>1, <2>2, TablesSame
<1>4. CASE ExitZombie(p)
  <2>1. /\ UNCHANGED <<ofile, file, pipe>>
        /\ state' = [q \in Proc |-> IF parent[q] = p /\ state[q] = "zombie" THEN "unused" ELSE Gone(p)[q]]
        /\ \A d \in Fd : ofile[p][d] = None
    BY <1>4 DEF ExitZombie, FreeFds
  <2>2. \A q \in Proc : Gone(p)[q] \in {"unused", "run", "sleep", "zombie"} /\ (q # p => Gone(p)[q] = state[q])
    BY <1>0 DEF Gone
  <2>3. StaysAway
    BY <1>0, <2>1, <2>2 DEF StaysAway, GoneInv
  <2> QED
    BY <2>1, <2>3, TablesSame
<1> QED
  BY <1>1, <1>2, <1>3, <1>4

(* One descriptor comes to stand for something else. *)
SetsFd(p, d, v) == ofile' = [ofile EXCEPT ![p][d] = v]

(* Then one count may fall and one may rise. *)
LEMMA OneDescriptor ==
  ASSUME TableType, NEW p \in Proc, NEW d \in Fd, NEW v \in {None} \cup File,
         SetsFd(p, d, v), NEW f \in File
  PROVE  /\ ofile' \in [Proc -> [Fd -> {None} \cup File]]
         /\ Occ(Descriptor', f) = Occ(Descriptor, f) - Is(ofile[p][d], f) + Is(v, f)
         /\ Occ(Descriptor, f) \in Nat /\ Occ(Descriptor', f) \in Nat
<1>1. ofile \in [Proc -> [Fd -> {None} \cup File]]
  BY DEF TableType
<1>2. ofile' \in [Proc -> [Fd -> {None} \cup File]]
  BY <1>1 DEF SetsFd
<1>3. \A q \in Proc, e \in Fd : ofile'[q][e] = IF q = p /\ e = d THEN v ELSE ofile[q][e]
  BY <1>1 DEF SetsFd
<1> DEFINE S == Proc \X Fd
           a == <<p, d>>
           F == Descriptor
           G == Descriptor'
<1>4. DOMAIN F = S /\ DOMAIN G = S /\ a \in S /\ IsFiniteSet(S)
  BY Tables DEF Descriptor
<1>5. F[a] = ofile[p][d] /\ G[a] = v
  BY <1>3 DEF Descriptor
<1>6. \A s \in S \ {a} : G[s] = F[s]
  <2> SUFFICES ASSUME NEW s \in S \ {a} PROVE G[s] = F[s]
    OBVIOUS
  <2>1. s[1] \in Proc /\ s[2] \in Fd /\ s = <<s[1], s[2]>>
    OBVIOUS
  <2>2. ~(s[1] = p /\ s[2] = d)
    BY <2>1
  <2> QED
    BY <1>3, <2>1, <2>2 DEF Descriptor
<1> HIDE DEF S, a, F, G
<1>7. Occ(G, f) = Occ(F, f) - Is(F[a], f) + Is(G[a], f) /\ Occ(F, f) \in Nat /\ Occ(G, f) \in Nat
  BY <1>4, <1>6, OccStep
<1> QED
  BY <1>2, <1>5, <1>7 DEF F, G

(* An end of a pipe is open: some file is for it. *)
Leads(F, i, w) == \E f \in File : F[f].ref > 0 /\ F[f].pi = i /\ F[f].writable = w

(* A pipe and its files agree. *)
HeldOK(F, P, i) == /\ P.used <=> Leads(F, i, TRUE) \/ Leads(F, i, FALSE)
                   /\ P.readopen <=> Leads(F, i, FALSE)
                   /\ P.writeopen <=> Leads(F, i, TRUE)

(* PipeHeld in these words. *)
LEMMA HeldIs ==
  ASSUME NEW F \in [File -> FileType], NEW P, NEW i \in PipeId
  PROVE  HeldOK(F, P, i) <=>
           /\ P.used <=> \E f \in File : F[f].ref > 0 /\ F[f].pi = i
           /\ P.readopen <=> \E f \in File : F[f].ref > 0 /\ F[f].pi = i /\ ~F[f].writable
           /\ P.writeopen <=> \E f \in File : F[f].ref > 0 /\ F[f].pi = i /\ F[f].writable
<1>1. \A f \in File : F[f].writable \in BOOLEAN
  BY DEF FileType
<1>2. Leads(F, i, TRUE) <=> \E f \in File : F[f].ref > 0 /\ F[f].pi = i /\ F[f].writable
  BY <1>1 DEF Leads
<1>3. Leads(F, i, FALSE) <=> \E f \in File : F[f].ref > 0 /\ F[f].pi = i /\ ~F[f].writable
  BY <1>1 DEF Leads
<1>4. (Leads(F, i, TRUE) \/ Leads(F, i, FALSE)) <=> \E f \in File : F[f].ref > 0 /\ F[f].pi = i
  BY <1>2, <1>3
<1> QED
  BY <1>2, <1>3, <1>4 DEF HeldOK

(* The same for all of them. *)
LEMMA HeldAll ==
  ASSUME TableType
  PROVE  PipeHeld <=> \A i \in PipeId : HeldOK(file, pipe[i], i)
<1>1. file \in [File -> FileType]
  BY DEF TableType
<1> QED
  BY <1>1, HeldIs DEF PipeHeld

(* Files that lead to i still do, and no others. *)
SameLeads(F, G, i) ==
  \A f \in File : (F[f].ref > 0 /\ F[f].pi = i) \/ (G[f].ref > 0 /\ G[f].pi = i) =>
    (F[f].ref > 0 <=> G[f].ref > 0) /\ G[f].pi = F[f].pi /\ G[f].writable = F[f].writable

(* Then the ends of i are as open as they were. *)
LEMMA LeadsSame ==
  ASSUME NEW F, NEW G, NEW i, SameLeads(F, G, i), NEW w
  PROVE  Leads(F, i, w) <=> Leads(G, i, w)
  BY DEF Leads, SameLeads

(* Pipes that are left alone with their files agree with them. *)
LEMMA HeldSame ==
  ASSUME NEW i \in PipeId, SameLeads(file, file', i), HeldOK(file, pipe[i], i),
         pipe'[i].used = pipe[i].used, pipe'[i].readopen = pipe[i].readopen, pipe'[i].writeopen = pipe[i].writeopen
  PROVE  HeldOK(file', pipe'[i], i)
<1>1. (Leads(file, i, TRUE) <=> Leads(file', i, TRUE)) /\ (Leads(file, i, FALSE) <=> Leads(file', i, FALSE))
  BY LeadsSame
<1> QED
  BY <1>1 DEF HeldOK

(* PipeHeld of the next state. *)
LEMMA HeldNext ==
  ASSUME file' \in [File -> FileType], \A i \in PipeId : HeldOK(file', pipe'[i], i)
  PROVE  PipeHeld'
<1> SUFFICES ASSUME NEW i \in PipeId
             PROVE  /\ pipe'[i].used <=> \E f \in File : file'[f].ref > 0 /\ file'[f].pi = i
                    /\ pipe'[i].readopen <=> \E f \in File : file'[f].ref > 0 /\ file'[f].pi = i /\ ~file'[f].writable
                    /\ pipe'[i].writeopen <=> \E f \in File : file'[f].ref > 0 /\ file'[f].pi = i /\ file'[f].writable
  BY DEF PipeHeld
<1> DEFINE F == file'
           P == pipe'[i]
<1>1. F \in [File -> FileType] /\ HeldOK(F, P, i)
  OBVIOUS
<1> HIDE DEF F, P
<1>2. /\ P.used <=> \E f \in File : F[f].ref > 0 /\ F[f].pi = i
      /\ P.readopen <=> \E f \in File : F[f].ref > 0 /\ F[f].pi = i /\ ~F[f].writable
      /\ P.writeopen <=> \E f \in File : F[f].ref > 0 /\ F[f].pi = i /\ F[f].writable
  BY <1>1, HeldIs
<1> QED
  BY <1>2 DEF F, P

(* A count changes, but not to or from 0. *)
LEMMA CountOnly ==
  ASSUME Tab, NEW p \in Proc, NEW d \in Fd, NEW v \in {None} \cup File, NEW f \in File, NEW n \in Nat, n > 0,
         file[f].ref > 0, state[p] = "run", SetsFd(p, d, v), file' = [file EXCEPT ![f].ref = n],
         n = file[f].ref - Is(ofile[p][d], f) + Is(v, f), ofile[p][d] \in {None, f}, v \in {None, f},
         UNCHANGED <<state, pipe>>
  PROVE  Tab' /\ Streams
<1>0. TableType /\ RefInv /\ EndInv /\ GoneInv /\ PipeHeld /\ RingInv
  BY DEF Tab
<1>1. file \in [File -> FileType] /\ file' \in [File -> FileType]
  <2>1. file \in [File -> FileType]
    BY <1>0 DEF TableType
  <2>2. [file[f] EXCEPT !.ref = n] \in FileType
    BY <2>1 DEF FileType
  <2> QED
    BY <2>1, <2>2
<1>2. \A g \in File : /\ file'[g].kind = file[g].kind /\ file'[g].pi = file[g].pi /\ file'[g].writable = file[g].writable
                      /\ file'[g].ref = IF g = f THEN n ELSE file[g].ref
                      /\ g # f => file'[g] = file[g]
  BY <1>1 DEF FileType
<1>3. TableType'
  BY <1>0, <1>1, OneDescriptor DEF TableType
<1>4. RefInv'
  <2> SUFFICES ASSUME NEW g \in File
               PROVE  /\ file'[g].ref = Occ(Descriptor', g)
                      /\ file'[g].ref = 0 => file'[g] = NoFile
                      /\ file'[g].kind = "pipe" <=> file'[g].pi # None
    BY DEF RefInv
  <2>1. Occ(Descriptor', g) = Occ(Descriptor, g) - Is(ofile[p][d], g) + Is(v, g) /\ Occ(Descriptor, g) \in Nat
    BY <1>0, OneDescriptor
  <2>2. file[g].ref = Occ(Descriptor, g)
    BY <1>0 DEF RefInv
  <2>3. g # f => Is(ofile[p][d], g) = 0 /\ Is(v, g) = 0
    BY Tables DEF Is
  <2>4. file'[g].ref = Occ(Descriptor', g)
    <3>1. CASE g = f
      BY <1>2, <2>1, <2>2, <3>1
    <3>2. CASE g # f
      BY <1>2, <2>1, <2>2, <2>3, <3>2
    <3> QED
      BY <3>1, <3>2
  <2> QED
    BY <1>0, <1>2, <2>4 DEF RefInv
<1>5. EndInv'
  BY <1>0, <1>2 DEF EndInv
<1>6. GoneInv'
  BY <1>0 DEF GoneInv, TableType, SetsFd
<1>7. PipeHeld'
  <2>1. ASSUME NEW i \in PipeId PROVE HeldOK(file', pipe'[i], i)
    <3>1. SameLeads(file, file', i)
      BY <1>2 DEF SameLeads
    <3>2. HeldOK(file, pipe[i], i)
      BY <1>0, HeldAll
    <3> QED
      BY <3>1, <3>2, HeldSame
  <2> QED
    BY <1>1, <2>1, HeldNext
<1>8. RingInv'
  BY <1>0 DEF RingInv, Fill
<1>9. Streams
  BY StreamSame DEF Streams
<1> QED
  BY <1>3, <1>4, <1>5, <1>6, <1>7, <1>8, <1>9 DEF Tab

(* The last reference to a file goes. *)
Drops(p, d, f) ==
  ofile[p][d] = f /\ file[f].ref = 1 /\ SetsFd(p, d, None) /\ file' = [file EXCEPT ![f] = NoFile]

(* Files and descriptors agree then. *)
LEMMA DropFile ==
  ASSUME Tab, NEW p \in Proc, NEW d \in Fd, NEW f \in File, Drops(p, d, f), StaysAway
  PROVE  /\ ofile' \in [Proc -> [Fd -> {None} \cup File]] /\ file' \in [File -> FileType]
         /\ file'[f] = NoFile /\ \A g \in File \ {f} : file'[g] = file[g]
         /\ RefInv' /\ EndInv' /\ GoneInv'
<1>0. TableType /\ RefInv /\ EndInv /\ GoneInv /\ file \in [File -> FileType] /\ SetsFd(p, d, None)
  BY DEF Tab, TableType, Drops
<1>1. NoFile \in FileType
  BY DEF NoFile, FileType
<1>2. file' \in [File -> FileType] /\ file'[f] = NoFile /\ \A g \in File \ {f} : file'[g] = file[g]
  BY <1>0, <1>1 DEF Drops
<1>3. ofile' \in [Proc -> [Fd -> {None} \cup File]]
  BY <1>0, OneDescriptor
<1>4. RefInv'
  <2> SUFFICES ASSUME NEW g \in File
               PROVE  /\ file'[g].ref = Occ(Descriptor', g)
                      /\ file'[g].ref = 0 => file'[g] = NoFile
                      /\ file'[g].kind = "pipe" <=> file'[g].pi # None
    BY DEF RefInv
  <2>1. Occ(Descriptor', g) = Occ(Descriptor, g) - Is(ofile[p][d], g) + Is(None, g) /\ Occ(Descriptor, g) \in Nat
    BY <1>0, OneDescriptor
  <2>2. Is(None, g) = 0
    BY Tables DEF Is
  <2>3. file[g].ref = Occ(Descriptor, g)
    BY <1>0 DEF RefInv
  <2>4. CASE g = f
    <3>1. Is(ofile[p][d], g) = 1 /\ file[f].ref = 1
      BY <2>4 DEF Drops, Is
    <3>2. Occ(Descriptor', g) = 0
      BY <2>1, <2>2, <2>3, <2>4, <3>1
    <3> QED
      BY <1>2, <2>4, <3>2 DEF NoFile
  <2>5. CASE g # f
    <3>1. Is(ofile[p][d], g) = 0
      BY <2>5 DEF Drops, Is
    <3>2. Occ(Descriptor', g) = file[g].ref
      BY <2>1, <2>2, <2>3, <3>1
    <3> QED
      BY <1>0, <1>2, <2>5, <3>2 DEF RefInv
  <2> QED
    BY <2>4, <2>5
<1>5. EndInv'
  BY <1>0, <1>2 DEF EndInv, NoFile
<1>6. GoneInv'
  <2>1. \A q \in Proc, e \in Fd : ofile[q][e] = None => ofile'[q][e] = None
    BY <1>0 DEF SetsFd, TableType
  <2> QED
    BY <1>0, <2>1 DEF GoneInv, StaysAway
<1> QED
  BY <1>2, <1>3, <1>4, <1>5, <1>6

(* It was not a pipe's. *)
LEMMA DropOther ==
  ASSUME Tab, NEW p \in Proc, NEW d \in Fd, NEW f \in File, Drops(p, d, f), StaysAway,
         file[f].kind # "pipe", UNCHANGED pipe
  PROVE  Tab' /\ Streams
<1>0. TableType /\ RefInv /\ PipeHeld /\ RingInv
  BY DEF Tab
<1>1. /\ ofile' \in [Proc -> [Fd -> {None} \cup File]] /\ file' \in [File -> FileType]
      /\ file'[f] = NoFile /\ \A g \in File \ {f} : file'[g] = file[g]
      /\ RefInv' /\ EndInv' /\ GoneInv'
  BY DropFile
<1>2. TableType'
  BY <1>0, <1>1 DEF TableType, StaysAway
<1>3. file[f].pi = None /\ file'[f].ref = 0
  BY <1>0, <1>1 DEF RefInv, NoFile
<1>4. PipeHeld'
  <2>1. ASSUME NEW i \in PipeId PROVE HeldOK(file', pipe'[i], i)
    <3>1. SameLeads(file, file', i)
      BY <1>1, <1>3, Tables DEF SameLeads
    <3>2. HeldOK(file, pipe[i], i)
      BY <1>0, HeldAll
    <3> QED
      BY <3>1, <3>2, HeldSame
  <2> QED
    BY <1>1, <2>1, HeldNext
<1>5. RingInv'
  BY <1>0 DEF RingInv, Fill
<1>6. Streams
  BY StreamSame DEF Streams
<1> QED
  BY <1>1, <1>2, <1>4, <1>5, <1>6 DEF Tab

(* A pipe that is not in use is empty, and in order. *)
LEMMA NoPipeFacts == NoPipe \in PipeType /\ Fill(NoPipe) = 0 /\ Bytes(NoPipe) = <<>> /\ Ring(NoPipe)
<1>1. NoPipe \in PipeType /\ NoPipe.nread = NoPipe.nwrite
  BY Sizes DEF NoPipe, PipeType
<1>2. Fill(NoPipe) = 0
  BY <1>1, Fills
<1>3. Ring(NoPipe)
  BY <1>1, <1>2, Sizes DEF Ring
<1> QED
  BY <1>1, <1>2, <1>3, BytesType

(* An end of a pipe is closed: P with writeopen or readopen FALSE. *)
Shut(P, w) == IF w THEN [P EXCEPT !.writeopen = FALSE] ELSE [P EXCEPT !.readopen = FALSE]
Closed(P, w) == IF Shut(P, w).readopen \/ Shut(P, w).writeopen THEN Shut(P, w) ELSE NoPipe

(* The page goes with the second end. *)
LEMMA ClosedFacts ==
  ASSUME NEW P \in PipeType, NEW w \in BOOLEAN, NEW Q, Q = Closed(P, w)
  PROVE  /\ Q \in PipeType
         /\ w => ~Q.writeopen /\ (Q.readopen <=> P.readopen)
         /\ ~w => ~Q.readopen /\ (Q.writeopen <=> P.writeopen)
         /\ IF Q.readopen \/ Q.writeopen
            THEN Q.used = P.used /\ Fill(Q) = Fill(P) /\ Bytes(Q) = Bytes(P)
            ELSE Q = NoPipe
<1> DEFINE T == Shut(P, w)
<1>1. /\ T \in PipeType /\ T.used = P.used /\ T.nread = P.nread /\ T.nwrite = P.nwrite /\ T.data = P.data
      /\ w => ~T.writeopen /\ (T.readopen <=> P.readopen)
      /\ ~w => ~T.readopen /\ (T.writeopen <=> P.writeopen)
  BY DEF Shut, PipeType
<1>2. Q = IF T.readopen \/ T.writeopen THEN T ELSE NoPipe
  BY DEF Closed
<1> HIDE DEF T
<1>3. Fill(T) = Fill(P) /\ Bytes(T) = Bytes(P)
  BY <1>1 DEF Fill, Bytes
<1>4. NoPipe \in PipeType /\ ~NoPipe.readopen /\ ~NoPipe.writeopen
  BY NoPipeFacts DEF NoPipe
<1>5. CASE T.readopen \/ T.writeopen
  BY <1>1, <1>2, <1>3, <1>5
<1>6. CASE ~(T.readopen \/ T.writeopen)
  BY <1>1, <1>2, <1>4, <1>6
<1> QED
  BY <1>5, <1>6

(* The last file of an end of a pipe goes. *)
LEMMA DropPipe ==
  ASSUME Tab, NEW p \in Proc, NEW d \in Fd, NEW f \in File, Drops(p, d, f), StaysAway,
         file[f].kind = "pipe", NEW i \in PipeId, i = file[f].pi,
         pipe' = [pipe EXCEPT ![i] = Closed(pipe[i], file[f].writable)]
  PROVE  Tab' /\ Streams
<1>0. TableType /\ RefInv /\ EndInv /\ PipeHeld /\ RingInv
  BY DEF Tab
<1>1. /\ ofile' \in [Proc -> [Fd -> {None} \cup File]] /\ file' \in [File -> FileType]
      /\ file'[f] = NoFile /\ \A g \in File \ {f} : file'[g] = file[g]
      /\ RefInv' /\ EndInv' /\ GoneInv'
  BY DropFile
<1> DEFINE w == file[f].writable
           P == pipe[i]
           Q == Closed(P, w)
<1>2. w \in BOOLEAN /\ P \in PipeType /\ pipe \in [PipeId -> PipeType] /\ file[f].ref = 1 /\ f # None
  BY <1>0, Tables DEF TableType, FileType, Drops
<1>3. /\ Q \in PipeType
      /\ w => ~Q.writeopen /\ (Q.readopen <=> P.readopen)
      /\ ~w => ~Q.readopen /\ (Q.writeopen <=> P.writeopen)
      /\ IF Q.readopen \/ Q.writeopen
         THEN Q.used = P.used /\ Fill(Q) = Fill(P) /\ Bytes(Q) = Bytes(P)
         ELSE Q = NoPipe
  BY <1>2, ClosedFacts
<1>4. pipe'[i] = Q /\ (\A j \in PipeId \ {i} : pipe'[j] = pipe[j]) /\ pipe' \in [PipeId -> PipeType]
  <2> HIDE DEF Q
  <2>1. pipe' = [pipe EXCEPT ![i] = Q]
    BY DEF Q
  <2> QED
    BY <1>2, <1>3, <2>1
<1> HIDE DEF w, Q, P
<1>5. TableType'
  BY <1>0, <1>1, <1>4 DEF TableType, StaysAway
<1>6. ASSUME NEW j \in PipeId \ {i} PROVE HeldOK(file', pipe'[j], j)
  <2>1. SameLeads(file, file', j)
    BY <1>1 DEF SameLeads, NoFile
  <2>2. HeldOK(file, pipe[j], j)
    BY <1>0, HeldAll
  <2> QED
    BY <1>4, <2>1, <2>2, HeldSame
<1>7. HeldOK(file, P, i)
  BY <1>0, HeldAll DEF P
<1>8. ~Leads(file', i, w)
  <2> SUFFICES ASSUME NEW g \in File, file'[g].ref > 0, file'[g].pi = i, file'[g].writable = w PROVE FALSE
    BY DEF Leads
  <2>1. g # f
    BY <1>1 DEF NoFile
  <2>2. file[g].pi = i /\ file[g].writable = w /\ i # None
    BY <1>1, <2>1, Tables
  <2> QED
    BY <1>0, <2>1, <2>2 DEF EndInv, w
<1>9. Leads(file, i, w)
  BY <1>2 DEF Leads, w
<1>10. Leads(file', i, ~w) <=> Leads(file, i, ~w)
  <2>1. \A g \in File : g # f => file'[g] = file[g]
    BY <1>1
  <2>2. file[f].writable # (~w) /\ ~(file'[f].ref > 0)
    BY <1>1, <1>2 DEF w, NoFile
  <2> QED
    BY <2>1, <2>2 DEF Leads
<1>11. HeldOK(file', Q, i)
  <2>1. CASE w = TRUE
    <3>1. /\ ~Leads(file', i, TRUE) /\ Leads(file, i, TRUE)
          /\ Leads(file', i, FALSE) <=> Leads(file, i, FALSE)
      BY <1>8, <1>9, <1>10, <2>1
    <3>2. P.used /\ (P.readopen <=> Leads(file, i, FALSE))
      BY <1>7, <3>1 DEF HeldOK
    <3>3. ~Q.writeopen /\ (Q.readopen <=> P.readopen) /\ (Q.used <=> Q.readopen)
      <4>1. ~Q.writeopen /\ (Q.readopen <=> P.readopen)
        BY <1>3, <2>1
      <4>2. CASE Q.readopen
        <5>1. Q.used = P.used
          BY <1>3, <4>2
        <5> QED
          BY <3>2, <4>1, <4>2, <5>1
      <4>3. CASE ~Q.readopen
        <5>1. Q = NoPipe
          BY <1>3, <4>1, <4>3
        <5>2. ~NoPipe.used
          BY DEF NoPipe
        <5> QED
          BY <4>1, <4>3, <5>1, <5>2
      <4> QED
        BY <4>2, <4>3
    <3> QED
      BY <3>1, <3>2, <3>3 DEF HeldOK
  <2>2. CASE w = FALSE
    <3>1. /\ ~Leads(file', i, FALSE) /\ Leads(file, i, FALSE)
          /\ Leads(file', i, TRUE) <=> Leads(file, i, TRUE)
      BY <1>8, <1>9, <1>10, <2>2
    <3>2. P.used /\ (P.writeopen <=> Leads(file, i, TRUE))
      BY <1>7, <3>1 DEF HeldOK
    <3>3. ~Q.readopen /\ (Q.writeopen <=> P.writeopen) /\ (Q.used <=> Q.writeopen)
      <4>1. ~Q.readopen /\ (Q.writeopen <=> P.writeopen)
        BY <1>3, <2>2
      <4>2. CASE Q.writeopen
        <5>1. Q.used = P.used
          BY <1>3, <4>2
        <5> QED
          BY <3>2, <4>1, <4>2, <5>1
      <4>3. CASE ~Q.writeopen
        <5>1. Q = NoPipe
          BY <1>3, <4>1, <4>3
        <5>2. ~NoPipe.used
          BY DEF NoPipe
        <5> QED
          BY <4>1, <4>3, <5>1, <5>2
      <4> QED
        BY <4>2, <4>3
    <3> QED
      BY <3>1, <3>2, <3>3 DEF HeldOK
  <2> QED
    BY <1>2, <2>1, <2>2
<1>12. PipeHeld'
  <2>1. \A j \in PipeId : HeldOK(file', pipe'[j], j)
    BY <1>4, <1>6, <1>11
  <2> QED
    BY <1>1, <2>1, HeldNext
<1>13. Fill(Q) <= PIPESIZE /\ (~Q.used => Q = NoPipe)
  <2>1. Fill(P) <= PIPESIZE /\ Fill(NoPipe) = 0
    BY <1>0, NoPipeFacts DEF RingInv, P
  <2>2. Q.readopen \/ Q.writeopen => Q.used
    BY <1>11 DEF HeldOK
  <2> QED
    BY <1>3, <2>1, <2>2, Sizes
<1>14. RingInv'
  <2>1. ASSUME NEW j \in PipeId PROVE Fill(pipe'[j]) <= PIPESIZE /\ (~pipe'[j].used => pipe'[j] = NoPipe)
    <3>1. CASE j = i
      BY <1>4, <1>13, <3>1
    <3>2. CASE j # i
      BY <1>0, <1>4, <3>2 DEF RingInv
    <3> QED
      BY <3>1, <3>2
  <2> QED
    BY <2>1 DEF RingInv, Fill
<1>15. StreamOK(i)
  <2>1. (P.readopen <=> Leads(file, i, FALSE)) /\ (P.writeopen <=> Leads(file, i, TRUE))
    BY <1>7 DEF HeldOK
  <2>2. Content(i) = Bytes(P) /\ Content(i)' = Bytes(Q) /\ pipe[i] = P /\ pipe'[i] = Q
    BY <1>4 DEF Content, Bytes, Fill, Add, P
  <2>3. Bytes(Q) = IF Q.readopen \/ Q.writeopen THEN Bytes(P) ELSE <<>>
    BY <1>3, NoPipeFacts
  <2>4. /\ P.readopen \in BOOLEAN /\ Q.readopen \in BOOLEAN /\ P.writeopen \in BOOLEAN /\ Q.writeopen \in BOOLEAN
    BY <1>2, <1>3 DEF PipeType
  <2>5. CASE w = TRUE
    <3>1. /\ pipe[i].writeopen /\ ~pipe'[i].writeopen /\ pipe'[i].readopen = pipe[i].readopen
          /\ Content(i)' = IF pipe[i].readopen THEN Content(i) ELSE <<>>
      BY <1>3, <1>9, <2>1, <2>2, <2>3, <2>4, <2>5
    <3>2. Stream(i)!CloseWriter
      BY <3>1 DEF Stream!CloseWriter
    <3> QED
      BY <3>2 DEF StreamOK, Stream!Next
  <2>6. CASE w = FALSE
    <3>1. /\ pipe[i].readopen /\ ~pipe'[i].readopen /\ pipe'[i].writeopen = pipe[i].writeopen
          /\ Content(i)' = IF pipe[i].writeopen THEN Content(i) ELSE <<>>
      BY <1>3, <1>9, <2>1, <2>2, <2>3, <2>4, <2>6
    <3>2. Stream(i)!CloseReader
      BY <3>1 DEF Stream!CloseReader
    <3> QED
      BY <3>2 DEF StreamOK, Stream!Next
  <2> QED
    BY <1>2, <2>5, <2>6
<1>16. Streams
  BY <1>4, <1>15, StreamSame DEF Streams
<1> QED
  BY <1>1, <1>5, <1>12, <1>14, <1>16 DEF Tab

(* fileclose() *)
LEMMA CloseTables ==
  ASSUME Tab, NEW p \in Proc, NEW d \in Fd, state[p] = "run", fileclose(p, d)
  PROVE  Tab' /\ Streams
<1>0. TableType /\ RefInv /\ GoneInv /\ SetsFd(p, d, None)
  BY DEF Tab, SetsFd, fileclose
<1> DEFINE f == ofile[p][d]
<1>1. f \in {None} \cup File
  BY <1>0 DEF TableType
<1>2. UNCHANGED state => StaysAway
  BY <1>0 DEF StaysAway, TableType
<1>3. CASE f = None
  <2>1. UNCHANGED <<file, pipe, state>>
    BY <1>3 DEF fileclose
  <2>2. ofile' = ofile
    BY <1>0, <1>3 DEF SetsFd, TableType
  <2> QED
    BY <1>2, <2>1, <2>2, TablesSame
<1>4. CASE f # None /\ file[f].ref # 1
  <2>0. f \in File
    BY <1>1, <1>4
  <2> DEFINE n == file[f].ref - 1
  <2>1. file[f].ref > 0 /\ file[f] \in FileType
    BY <1>0, <1>4, OpenFile
  <2>2. n \in Nat /\ n > 0
    BY <1>4, <2>1 DEF FileType
  <2>3. file' = [file EXCEPT ![f].ref = n] /\ UNCHANGED <<state, pipe>>
    BY <1>4 DEF fileclose
  <2>4. Is(ofile[p][d], f) = 1 /\ Is(None, f) = 0
    BY <2>0, Tables DEF Is
  <2>5. n = file[f].ref - Is(ofile[p][d], f) + Is(None, f)
    BY <2>1, <2>4 DEF FileType
  <2>6. ofile[p][d] \in {None, f} /\ None \in {None, f} /\ None \in {None} \cup File
    OBVIOUS
  <2> HIDE DEF n, f
  <2> QED
    BY <1>0, <2>0, <2>1, <2>2, <2>3, <2>5, <2>6, CountOnly
<1>5. CASE f # None /\ file[f].ref = 1
  <2>0. f \in File /\ Drops(p, d, f)
    BY <1>0, <1>1, <1>5 DEF Drops, fileclose
  <2>1. CASE file[f].kind # "pipe"
    <3>1. UNCHANGED <<pipe, state>>
      BY <1>5, <2>1 DEF fileclose
    <3> HIDE DEF f
    <3> QED
      BY <1>2, <2>0, <2>1, <3>1, DropOther
  <2>2. CASE file[f].kind = "pipe"
    <3>1. pipeclose(file[f].pi, file[f].writable)
      BY <1>5, <2>2 DEF fileclose
    <3> DEFINE i == file[f].pi
               w == file[f].writable
    <3>2. i \in PipeId /\ w \in BOOLEAN
      BY <1>0, <2>0, <2>2 DEF RefInv, TableType, FileType
    <3>3. StaysAway
      <4>1. \E c : wakeup(Sleepers(c))
        BY <3>1 DEF pipeclose
      <4> QED
        BY <1>0, <4>1, WakeupStays
    <3>4. pipe' = [pipe EXCEPT ![i] = Closed(pipe[i], w)]
      BY <3>1 DEF pipeclose, Closed, Shut
    <3> HIDE DEF f, i
    <3>5. i = file[f].pi
      BY DEF i
    <3> QED
      BY <2>0, <2>2, <3>2, <3>3, <3>4, <3>5, DropPipe
  <2> QED
    BY <2>1, <2>2
<1> QED
  BY <1>1, <1>3, <1>4, <1>5

(* close() and exit() *)
LEMMA SysCloseTables ==
  ASSUME Tab, Programs, NEW p \in Proc, SysClose(p) \/ ExitClose(p)
  PROVE  Tab' /\ Streams
<1>0. ProgramType /\ ends \in [Proc -> [PipeVar -> Fd \X Fd]]
  BY DEF Programs, ProgramType
<1>1. CASE AtCall(p, "close") /\ fileclose(p, Head(todo[p]).d)
  <2>1. Head(todo[p]).d \in Fd /\ state[p] = "run"
    <3>1. Head(todo[p]).d \in 0 .. 1 /\ state[p] = "run"
      BY <1>0, <1>1, HeadType DEF AtCall
    <3>2. 0 .. 1 \subseteq Fd
      BY Sizes DEF Fd
    <3> QED
      BY <3>1, <3>2
  <2> QED
    BY <1>1, <2>1, CloseTables
<1>2. CASE AtCall(p, "closeend") /\ fileclose(p, ends[p][Head(todo[p]).k][Head(todo[p]).e + 1])
  <2>1. Head(todo[p]).k \in PipeVar /\ Head(todo[p]).e \in 0 .. 1 /\ state[p] = "run"
    BY <1>0, <1>2, HeadType DEF AtCall
  <2>2. ends[p][Head(todo[p]).k][Head(todo[p]).e + 1] \in Fd
    <3> DEFINE k == Head(todo[p]).k
               e == Head(todo[p]).e
               pr == ends[p][k]
    <3>1. pr \in Fd \X Fd /\ e + 1 \in {1, 2}
      BY <1>0, <2>1
    <3> HIDE DEF pr, e
    <3>2. pr[e + 1] \in Fd
      BY <3>1
    <3> QED
      BY <3>2 DEF pr, e
  <2> QED
    BY <1>2, <2>1, <2>2, CloseTables
<1>3. CASE ExitClose(p)
  <2>1. state[p] = "run" /\ FreeFds(p) # Fd /\ fileclose(p, Lowest(Fd \ FreeFds(p)))
    BY <1>3 DEF ExitClose, AtCall
  <2>2. Lowest(Fd \ FreeFds(p)) \in Fd
    <3>1. Fd \ FreeFds(p) # {} /\ Fd \ FreeFds(p) \subseteq Nat
      BY <2>1, Tables DEF FreeFds
    <3> QED
      BY <3>1, LowestIn
  <2> QED
    BY <2>1, <2>2, CloseTables
<1> QED
  BY <1>1, <1>2, <1>3 DEF SysClose

(* dup() *)
LEMMA SysDupTables ==
  ASSUME Tab, Programs, NEW p \in Proc, SysDup(p)
  PROVE  Tab' /\ Streams
<1>0. TableType /\ RefInv /\ GoneInv /\ ProgramType /\ ends \in [Proc -> [PipeVar -> Fd \X Fd]]
  BY DEF Tab, Programs, ProgramType
<1> DEFINE k == Head(todo[p]).k
           e == Head(todo[p]).e
           pr == ends[p][k]
           g == pr[e + 1]
           f == ofile[p][g]
           d == Lowest(FreeFds(p))
<1>1. k \in PipeVar /\ e \in 0 .. 1 /\ state[p] = "run" /\ UNCHANGED <<state, pipe>>
  BY <1>0, HeadType DEF SysDup, AtCall, procvars
<1>2. g \in Fd
  <2>1. pr \in Fd \X Fd /\ e + 1 \in {1, 2}
    BY <1>0, <1>1
  <2> HIDE DEF pr, e
  <2> QED
    BY <2>1
<1>3. IF f = None \/ FreeFds(p) = {} THEN UNCHANGED <<ofile, file>>
      ELSE ofile' = [ofile EXCEPT ![p][d] = f] /\ file' = [file EXCEPT ![f].ref = @ + 1]
  BY DEF SysDup
<1> HIDE DEF k, e, pr, g, d
<1>4. CASE f = None \/ FreeFds(p) = {}
  <2>1. StaysAway
    BY <1>0, <1>1 DEF StaysAway, TableType
  <2> QED
    BY <1>1, <1>3, <1>4, <2>1, TablesSame
<1>5. CASE ~(f = None \/ FreeFds(p) = {})
  <2>1. f \in File /\ file[f].ref > 0 /\ file[f] \in FileType
    BY <1>0, <1>2, <1>5, OpenFile
  <2>2. d \in Fd /\ ofile[p][d] = None
    <3>1. FreeFds(p) \subseteq Nat /\ FreeFds(p) # {}
      BY <1>5, Tables DEF FreeFds
    <3>2. d \in FreeFds(p)
      BY <3>1, LowestIn DEF d
    <3> QED
      BY <3>2 DEF FreeFds
  <2> DEFINE n == file[f].ref + 1
  <2>3. n \in Nat /\ n > 0
    BY <2>1 DEF FileType
  <2>4. SetsFd(p, d, f) /\ file' = [file EXCEPT ![f].ref = n]
    BY <1>3, <1>5 DEF SetsFd
  <2>5. Is(ofile[p][d], f) = 0 /\ Is(f, f) = 1
    BY <2>1, <2>2, Tables DEF Is
  <2>6. n = file[f].ref - Is(ofile[p][d], f) + Is(f, f)
    BY <2>1, <2>5 DEF FileType
  <2>7. ofile[p][d] \in {None, f} /\ f \in {None, f} /\ f \in {None} \cup File
    BY <2>1, <2>2
  <2> HIDE DEF n, f
  <2> QED
    BY <1>1, <2>1, <2>2, <2>3, <2>4, <2>6, <2>7, CountOnly
<1> QED
  BY <1>4, <1>5

(* open(): a file that was free has one reference. *)
LEMMA SysOpenTables ==
  ASSUME Tab, NEW p \in Proc, SysOpen(p)
  PROVE  Tab' /\ Streams
<1>0. /\ TableType /\ RefInv /\ EndInv /\ GoneInv /\ PipeHeld /\ RingInv /\ file \in [File -> FileType]
      /\ state[p] = "run" /\ UNCHANGED <<state, pipe>>
  BY DEF Tab, TableType, SysOpen, AtCall, procvars
<1> DEFINE f == Lowest(FreeFiles)
           d == Lowest(FreeFds(p))
           N == [ref |-> 1, kind |-> "file", pi |-> None, writable |-> d = 1]
<1>1. CASE UNCHANGED <<file, ofile>>
  <2>1. StaysAway
    BY <1>0 DEF StaysAway, TableType
  <2> QED
    BY <1>0, <1>1, <2>1, TablesSame
<1>2. CASE /\ FreeFiles # {} /\ FreeFds(p) # {} /\ file' = [file EXCEPT ![f] = N]
           /\ ofile' = [ofile EXCEPT ![p][d] = f]
  <2>1. f \in File /\ file[f].ref = 0
    <3>1. FreeFiles \subseteq Nat
      BY Tables DEF FreeFiles
    <3>2. f \in FreeFiles
      BY <1>2, <3>1, LowestIn
    <3> QED
      BY <3>2 DEF FreeFiles
  <2>2. d \in Fd /\ ofile[p][d] = None
    <3>1. FreeFds(p) \subseteq Nat
      BY Tables DEF FreeFds
    <3>2. d \in FreeFds(p)
      BY <1>2, <3>1, LowestIn
    <3> QED
      BY <3>2 DEF FreeFds
  <2>3. N \in FileType /\ N.ref = 1 /\ N.pi = None /\ N.kind = "file"
    BY DEF FileType
  <2>4. SetsFd(p, d, f)
    BY <1>2 DEF SetsFd
  <2> HIDE DEF f, d, N
  <2>5. file' \in [File -> FileType] /\ file'[f] = N /\ \A g \in File \ {f} : file'[g] = file[g]
    BY <1>0, <1>2, <2>1, <2>3
  <2>6. file[f].pi = None /\ file[f].ref = 0
    BY <1>0, <2>1 DEF RefInv, NoFile
  <2>7. TableType'
    <3>1. f \in {None} \cup File
      BY <2>1
    <3>2. ofile' \in [Proc -> [Fd -> {None} \cup File]]
      BY <1>0, <2>1, <2>2, <2>4, <3>1, OneDescriptor
    <3> QED
      BY <1>0, <2>5, <3>2 DEF TableType
  <2>8. RefInv'
    <3> SUFFICES ASSUME NEW g \in File
                 PROVE  /\ file'[g].ref = Occ(Descriptor', g)
                        /\ file'[g].ref = 0 => file'[g] = NoFile
                        /\ file'[g].kind = "pipe" <=> file'[g].pi # None
      BY DEF RefInv
    <3>0. f \in {None} \cup File
      BY <2>1
    <3>1. Occ(Descriptor', g) = Occ(Descriptor, g) - Is(ofile[p][d], g) + Is(f, g) /\ Occ(Descriptor, g) \in Nat
      BY <1>0, <2>2, <2>4, <3>0, OneDescriptor
    <3>2. Is(ofile[p][d], g) = 0
      BY <2>2, Tables DEF Is
    <3>3. file[g].ref = Occ(Descriptor, g)
      BY <1>0 DEF RefInv
    <3>4. CASE g = f
      <4>1. Is(f, g) = 1
        BY <3>4 DEF Is
      <4>2. Occ(Descriptor', g) = 1
        BY <2>6, <3>1, <3>2, <3>3, <3>4, <4>1
      <4> QED
        BY <2>3, <2>5, <3>4, <4>2
    <3>5. CASE g # f
      <4>1. Is(f, g) = 0
        BY <3>5 DEF Is
      <4>2. Occ(Descriptor', g) = file[g].ref
        BY <3>1, <3>2, <3>3, <4>1
      <4> QED
        BY <1>0, <2>5, <3>5, <4>2 DEF RefInv
    <3> QED
      BY <3>4, <3>5
  <2>9. EndInv'
    BY <1>0, <2>3, <2>5 DEF EndInv
  <2>10. GoneInv'
    BY <1>0, <2>4 DEF GoneInv, SetsFd, TableType
  <2>11. PipeHeld'
    <3>1. ASSUME NEW i \in PipeId PROVE HeldOK(file', pipe'[i], i)
      <4>1. SameLeads(file, file', i)
        BY <2>3, <2>5, <2>6, Tables DEF SameLeads
      <4>2. HeldOK(file, pipe[i], i)
        BY <1>0, HeldAll
      <4> QED
        BY <1>0, <4>1, <4>2, HeldSame
    <3> QED
      BY <2>5, <3>1, HeldNext
  <2>12. RingInv' /\ Streams
    BY <1>0, StreamSame DEF RingInv, Fill, Streams
  <2> QED
    BY <2>7, <2>8, <2>9, <2>10, <2>11, <2>12 DEF Tab
<1> QED
  BY <1>1, <1>2 DEF SysOpen

(* fork(): the child has the descriptors of the parent. *)
LEMMA SysForkTables ==
  ASSUME Tab, NEW p \in Proc, SysFork(p)
  PROVE  Tab' /\ Streams
<1>0. /\ TableType /\ RefInv /\ EndInv /\ GoneInv /\ PipeHeld /\ RingInv /\ file \in [File -> FileType]
      /\ ofile \in [Proc -> [Fd -> {None} \cup File]]
      /\ state[p] = "run" /\ UNCHANGED pipe
  BY DEF Tab, TableType, SysFork, AtCall
<1>1. CASE UNCHANGED <<state, file, ofile>>
  <2>1. StaysAway
    BY <1>0, <1>1 DEF StaysAway, TableType
  <2> QED
    BY <1>0, <1>1, <2>1, TablesSame
<1>2. CASE ~UNCHANGED <<state, file, ofile>>
  <2> DEFINE Fds(f) == {d \in Fd : ofile[p][d] = f}
  <2>1. PICK q \in Proc :
          /\ state[q] = "unused" /\ state' = [state EXCEPT ![q] = "run"]
          /\ ofile' = [ofile EXCEPT ![q] = ofile[p]]
          /\ file' = [f \in File |-> [file[f] EXCEPT !.ref = @ + Cardinality(Fds(f))]]
    BY <1>2 DEF SysFork
  <2>2. p # q /\ \A d \in Fd : ofile[q][d] = None
    BY <1>0, <2>1 DEF GoneInv
  <2>3. ASSUME NEW f \in File
        PROVE  Cardinality(Fds(f)) \in Nat /\ Occ(Descriptor', f) = Occ(Descriptor, f) + Cardinality(Fds(f))
               /\ Occ(Descriptor, f) \in Nat /\ (Cardinality(Fds(f)) > 0 => Occ(Descriptor, f) > 0)
    <3> DEFINE A == {s \in Proc \X Fd : ofile[s[1]][s[2]] = f}
               B == {q} \X Fds(f)
               C == {s \in Proc \X Fd : ofile'[s[1]][s[2]] = f}
    <3>1. C = A \cup B /\ A \cap B = {}
      <4>1. \A r \in Proc, d \in Fd : ofile'[r][d] = IF r = q THEN ofile[p][d] ELSE ofile[r][d]
        BY <1>0, <2>1
      <4>2. f # None
        BY Tables
      <4>3. \A r \in Proc, d \in Fd : <<r, d>> \in C <=> <<r, d>> \in A \/ <<r, d>> \in B
        BY <2>2, <4>1, <4>2
      <4>4. \A r \in Proc, d \in Fd : ~(<<r, d>> \in A /\ <<r, d>> \in B)
        BY <2>2, <4>2
      <4>5. A \subseteq Proc \X Fd /\ B \subseteq Proc \X Fd /\ C \subseteq Proc \X Fd
        OBVIOUS
      <4> HIDE DEF A, B, C
      <4> QED
        BY <4>3, <4>4, <4>5
    <3>2. IsFiniteSet(A) /\ IsFiniteSet(Fds(f)) /\ IsFiniteSet({q}) /\ Cardinality({q}) = 1
      BY Tables, FS_Subset, FS_Singleton
    <3>3. IsFiniteSet(B) /\ Cardinality(B) = 1 * Cardinality(Fds(f)) /\ Cardinality(Fds(f)) \in Nat
      BY <3>2, FS_Product, FS_CardinalityType
    <3>4. Occ(Descriptor, f) = Cardinality(A) /\ Occ(Descriptor', f) = Cardinality(C)
      <4>1. DOMAIN Descriptor = Proc \X Fd /\ \A s \in Proc \X Fd : Descriptor[s] = ofile[s[1]][s[2]]
        BY DEF Descriptor
      <4>2. DOMAIN Descriptor' = Proc \X Fd /\ \A s \in Proc \X Fd : Descriptor'[s] = ofile'[s[1]][s[2]]
        BY DEF Descriptor
      <4> QED
        BY <4>1, <4>2 DEF Occ
    <3>5. Cardinality(Fds(f)) > 0 => A # {}
      <4> SUFFICES ASSUME Cardinality(Fds(f)) > 0 PROVE A # {}
        OBVIOUS
      <4>1. Fds(f) # {}
        BY FS_EmptySet
      <4>2. PICK d \in Fd : ofile[p][d] = f
        BY <4>1
      <4>3. <<p, d>> \in A
        BY <4>2
      <4> QED
        BY <4>3
    <3> HIDE DEF A, B, C, Fds
    <3>6. Cardinality(C) = Cardinality(A) + Cardinality(B) /\ Cardinality(A) \in Nat
      <4>1. Cardinality(A \cup B) = Cardinality(A) + Cardinality(B) - Cardinality(A \cap B)
        BY <3>2, <3>3, FS_Union
      <4>2. Cardinality(A \cap B) = 0 /\ Cardinality(A) \in Nat /\ Cardinality(B) \in Nat
        BY <3>1, <3>2, <3>3, FS_EmptySet, FS_CardinalityType
      <4> QED
        BY <3>1, <4>1, <4>2
    <3>7. A # {} => Cardinality(A) # 0
      BY <3>2, FS_EmptySet
    <3> QED
      BY <3>3, <3>4, <3>5, <3>6, <3>7
  <2>4. ASSUME NEW f \in File
        PROVE  /\ file'[f] \in FileType /\ file'[f].kind = file[f].kind /\ file'[f].pi = file[f].pi
               /\ file'[f].writable = file[f].writable /\ file'[f].ref = Occ(Descriptor', f)
               /\ file'[f].ref > 0 <=> file[f].ref > 0
               /\ file[f].ref = 0 => file'[f] = file[f]
    <3> DEFINE n == Cardinality(Fds(f))
    <3>1. file[f].ref = Occ(Descriptor, f) /\ file[f] \in FileType
      BY <1>0 DEF RefInv
    <3>2. n \in Nat /\ (n > 0 => file[f].ref > 0) /\ Occ(Descriptor', f) = file[f].ref + n /\ file[f].ref \in Nat
      BY <2>3, <3>1
    <3>3. file'[f] = [file[f] EXCEPT !.ref = @ + n]
      BY <2>1
    <3> HIDE DEF n
    <3>4. file[f].ref = 0 => n = 0
      BY <3>2
    <3>5. n = 0 => file'[f] = file[f]
      BY <3>1, <3>2, <3>3 DEF FileType
    <3>6. /\ file'[f] \in FileType /\ file'[f].kind = file[f].kind /\ file'[f].pi = file[f].pi
          /\ file'[f].writable = file[f].writable /\ file'[f].ref = file[f].ref + n
      BY <3>1, <3>2, <3>3 DEF FileType
    <3> QED
      BY <3>2, <3>4, <3>5, <3>6
  <2>5. file' \in [File -> FileType]
    <3>1. DOMAIN file' = File /\ file' = [f \in File |-> file'[f]]
      BY <2>1
    <3> QED
      BY <2>4, <3>1
  <2>6. TableType'
    <3>1. ofile' \in [Proc -> [Fd -> {None} \cup File]] /\ state' \in [Proc -> {"unused", "run", "sleep", "zombie"}]
      BY <1>0, <2>1 DEF TableType
    <3> QED
      BY <1>0, <2>5, <3>1 DEF TableType
  <2>7. RefInv'
    <3> SUFFICES ASSUME NEW g \in File
                 PROVE  /\ file'[g].ref = Occ(Descriptor', g)
                        /\ file'[g].ref = 0 => file'[g] = NoFile
                        /\ file'[g].kind = "pipe" <=> file'[g].pi # None
      BY DEF RefInv
    <3>1. file[g].ref \in Nat /\ file'[g].ref \in Nat
      BY <1>0, <2>4 DEF FileType
    <3> QED
      BY <1>0, <2>4, <3>1 DEF RefInv
  <2>8. EndInv'
    BY <1>0, <2>4 DEF EndInv
  <2>9. GoneInv'
    BY <1>0, <2>1 DEF GoneInv, TableType
  <2>10. PipeHeld'
    <3>1. ASSUME NEW i \in PipeId PROVE HeldOK(file', pipe'[i], i)
      <4>1. SameLeads(file, file', i)
        BY <2>4 DEF SameLeads
      <4>2. HeldOK(file, pipe[i], i)
        BY <1>0, HeldAll
      <4> QED
        BY <1>0, <4>1, <4>2, HeldSame
    <3> QED
      BY <2>5, <3>1, HeldNext
  <2>11. RingInv' /\ Streams
    BY <1>0, StreamSame DEF RingInv, Fill, Streams
  <2> QED
    BY <2>6, <2>7, <2>8, <2>9, <2>10, <2>11 DEF Tab
<1> QED
  BY <1>1, <1>2

(* What is in a pipe changes, its ends do not. *)
LEMMA RingTables ==
  ASSUME Tab, StaysAway, UNCHANGED <<ofile, file>>, NEW i \in PipeId, NEW Q, Ring(Q),
         pipe' = [pipe EXCEPT ![i] = Q], Q.used = pipe[i].used, pipe[i].used,
         Q.readopen = pipe[i].readopen, Q.writeopen = pipe[i].writeopen
  PROVE  /\ Tab' /\ \A j \in PipeId \ {i} : StreamOK(j)
         /\ pipe'[i] = Q /\ Content(i) = Bytes(pipe[i]) /\ Content(i)' = Bytes(Q)
<1>0. TableType /\ RefInv /\ EndInv /\ GoneInv /\ PipeHeld /\ RingInv /\ pipe \in [PipeId -> PipeType]
  BY DEF Tab, TableType
<1>1. Q \in PipeType /\ Fill(Q) <= PIPESIZE
  BY DEF Ring
<1>2. pipe' \in [PipeId -> PipeType] /\ pipe'[i] = Q /\ \A j \in PipeId \ {i} : pipe'[j] = pipe[j]
  BY <1>0, <1>1
<1>3. TableType' /\ GoneInv' /\ EndInv'
  BY <1>0, <1>2 DEF TableType, StaysAway, GoneInv, EndInv
<1>4. RefInv'
  <2>1. Descriptor' = Descriptor
    BY DEF Descriptor
  <2> QED
    BY <1>0, <2>1 DEF RefInv
<1>5. PipeHeld'
  <2>1. ASSUME NEW j \in PipeId PROVE HeldOK(file', pipe'[j], j)
    <3>1. SameLeads(file, file', j)
      BY DEF SameLeads
    <3>2. HeldOK(file, pipe[j], j)
      BY <1>0, HeldAll
    <3>3. /\ pipe'[j].used = pipe[j].used /\ pipe'[j].readopen = pipe[j].readopen
          /\ pipe'[j].writeopen = pipe[j].writeopen
      BY <1>2
    <3> QED
      BY <3>1, <3>2, <3>3, HeldSame
  <2>2. file' \in [File -> FileType]
    BY <1>0 DEF TableType
  <2> QED
    BY <2>1, <2>2, HeldNext
<1>6. RingInv'
  <2>1. ASSUME NEW j \in PipeId PROVE Fill(pipe'[j]) <= PIPESIZE /\ (~pipe'[j].used => pipe'[j] = NoPipe)
    <3>1. CASE j = i
      BY <1>1, <1>2, <3>1
    <3>2. CASE j # i
      BY <1>0, <1>2, <3>2 DEF RingInv
    <3> QED
      BY <3>1, <3>2
  <2> QED
    BY <2>1 DEF RingInv, Fill
<1>7. \A j \in PipeId \ {i} : StreamOK(j)
  BY <1>2, StreamSame
<1>8. Content(i) = Bytes(pipe[i]) /\ Content(i)' = Bytes(Q)
  BY <1>2 DEF Content, Bytes, Fill, Add
<1> QED
  BY <1>2, <1>3, <1>4, <1>5, <1>6, <1>7, <1>8 DEF Tab

(* A byte is taken from a pipe. *)
LEMMA TakeTables ==
  ASSUME Tab, StaysAway, UNCHANGED <<ofile, file>>, NEW i \in PipeId, Leads(file, i, FALSE),
         pipe[i].nread # pipe[i].nwrite, NEW Q, Q = [pipe[i] EXCEPT !.nread = Add(@, 1)],
         pipe' = [pipe EXCEPT ![i] = Q]
  PROVE  Tab' /\ Streams
<1>1. pipe[i] \in PipeType /\ Ring(pipe[i]) /\ pipe[i].readopen /\ pipe[i].used
  <2>1. HeldOK(file, pipe[i], i)
    BY HeldAll DEF Tab
  <2> QED
    BY <2>1 DEF Tab, TableType, RingInv, Ring, HeldOK
<1>2. Q.used = pipe[i].used /\ Q.readopen = pipe[i].readopen /\ Q.writeopen = pipe[i].writeopen
  BY <1>1 DEF PipeType
<1>3. Ring(Q) /\ Bytes(pipe[i]) # <<>> /\ Bytes(Q) = Tail(Bytes(pipe[i]))
  BY <1>1, RingTake
<1>4. /\ Tab' /\ \A j \in PipeId \ {i} : StreamOK(j)
      /\ pipe'[i] = Q /\ Content(i) = Bytes(pipe[i]) /\ Content(i)' = Bytes(Q)
  BY <1>1, <1>2, <1>3, RingTables
<1>5. StreamOK(i)
  <2>1. /\ pipe[i].readopen /\ pipe'[i].readopen = pipe[i].readopen /\ pipe'[i].writeopen = pipe[i].writeopen
        /\ Content(i) # <<>> /\ Content(i)' = Tail(Content(i))
    BY <1>1, <1>2, <1>3, <1>4
  <2>2. Stream(i)!Receive
    BY <2>1 DEF Stream!Receive
  <2> QED
    BY <2>2 DEF StreamOK, Stream!Next
<1> QED
  BY <1>4, <1>5 DEF Streams

(* piperead() *)
LEMMA PipeReadTables ==
  ASSUME Tab, NEW p \in Proc, PipeRead(p)
  PROVE  Tab' /\ Streams
<1>0. /\ TableType /\ RefInv /\ GoneInv /\ UNCHANGED <<ofile, file>> /\ In(p).kind = "pipe"
  BY DEF Tab, PipeRead
<1>1. PICK i \in PipeId : i = In(p).pi /\ Leads(file, i, FALSE)
  <2>1. /\ In(p).pi \in PipeId /\ ofile[p][0] \in File
        /\ file[ofile[p][0]].ref > 0 /\ file[ofile[p][0]].pi = In(p).pi /\ ~file[ofile[p][0]].writable
    BY <1>0, InPipe
  <2>2. file[ofile[p][0]].writable \in BOOLEAN
    BY <1>0, <2>1 DEF TableType, FileType
  <2> QED
    BY <2>1, <2>2 DEF Leads
<1>2. \/ UNCHANGED <<state, pipe>>
      \/ UNCHANGED pipe /\ wakeup(Sleepers(<<"nwrite", i>>))
      \/ /\ pipe[i].nread # pipe[i].nwrite /\ pipe' = [pipe EXCEPT ![i].nread = Add(@, 1)]
         /\ wakeup(Sleepers(<<"nwrite", i>>))
  BY <1>1 DEF PipeRead
<1>3. CASE UNCHANGED <<state, pipe>>
  <2>1. StaysAway
    BY <1>0, <1>3 DEF StaysAway, TableType
  <2> QED
    BY <1>0, <1>3, <2>1, TablesSame
<1>4. CASE UNCHANGED pipe /\ wakeup(Sleepers(<<"nwrite", i>>))
  <2>1. StaysAway
    BY <1>0, <1>4, WakeupStays
  <2> QED
    BY <1>0, <1>4, <2>1, TablesSame
<1>5. CASE /\ pipe[i].nread # pipe[i].nwrite /\ pipe' = [pipe EXCEPT ![i].nread = Add(@, 1)]
           /\ wakeup(Sleepers(<<"nwrite", i>>))
  <2>1. StaysAway
    BY <1>0, <1>5, WakeupStays
  <2> DEFINE Q == [pipe[i] EXCEPT !.nread = Add(@, 1)]
  <2>2. pipe' = [pipe EXCEPT ![i] = Q]
    BY <1>5
  <2>3. Q = [pipe[i] EXCEPT !.nread = Add(@, 1)]
    OBVIOUS
  <2> HIDE DEF Q
  <2> QED
    BY <1>0, <1>1, <1>5, <2>1, <2>2, <2>3, TakeTables
<1> QED
  BY <1>2, <1>3, <1>4, <1>5

(* Bytes are put in a pipe. *)
LEMMA PutTables ==
  ASSUME Tab, StaysAway, UNCHANGED <<ofile, file>>, NEW i \in PipeId, Leads(file, i, TRUE),
         NEW s \in Seq(Nat), Len(s) <= Room(pipe[i]), NEW Q, Q = Put(pipe[i], s), pipe' = [pipe EXCEPT ![i] = Q]
  PROVE  Tab' /\ Streams
<1>1. pipe[i] \in PipeType /\ Ring(pipe[i]) /\ pipe[i].writeopen /\ pipe[i].used
  <2>1. HeldOK(file, pipe[i], i)
    BY HeldAll DEF Tab
  <2> QED
    BY <2>1 DEF Tab, TableType, RingInv, Ring, HeldOK
<1>2. Ring(Q) /\ Bytes(Q) = Bytes(pipe[i]) \o s
  BY <1>1, RingPut
<1>3. Q.used = pipe[i].used /\ Q.readopen = pipe[i].readopen /\ Q.writeopen = pipe[i].writeopen
  <2>1. Len(s) <= PIPESIZE
    <3>1. Fill(pipe[i]) \in 0 .. PIPESIZE /\ Len(s) \in Nat
      BY <1>1, BytesType, LenProperties
    <3> QED
      BY <3>1, Sizes DEF Room
  <2>2. ASSUME NEW P \in PipeType, Q = Put(P, s)
        PROVE  Q.used = P.used /\ Q.readopen = P.readopen /\ Q.writeopen = P.writeopen
    BY <2>1, <2>2, PutFields
  <2> QED
    BY <1>1, <2>2
<1>4. /\ Tab' /\ \A j \in PipeId \ {i} : StreamOK(j)
      /\ pipe'[i] = Q /\ Content(i) = Bytes(pipe[i]) /\ Content(i)' = Bytes(Q)
  BY <1>1, <1>2, <1>3, RingTables
<1>5. Bytes(pipe[i]) \in Seq(Nat)
  BY <1>1, BytesType
<1>6. Len(Bytes(Q)) = Fill(Q) /\ Fill(Q) \in 0 .. PIPESIZE
  BY <1>2, BytesType
<1>7. StreamOK(i)
  <2> DEFINE b == Bytes(pipe[i])
             c == Bytes(Q)
  <2>1. b \in Seq(Nat) /\ c = b \o s /\ Len(c) \in 0 .. PIPESIZE /\ Content(i) = b /\ Content(i)' = c
    BY <1>2, <1>4, <1>5, <1>6
  <2> HIDE DEF b, c
  <2>2. Len(c) = Len(b) + Len(s) /\ Len(b) \in Nat /\ Len(s) \in Nat /\ Len(c) <= PIPESIZE
    BY <2>1, Sizes, ConcatProperties, LenProperties
  <2>3. CASE s = <<>>
    <3>1. c = b
      BY <2>1, <2>3, ConcatEmptySeq
    <3>2. UNCHANGED <<Content(i), pipe[i].readopen, pipe[i].writeopen>>
      BY <1>3, <1>4, <2>1, <3>1
    <3> QED
      BY <3>2 DEF StreamOK, Stream!vars
  <2>4. CASE s # <<>>
    <3>1. Len(s) > 0
      BY <2>2, <2>4, EmptySeq
    <3>2. SubSeq(c, 1, Len(b)) = b
      BY <2>1
    <3>3. pipe[i].writeopen /\ pipe'[i].readopen = pipe[i].readopen /\ pipe'[i].writeopen = pipe[i].writeopen
      BY <1>1, <1>3, <1>4
    <3>4. /\ Len(Content(i)') > Len(Content(i)) /\ Len(Content(i)') <= PIPESIZE
          /\ SubSeq(Content(i)', 1, Len(Content(i))) = Content(i)
      BY <2>1, <2>2, <3>1, <3>2
    <3>5. Stream(i)!Send
      BY <3>3, <3>4 DEF Stream!Send
    <3> QED
      BY <3>5 DEF StreamOK, Stream!Next
  <2> QED
    BY <2>3, <2>4
<1> QED
  BY <1>4, <1>7 DEF Streams

(* pipewrite() *)
LEMMA PipeWriteTables ==
  ASSUME Tab, Programs, NEW p \in Proc, PipeWrite(p)
  PROVE  Tab' /\ Streams
<1>0. /\ TableType /\ RefInv /\ GoneInv /\ RingInv /\ UNCHANGED <<ofile, file>> /\ Out(p).kind = "pipe"
      /\ buf[p] \in Seq(Nat) /\ state[p] = "run" /\ state \in [Proc -> {"unused", "run", "sleep", "zombie"}]
  BY DEF Tab, TableType, Programs, DataType, PipeWrite
<1>1. PICK i \in PipeId : i = Out(p).pi /\ Leads(file, i, TRUE)
  <2>1. /\ Out(p).pi \in PipeId /\ ofile[p][1] \in File
        /\ file[ofile[p][1]].ref > 0 /\ file[ofile[p][1]].pi = Out(p).pi /\ file[ofile[p][1]].writable
    BY <1>0, OutPipe
  <2>2. file[ofile[p][1]].writable \in BOOLEAN
    BY <1>0, <2>1 DEF TableType, FileType
  <2> QED
    BY <2>1, <2>2 DEF Leads
<1> DEFINE n == Least(Len(buf[p]), Room(pipe[i]))
<1>2. n \in Nat /\ n <= Room(pipe[i]) /\ n <= Len(buf[p]) /\ Len(buf[p]) \in Nat /\ Room(pipe[i]) \in Nat
  <2>1. Ring(pipe[i])
    BY <1>0 DEF TableType, RingInv, Ring
  <2>2. Fill(pipe[i]) \in 0 .. PIPESIZE /\ Len(buf[p]) \in Nat
    BY <1>0, <2>1, BytesType, LenProperties
  <2> QED
    BY <2>2, Sizes DEF Least, Room
<1>3. \/ UNCHANGED <<state, pipe>>
      \/ /\ \E k \in 0 .. Least(n, Len(buf[p]) - 1) : pipe' = [pipe EXCEPT ![i] = Put(pipe[i], SubSeq(buf[p], 1, k))]
         /\ UNCHANGED state
      \/ /\ pipe' = [pipe EXCEPT ![i] = Put(pipe[i], SubSeq(buf[p], 1, n))]
         /\ state' = [q \in Proc |-> IF q \in Sleepers(<<"nread", i>>) THEN "run" ELSE state[q]]
  BY <1>1 DEF PipeWrite
<1> HIDE DEF n
<1>4. CASE UNCHANGED <<state, pipe>>
  <2>1. StaysAway
    BY <1>0, <1>4 DEF StaysAway
  <2> QED
    BY <1>0, <1>4, <2>1, TablesSame
<1>5. ASSUME NEW k \in Nat, k <= Room(pipe[i]), k <= Len(buf[p]), StaysAway,
             pipe' = [pipe EXCEPT ![i] = Put(pipe[i], SubSeq(buf[p], 1, k))]
      PROVE  Tab' /\ Streams
  <2> DEFINE s == SubSeq(buf[p], 1, k)
             Q == Put(pipe[i], s)
  <2>1. s \in Seq(Nat) /\ Len(s) = k
    <3>1. k \in 0 .. Len(buf[p])
      BY <1>2, <1>5
    <3> QED
      BY <1>0, <1>2, <3>1, SubSeqProperties
  <2>2. Q = Put(pipe[i], s) /\ pipe' = [pipe EXCEPT ![i] = Q]
    BY <1>5
  <2> HIDE DEF s, Q
  <2>3. Len(s) <= Room(pipe[i])
    BY <1>5, <2>1
  <2> QED
    BY <1>0, <1>1, <1>5, <2>1, <2>2, <2>3, PutTables
<1>6. CASE /\ \E k \in 0 .. Least(n, Len(buf[p]) - 1) : pipe' = [pipe EXCEPT ![i] = Put(pipe[i], SubSeq(buf[p], 1, k))]
           /\ UNCHANGED state
  <2>1. PICK k \in 0 .. Least(n, Len(buf[p]) - 1) : pipe' = [pipe EXCEPT ![i] = Put(pipe[i], SubSeq(buf[p], 1, k))]
    BY <1>6
  <2>2. StaysAway
    BY <1>0, <1>6 DEF StaysAway
  <2>3. k \in Nat /\ k <= Room(pipe[i]) /\ k <= Len(buf[p])
    <3>1. Len(buf[p]) - 1 \in Int /\ Least(n, Len(buf[p]) - 1) \in Int /\ Least(n, Len(buf[p]) - 1) <= n
      BY <1>2 DEF Least
    <3>2. k \in Nat /\ k <= n
      BY <1>2, <3>1
    <3> QED
      BY <1>2, <3>2
  <2> QED
    BY <1>5, <2>1, <2>2, <2>3
<1>7. CASE /\ pipe' = [pipe EXCEPT ![i] = Put(pipe[i], SubSeq(buf[p], 1, n))]
           /\ state' = [q \in Proc |-> IF q \in Sleepers(<<"nread", i>>) THEN "run" ELSE state[q]]
  <2>1. StaysAway
    BY <1>0, <1>7 DEF StaysAway, Sleepers, GoneInv
  <2> QED
    BY <1>2, <1>5, <1>7, <2>1
<1> QED
  BY <1>3, <1>4, <1>6, <1>7

(* A pipe: two descriptors, for two files, one for each end of it. *)
LEMMA MakeTables ==
  ASSUME Tab, NEW p \in Proc, state[p] = "run", UNCHANGED state, NEW i \in PipeId, ~pipe[i].used,
         NEW r \in File, NEW w \in File \ {r}, file[r].ref = 0, file[w].ref = 0,
         NEW d0 \in Fd, NEW d1 \in Fd \ {d0}, ofile[p][d0] = None, ofile[p][d1] = None,
         NEW R, R = [ref |-> 1, kind |-> "pipe", pi |-> i, writable |-> FALSE],
         NEW W, W = [ref |-> 1, kind |-> "pipe", pi |-> i, writable |-> TRUE],
         NEW Q, Q = [NoPipe EXCEPT !.used = TRUE, !.readopen = TRUE, !.writeopen = TRUE],
         pipe' = [pipe EXCEPT ![i] = Q], file' = [file EXCEPT ![r] = R, ![w] = W],
         ofile' = [ofile EXCEPT ![p][d0] = r, ![p][d1] = w]
  PROVE  Tab' /\ Streams
<1>0. /\ TableType /\ RefInv /\ EndInv /\ GoneInv /\ PipeHeld /\ RingInv
      /\ ofile \in [Proc -> [Fd -> {None} \cup File]] /\ file \in [File -> FileType]
      /\ pipe \in [PipeId -> PipeType]
  BY DEF Tab, TableType
<1>1. R \in FileType /\ W \in FileType
  BY DEF FileType
<1>2. /\ R.ref = 1 /\ R.kind = "pipe" /\ R.pi = i /\ R.writable = FALSE
      /\ W.ref = 1 /\ W.kind = "pipe" /\ W.pi = i /\ W.writable = TRUE
  OBVIOUS
<1>3. /\ Q \in PipeType /\ Q.used = TRUE /\ Q.readopen = TRUE /\ Q.writeopen = TRUE
      /\ Q.nread = NoPipe.nread /\ Q.nwrite = NoPipe.nwrite /\ Q.data = NoPipe.data
  BY NoPipeFacts DEF PipeType
<1>4. Fill(Q) = 0 /\ Bytes(Q) = <<>> /\ Fill(Q) <= PIPESIZE
  <2>1. Fill(Q) = Fill(NoPipe) /\ Bytes(Q) = Bytes(NoPipe)
    BY <1>3 DEF Fill, Bytes
  <2> QED
    BY <2>1, NoPipeFacts, Sizes
<1>5. file' \in [File -> FileType] /\ file'[r] = R /\ file'[w] = W /\ \A g \in File \ {r, w} : file'[g] = file[g]
  BY <1>0, <1>1
<1>6. pipe' \in [PipeId -> PipeType] /\ pipe'[i] = Q /\ \A j \in PipeId \ {i} : pipe'[j] = pipe[j]
  BY <1>0, <1>3
<1>7. ofile' \in [Proc -> [Fd -> {None} \cup File]]
  BY <1>0
<1>8. \A q \in Proc, e \in Fd : ofile'[q][e] = IF q = p /\ e = d1 THEN w ELSE IF q = p /\ e = d0 THEN r ELSE ofile[q][e]
  BY <1>0
<1>9. file[r].pi = None /\ file[w].pi = None
  BY <1>0 DEF RefInv, NoFile
<1>10. \A f \in File : file[f].pi # i
  <2> SUFFICES ASSUME NEW f \in File, file[f].pi = i PROVE FALSE
    OBVIOUS
  <2>1. HeldOK(file, pipe[i], i)
    BY <1>0, HeldAll
  <2>2. file[f].ref \in Nat /\ file[f].writable \in BOOLEAN
    BY <1>0 DEF FileType
  <2>3. CASE file[f].ref = 0
    BY <1>0, <2>3, Tables DEF RefInv, NoFile
  <2>4. CASE file[f].ref > 0
    <3>1. Leads(file, i, TRUE) \/ Leads(file, i, FALSE)
      BY <2>2, <2>4 DEF Leads
    <3> QED
      BY <2>1, <3>1 DEF HeldOK
  <2> QED
    BY <2>2, <2>3, <2>4
<1>11. TableType'
  BY <1>0, <1>5, <1>6, <1>7 DEF TableType
<1>12. RefInv'
  <2> SUFFICES ASSUME NEW g \in File
               PROVE  /\ file'[g].ref = Occ(Descriptor', g)
                      /\ file'[g].ref = 0 => file'[g] = NoFile
                      /\ file'[g].kind = "pipe" <=> file'[g].pi # None
    BY DEF RefInv
  <2> DEFINE S == Proc \X Fd
             F == Descriptor
             G == Descriptor'
             a == <<p, d0>>
             b == <<p, d1>>
             M == [s \in S |-> IF s = a THEN r ELSE F[s]]
  <2>1. /\ DOMAIN F = S /\ DOMAIN G = S /\ DOMAIN M = S /\ a \in S /\ b \in S /\ a # b /\ IsFiniteSet(S)
        /\ F[a] = None /\ F[b] = None /\ M[a] = r /\ \A s \in S \ {a} : M[s] = F[s]
    BY Tables DEF Descriptor
  <2>2. G[b] = w /\ \A s \in S \ {b} : G[s] = M[s]
    <3>1. G[b] = w /\ G[a] = r
      BY <1>8 DEF Descriptor
    <3>2. ASSUME NEW s \in S, s # a, s # b PROVE G[s] = F[s]
      <4>1. s[1] \in Proc /\ s[2] \in Fd /\ s = <<s[1], s[2]>>
        OBVIOUS
      <4>2. ~(s[1] = p /\ s[2] = d0) /\ ~(s[1] = p /\ s[2] = d1)
        BY <3>2, <4>1
      <4>3. F[s] = ofile[s[1]][s[2]] /\ G[s] = ofile'[s[1]][s[2]]
        BY DEF Descriptor
      <4>4. \A q \in Proc, e \in Fd : ~(q = p /\ e = d0) /\ ~(q = p /\ e = d1) => ofile'[q][e] = ofile[q][e]
        <5> SUFFICES ASSUME NEW q \in Proc, NEW e \in Fd, ~(q = p /\ e = d0), ~(q = p /\ e = d1)
                     PROVE  ofile'[q][e] = ofile[q][e]
          BY Zenon
        <5> QED
          BY <1>8, Zenon
      <4>5. ofile'[s[1]][s[2]] = ofile[s[1]][s[2]]
        BY <4>1, <4>2, <4>4, Zenon
      <4> HIDE DEF F, G
      <4> QED
        BY <4>3, <4>5
    <3> HIDE DEF S, F, G, a, b, M
    <3> QED
      BY <2>1, <3>1, <3>2
  <2> HIDE DEF S, F, G, a, b, M
  <2>3. Occ(M, g) = Occ(F, g) - Is(F[a], g) + Is(M[a], g) /\ Occ(F, g) \in Nat /\ Occ(M, g) \in Nat
    BY <2>1, OccStep
  <2>4. Occ(G, g) = Occ(M, g) - Is(M[b], g) + Is(G[b], g) /\ Occ(G, g) \in Nat
    BY <2>1, <2>2, OccStep
  <2>5. M[b] = None /\ Is(None, g) = 0
    BY <2>1, Tables DEF Is
  <2>6. Occ(G, g) = Occ(F, g) + Is(r, g) + Is(w, g)
    <3>1. Is(r, g) \in Nat /\ Is(w, g) \in Nat
      BY DEF Is
    <3> QED
      BY <2>1, <2>2, <2>3, <2>4, <2>5, <3>1
  <2>7. file[g].ref = Occ(F, g)
    BY <1>0 DEF RefInv, F
  <2>8. CASE g \in {r, w}
    <3>1. Is(r, g) + Is(w, g) = 1 /\ file[g].ref = 0
      BY <2>8 DEF Is
    <3>2. Occ(G, g) = 1
      BY <2>6, <2>7, <3>1 DEF Is
    <3>3. file'[g].ref = 1 /\ file'[g].kind = "pipe" /\ file'[g].pi = i
      BY <1>2, <1>5, <2>8
    <3> QED
      BY <3>2, <3>3, Tables DEF G
  <2>9. CASE g \notin {r, w}
    <3>1. Is(r, g) = 0 /\ Is(w, g) = 0
      BY <2>9 DEF Is
    <3>2. Occ(G, g) = file[g].ref
      BY <2>3, <2>6, <2>7, <3>1
    <3>3. file'[g] = file[g]
      BY <1>5, <2>9
    <3> QED
      BY <1>0, <3>2, <3>3 DEF G, RefInv
  <2> QED
    BY <2>8, <2>9
<1>13. EndInv'
  <2> SUFFICES ASSUME NEW f \in File, NEW g \in File, file'[f].pi # None, file'[f].pi = file'[g].pi,
                      file'[f].writable = file'[g].writable
               PROVE  f = g
    BY DEF EndInv
  <2>1. CASE f \in {r, w} \/ g \in {r, w}
    BY <1>2, <1>5, <1>10, <2>1
  <2>2. CASE ~(f \in {r, w} \/ g \in {r, w})
    <3>1. file'[f] = file[f] /\ file'[g] = file[g]
      BY <1>5, <2>2
    <3> QED
      BY <1>0, <3>1 DEF EndInv
  <2> QED
    BY <2>1, <2>2
<1>14. GoneInv'
  BY <1>0, <1>8 DEF GoneInv
<1>15. PipeHeld'
  <2>1. ASSUME NEW j \in PipeId PROVE HeldOK(file', pipe'[j], j)
    <3>1. CASE j = i
      <4>1. Leads(file', i, TRUE) /\ Leads(file', i, FALSE)
        BY <1>2, <1>5 DEF Leads
      <4> QED
        BY <1>3, <1>6, <3>1, <4>1 DEF HeldOK
    <3>2. CASE j # i
      <4>1. SameLeads(file, file', j)
        <5>1. \A f \in {r, w} : file[f].pi # j /\ file'[f].pi # j
          BY <1>2, <1>5, <1>9, <3>2, Tables
        <5>2. \A f \in File \ {r, w} : file'[f] = file[f]
          BY <1>5
        <5> QED
          BY <5>1, <5>2 DEF SameLeads
      <4>2. HeldOK(file, pipe[j], j)
        BY <1>0, HeldAll
      <4>3. pipe'[j] = pipe[j]
        BY <1>6, <3>2
      <4> QED
        BY <4>1, <4>2, <4>3, HeldSame
    <3> QED
      BY <3>1, <3>2
  <2> QED
    BY <1>5, <2>1, HeldNext
<1>16. RingInv'
  <2>1. ASSUME NEW j \in PipeId PROVE Fill(pipe'[j]) <= PIPESIZE /\ (~pipe'[j].used => pipe'[j] = NoPipe)
    <3>1. CASE j = i
      BY <1>3, <1>4, <1>6, <3>1
    <3>2. CASE j # i
      BY <1>0, <1>6, <3>2 DEF RingInv
    <3> QED
      BY <3>1, <3>2
  <2> QED
    BY <2>1 DEF RingInv, Fill
<1>17. StreamOK(i)
  <2>1. pipe[i] = NoPipe
    BY <1>0 DEF RingInv
  <2>2. ~pipe[i].readopen /\ ~pipe[i].writeopen /\ pipe'[i].readopen /\ pipe'[i].writeopen
    BY <1>3, <1>6, <2>1 DEF NoPipe
  <2>3. Content(i)' = <<>>
    <3>1. Content(i)' = Bytes(Q)
      BY <1>6 DEF Content, Bytes, Fill, Add
    <3> QED
      BY <1>4, <3>1
  <2>4. Stream(i)!Make
    BY <2>2, <2>3 DEF Stream!Make
  <2> QED
    BY <2>4 DEF StreamOK, Stream!Next
<1>18. \A j \in PipeId \ {i} : StreamOK(j)
  BY <1>6, StreamSame
<1> QED
  BY <1>11, <1>12, <1>13, <1>14, <1>15, <1>16, <1>17, <1>18 DEF Tab, Streams

(* sys_pipe() *)
LEMMA SysPipeTables ==
  ASSUME Tab, NEW p \in Proc, SysPipe(p)
  PROVE  Tab' /\ Streams
<1> DEFINE pages == {i \in PipeId : ~pipe[i].used}
           r == Lowest(FreeFiles)
           w == Lowest(FreeFiles \ {r})
           d0 == Lowest(FreeFds(p))
           d1 == Lowest(FreeFds(p) \ {d0})
           i == Lowest(pages)
           R == [ref |-> 1, kind |-> "pipe", pi |-> i, writable |-> FALSE]
           W == [ref |-> 1, kind |-> "pipe", pi |-> i, writable |-> TRUE]
           Q == [NoPipe EXCEPT !.used = TRUE, !.readopen = TRUE, !.writeopen = TRUE]
<1>0. TableType /\ state[p] = "run" /\ UNCHANGED state
  BY DEF Tab, SysPipe, AtCall
<1>1. CASE UNCHANGED <<file, ofile, pipe>>
  <2>1. StaysAway
    BY <1>0 DEF StaysAway, TableType
  <2> QED
    BY <1>1, <2>1, TablesSame
<1>2. CASE /\ ~(Cardinality(FreeFiles) < 2) /\ ~(Cardinality(FreeFds(p)) < 2) /\ pages # {}
           /\ pipe' = [pipe EXCEPT ![i] = Q] /\ file' = [file EXCEPT ![r] = R, ![w] = W]
           /\ ofile' = [ofile EXCEPT ![p][d0] = r, ![p][d1] = w]
  <2>1. r \in File /\ w \in File \ {r} /\ file[r].ref = 0 /\ file[w].ref = 0
    <3>1. FreeFiles \subseteq Nat /\ IsFiniteSet(FreeFiles)
      BY Tables, FS_Subset DEF FreeFiles
    <3>2. r \in FreeFiles /\ w \in FreeFiles \ {r}
      BY <1>2, <3>1, TwoIn
    <3> HIDE DEF r, w
    <3> QED
      BY <3>2 DEF FreeFiles
  <2>2. d0 \in Fd /\ d1 \in Fd \ {d0} /\ ofile[p][d0] = None /\ ofile[p][d1] = None
    <3>1. FreeFds(p) \subseteq Nat /\ IsFiniteSet(FreeFds(p))
      BY Tables, FS_Subset DEF FreeFds
    <3>2. d0 \in FreeFds(p) /\ d1 \in FreeFds(p) \ {d0}
      BY <1>2, <3>1, TwoIn
    <3> HIDE DEF d0, d1
    <3> QED
      BY <3>2 DEF FreeFds
  <2>3. i \in PipeId /\ ~pipe[i].used
    <3>1. pages \subseteq Nat
      BY Tables
    <3>2. i \in pages
      BY <1>2, <3>1, LowestIn
    <3> HIDE DEF i
    <3> QED
      BY <3>2
  <2>4. /\ R = [ref |-> 1, kind |-> "pipe", pi |-> i, writable |-> FALSE]
        /\ W = [ref |-> 1, kind |-> "pipe", pi |-> i, writable |-> TRUE]
        /\ Q = [NoPipe EXCEPT !.used = TRUE, !.readopen = TRUE, !.writeopen = TRUE]
    OBVIOUS
  <2> HIDE DEF r, w, d0, d1, i, R, W, Q
  <2> QED
    BY <1>0, <1>2, <2>1, <2>2, <2>3, <2>4, MakeTables
<1>3. \/ UNCHANGED <<file, ofile, pipe>>
      \/ /\ ~(Cardinality(FreeFiles) < 2) /\ ~(Cardinality(FreeFds(p)) < 2) /\ pages # {}
         /\ pipe' = [pipe EXCEPT ![i] = Q] /\ file' = [file EXCEPT ![r] = R, ![w] = W]
         /\ ofile' = [ofile EXCEPT ![p][d0] = r, ![p][d1] = w]
  BY DEF SysPipe
<1> HIDE DEF r, w, d0, d1, i, R, W, Q, pages
<1> QED
  BY <1>1, <1>2, <1>3

---------------------------------------------------------------------------
(* The invariant.                                                          *)

(* It holds of the machine at the first prompt. *)
LEMMA InitPipeInv == PipeInit => PipeInv /\ \A i \in PipeId : Stream(i)!Init
<1> SUFFICES ASSUME PipeInit PROVE PipeInv /\ \A i \in PipeId : Stream(i)!Init
  OBVIOUS
<1>1. ProgramType
  <2>1. <<Op("parse")>> \in Seq(Call1)
    BY Calls DEF CallNames
  <2>2. shell(<<Op("parse")>>) \in Seq(Call2) /\ shell(triage) \in Seq(Call2) /\ <<>> \in Seq(Call2)
    <3>1. \A t \in Seq(Call1) : shell(t) \in Seq(Call2)
      BY ShellType
    <3>2. <<>> \in Seq(Call2)
      OBVIOUS
    <3> QED
      BY <2>1, <3>1, <3>2, TriageType
  <2>3. todo \in [Proc -> Seq(Call2)]
    BY <2>2 DEF PipeInit
  <2>4. NoEnds \in [PipeVar -> Fd \X Fd]
    BY Tables DEF NoEnds
  <2>5. ends \in [Proc -> [PipeVar -> Fd \X Fd]]
    BY <2>4 DEF PipeInit
  <2> QED
    BY <2>3, <2>5 DEF ProgramType
<1>2. DataType
  <2>1. input \in Seq(Nat)
    BY PipeAssumption DEF PipeInit
  <2>2. buf \in [Proc -> Seq(Nat)]
    BY DEF PipeInit
  <2> QED
    BY <2>1, <2>2 DEF DataType
<1>3. LineType
  <2>1. parsed = IF line = <<>> THEN Nothing ELSE Parse(line)
    BY DEF PipeInit
  <2>2. ~Nothing.ok
    BY DEF Nothing
  <2>3. \A l \in Runs : Parse(l).ok => Parse(l).cmd \in Commands
    BY PipeAssumption
  <2> QED
    BY <2>1, <2>2, <2>3 DEF LineType
<1> DEFINE C == [ref |-> 3, kind |-> "console", pi |-> None, writable |-> TRUE]
<1>4. NoFile \in FileType /\ C \in FileType
  BY DEF NoFile, FileType
<1>5. /\ state = [p \in Proc |-> IF p = Sh THEN "run" ELSE "unused"]
      /\ ofile = [p \in Proc |-> [d \in Fd |-> IF p = Sh /\ d < 3 THEN Console ELSE None]]
      /\ file = [f \in File |-> IF f = Console THEN C ELSE NoFile]
      /\ pipe = [i \in PipeId |-> NoPipe]
  BY DEF PipeInit
<1>6. C.ref = 3 /\ C.kind = "console" /\ C.pi = None
  OBVIOUS
<1> HIDE DEF C
<1>7. TableType
  <2>1. file \in [File -> FileType]
    BY <1>4, <1>5
  <2>2. pipe \in [PipeId -> PipeType]
    BY <1>5, NoPipeFacts
  <2>3. ofile \in [Proc -> [Fd -> {None} \cup File]]
    BY <1>5, Tables
  <2>4. state \in [Proc -> {"unused", "run", "sleep", "zombie"}]
    BY <1>5
  <2> QED
    BY <2>1, <2>2, <2>3, <2>4 DEF TableType
<1>8. RefInv
  <2> DEFINE T == {<<Sh, 0>>, <<Sh, 1>>, <<Sh, 2>>}
  <2>1. Cardinality(T) = 3
    <3> DEFINE A == {<<Sh, 0>>}
               B == A \cup {<<Sh, 1>>}
    <3>1. IsFiniteSet(A) /\ Cardinality(A) = 1
      BY FS_Singleton
    <3>2. <<Sh, 1>> \notin A /\ <<Sh, 2>> \notin B /\ T = B \cup {<<Sh, 2>>}
      OBVIOUS
    <3> HIDE DEF A, T
    <3>3. IsFiniteSet(B) /\ Cardinality(B) = 2
      <4>1. IsFiniteSet(A \cup {<<Sh, 1>>}) /\ Cardinality(A \cup {<<Sh, 1>>}) = Cardinality(A) + 1
        BY <3>1, <3>2, FS_AddElement, Zenon
      <4> QED
        BY <3>1, <4>1
    <3> HIDE DEF B
    <3> QED
      BY <3>2, <3>3, FS_AddElement
  <2>2. ASSUME NEW f \in File PROVE Occ(Descriptor, f) = IF f = Console THEN 3 ELSE 0
    <3> DEFINE A == {s \in Proc \X Fd : ofile[s[1]][s[2]] = f}
    <3>1. Occ(Descriptor, f) = Cardinality(A)
      <4>1. DOMAIN Descriptor = Proc \X Fd /\ \A s \in Proc \X Fd : Descriptor[s] = ofile[s[1]][s[2]]
        BY DEF Descriptor
      <4> QED
        BY <4>1 DEF Occ
    <3>2. \A p \in Proc, d \in Fd : ofile[p][d] = f <=> p = Sh /\ d \in {0, 1, 2} /\ f = Console
      <4>1. \A d \in Fd : d < 3 <=> d \in {0, 1, 2}
        BY Tables
      <4>2. f # None
        BY Tables
      <4> QED
        BY <1>5, <4>1, <4>2
    <3>3. CASE f = Console
      <4>1. 0 \in Fd /\ 1 \in Fd /\ 2 \in Fd /\ Sh \in Proc
        BY Sizes, Tables DEF Fd
      <4>2. A = T
        BY <3>2, <3>3, <4>1
      <4> QED
        BY <2>1, <3>1, <3>3, <4>2
    <3>4. CASE f # Console
      <4>1. A = {}
        BY <3>2, <3>4
      <4> QED
        BY <3>1, <3>4, <4>1, FS_EmptySet
    <3> QED
      BY <3>3, <3>4
  <2>3. NoFile.ref = 0 /\ NoFile.kind = "none" /\ NoFile.pi = None
    BY DEF NoFile
  <2> QED
    BY <1>5, <1>6, <2>2, <2>3 DEF RefInv
<1>9. \A f \in File : file[f].pi = None
  BY <1>5, <1>6 DEF NoFile
<1>10. EndInv
  BY <1>9 DEF EndInv
<1>11. GoneInv
  BY <1>5 DEF GoneInv
<1>12. ASSUME NEW i \in PipeId PROVE pipe[i] = NoPipe /\ ~NoPipe.used /\ ~NoPipe.readopen /\ ~NoPipe.writeopen
  BY <1>5 DEF NoPipe
<1>13. PipeHeld
  <2>1. \A i \in PipeId, f \in File : file[f].pi # i
    BY <1>9, Tables
  <2> QED
    BY <1>12, <2>1 DEF PipeHeld
<1>14. RingInv
  BY <1>12, NoPipeFacts, Sizes DEF RingInv
<1>15. \A i \in PipeId : Stream(i)!Init
  <2> SUFFICES ASSUME NEW i \in PipeId PROVE Stream(i)!Init
    OBVIOUS
  <2>1. Content(i) = <<>> /\ ~pipe[i].readopen /\ ~pipe[i].writeopen
    BY <1>12, NoPipeFacts DEF Content
  <2> QED
    BY <2>1 DEF Stream!Init
<1> QED
  BY <1>1, <1>2, <1>3, <1>7, <1>8, <1>10, <1>11, <1>13, <1>14, <1>15 DEF PipeInv

(* Every step keeps it, and is a step of every stream or leaves it alone. *)
LEMMA NextPipeInv == PipeInv /\ [PipeNext]_pipevars => PipeInv' /\ Streams
<1> SUFFICES ASSUME PipeInv, [PipeNext]_pipevars PROVE PipeInv' /\ Streams
  OBVIOUS
<1>0. Programs /\ Tab /\ TableType /\ RefInv /\ RingInv
  BY DEF PipeInv, Programs, Tab
<1>1. CASE UNCHANGED pipevars
  <2>1. StaysAway
    BY <1>0, <1>1 DEF StaysAway, TableType, pipevars
  <2>2. Tab' /\ Streams
    BY <1>0, <1>1, <2>1, TablesSame DEF pipevars
  <2>3. Programs'
    BY <1>0, <1>1 DEF pipevars, Programs, ProgramType, DataType, LineType
  <2> QED
    BY <2>2, <2>3 DEF PipeInv, Programs, Tab
<1>2. CASE PipeNext
  <2>1. PICK p \in Proc :
          \/ SysClose(p) \/ SysDup(p) \/ SysOpen(p) \/ SysPipe(p) \/ SysFork(p) \/ SysWait(p) \/ SysExec(p)
          \/ ExitClose(p) \/ ExitZombie(p) \/ ParseLine(p) \/ Die(p) \/ Kill(p)
          \/ ReadOther(p) \/ Emit(p) \/ PipeRead(p) \/ PipeWrite(p) \/ Sleep(p)
    BY <1>2 DEF PipeNext
  <2>2. Programs'
    BY <1>0, <2>1, CallsProgram, PipeProgram, ForkProgram, OtherProgram, AgentProgram
  <2>3. Tab' /\ Streams
    BY <1>0, <2>1, SysCloseTables, SysDupTables, SysOpenTables, SysPipeTables, SysForkTables, QuietTables,
       PipeReadTables, PipeWriteTables
  <2> QED
    BY <2>2, <2>3 DEF PipeInv, Programs, Tab
<1> QED
  BY <1>1, <1>2

(* The counts, the tables and the rings of every state fit each other. *)
THEOREM PipeInvariant == PipeSpec => []PipeInv
<1>1. PipeInit => PipeInv
  BY InitPipeInv
<1>2. PipeInv /\ [PipeNext]_pipevars => PipeInv'
  BY NextPipeInv
<1> QED
  BY <1>1, <1>2, PTL DEF PipeSpec

(* pipeclose(): a pipe's page is in use exactly as long as an open file leads
   to it, and each end is open exactly as long as a file for it is.        *)
THEOREM PipeHeldInvariant == PipeSpec => []PipeHeld
<1>1. PipeInv => PipeHeld
  BY DEF PipeInv
<1> QED
  BY <1>1, PipeInvariant, PTL

(* pipewrite(), piperead(), pipeclose(): every pipe is a byte stream of at
   most PIPESIZE bytes, whatever the counters run over.                    *)
THEOREM StreamRefinement == PipeSpec => ImplementsStream
<1>1. PipeInit => \A i \in PipeId : Stream(i)!Init
  BY InitPipeInv
<1>2. PipeInv /\ [PipeNext]_pipevars => [\A i \in PipeId : Stream(i)!Next \/ UNCHANGED Stream(i)!vars]_pipevars
  BY NextPipeInv DEF Streams, StreamOK
<1> QED
  BY <1>1, <1>2, PipeInvariant, PTL DEF PipeSpec, ImplementsStream

---------------------------------------------------------------------------
(* Verdicts, their corrections, and the checkpoint slot.                   *)

USE DEF OK, ERR_FIELD, ERR_RANGE, ERR_PROTECTED, ERR_ACTION,
        REPORT, ANNOTATE, REQUEUE, KILL, SEVERITY_MIN, SEVERITY_MAX

(* verify_fix() passes exactly the safe proposals, whatever the snapshot.  *)
LEMMA VerdictLemma ==
  ASSUME NEW q \in Proposal, NEW prot \in BOOLEAN
  PROVE  (verify_fix(q, prot) = OK) <=> Safe(q)
<1>1. q.severity \in Int /\ q.retry_hint \in Int /\ q.action \in Int
  BY DEF Proposal
<1>2. q.severity \in 0 .. 3 <=> 0 <= q.severity /\ q.severity <= 3
  BY <1>1
<1>3. field_ok(q.role) /\ field_ok(q.target)
        <=> {q.role, q.target} \cap {Empty, Unterminated} = {}
  BY DEF field_ok
<1> QED
  BY <1>1, <1>2, <1>3 DEF verify_fix, Safe, is_allowed, is_destructive

(* The verdict is one of the five codes.                                   *)
LEMMA VerdictType ==
  ASSUME NEW q \in Proposal, NEW prot \in BOOLEAN
  PROVE  verify_fix(q, prot) \in {OK, ERR_FIELD, ERR_RANGE, ERR_PROTECTED, ERR_ACTION}
  BY DEF verify_fix

(* A correction of a proposal is a proposal.                               *)
LEMMA AmendType ==
  ASSUME NEW q \in Proposal, NEW b \in Proposal, NEW c \in Int
  PROVE  amend_from_verdict(q, b, c) \in Proposal
<1>1. clamp(q.severity) \in Int /\ (IF q.retry_hint < 0 THEN 0 ELSE q.retry_hint) \in Int
  BY DEF Proposal, clamp
<1>2. [q EXCEPT !.severity = clamp(q.severity),
                !.retry_hint = IF q.retry_hint < 0 THEN 0 ELSE q.retry_hint] \in Proposal
  BY <1>1 DEF Proposal
<1>3. /\ [q EXCEPT !.action = REQUEUE] \in Proposal
      /\ [q EXCEPT !.action = REPORT, !.target = b.target] \in Proposal
      /\ [q EXCEPT !.role = b.role, !.target = b.target] \in Proposal
  <2>0. b.role \in Text /\ b.target \in Text /\ REPORT \in Int /\ REQUEUE \in Int
    BY DEF Proposal
  <2>1. \A i \in Int : [q EXCEPT !.action = i] \in Proposal
    BY DEF Proposal
  <2>2. \A i \in Int, t \in Text : [q EXCEPT !.action = i, !.target = t] \in Proposal
    BY DEF Proposal
  <2>3. \A t, u \in Text : [q EXCEPT !.role = t, !.target = u] \in Proposal
    BY DEF Proposal
  <2> QED
    BY <2>0, <2>1, <2>2, <2>3
<1>4. CASE c = ERR_RANGE
  BY <1>2, <1>4 DEF amend_from_verdict
<1>5. CASE c \in {ERR_ACTION, ERR_PROTECTED, ERR_FIELD}
  BY <1>3, <1>5 DEF amend_from_verdict
<1>6. CASE c \notin {ERR_RANGE, ERR_ACTION, ERR_PROTECTED, ERR_FIELD}
  BY <1>6 DEF amend_from_verdict
<1> QED
  BY <1>4, <1>5, <1>6

(* What the evaluator builds itself is a proposal, and its baseline is safe.*)
LEMMA BuildType ==
  /\ build_default_proposal \in Proposal
  /\ Safe(build_default_proposal)
  /\ \A bad \in BOOLEAN : build_proposal(bad) \in Proposal
<1>1. build_default_proposal \in Proposal
  BY TextAssumption DEF build_default_proposal, Proposal
<1>2. Safe(build_default_proposal)
  BY DEF build_default_proposal, Safe, Empty, Unterminated
<1>3. \A bad \in BOOLEAN : build_proposal(bad) \in Proposal
  BY TextAssumption DEF build_proposal, Proposal
<1> QED
  BY <1>1, <1>2, <1>3

---------------------------------------------------------------------------
(* VerdictLoop *)

(* amend_from_verdict(): from a safe base, the correction of a rejected    *)
(* proposal is rejected, if at all, at a later stage.                      *)
LEMMA AmendLemma ==
  ASSUME NEW q \in Proposal, NEW b \in Proposal, Safe(b),
         NEW prot0 \in BOOLEAN, NEW prot1 \in BOOLEAN,
         verify_fix(q, prot0) # OK
  PROVE  LET c == verify_fix(q, prot0)
         IN  Stage(verify_fix(amend_from_verdict(q, b, c), prot1)) > Stage(c)
<1> DEFINE c == verify_fix(q, prot0)
           r == amend_from_verdict(q, b, c)
<1>0. /\ q.severity \in Int /\ q.retry_hint \in Int /\ q.action \in Int
      /\ q = [role |-> q.role, target |-> q.target, action |-> q.action,
              severity |-> q.severity, retry_hint |-> q.retry_hint]
  BY DEF Proposal
<1>b. field_ok(b.role) /\ field_ok(b.target)
  BY DEF Safe, field_ok
<1>1. CASE c = ERR_FIELD
  <2>0. r = [q EXCEPT !.role = b.role, !.target = b.target]
    BY <1>1 DEF amend_from_verdict
  <2>1. field_ok(r.role) /\ field_ok(r.target)
    BY <1>b, <2>0 DEF Proposal
  <2> QED
    BY <1>1, <2>1 DEF verify_fix, Stage
<1>2. CASE c = ERR_RANGE
  <2>1. r = [q EXCEPT !.severity = clamp(q.severity),
                      !.retry_hint = IF q.retry_hint < 0 THEN 0 ELSE q.retry_hint]
    BY <1>2 DEF amend_from_verdict
  <2>2. r.role = q.role /\ r.target = q.target
    BY <2>1 DEF Proposal
  <2>4. field_ok(q.role) /\ field_ok(q.target)
    BY <1>2 DEF verify_fix
  <2>3. r.severity \in 0 .. 3 /\ ~(r.retry_hint < 0)
    BY <1>0, <2>1 DEF clamp, Proposal
  <2> QED
    BY <1>2, <2>2, <2>3, <2>4 DEF verify_fix, Stage
<1>3. CASE c \in {ERR_PROTECTED, ERR_ACTION}
  <2>1. /\ r.role = q.role /\ r.target \in {q.target, b.target}
        /\ r.severity = q.severity /\ r.retry_hint = q.retry_hint
        /\ r.action \in {REPORT, REQUEUE}
    BY <1>0, <1>3 DEF amend_from_verdict
  <2>2. /\ field_ok(q.role) /\ field_ok(q.target)
        /\ q.severity \in 0 .. 3 /\ ~(q.retry_hint < 0)
    BY <1>3 DEF verify_fix
  <2>3. verify_fix(r, prot1) = OK
    BY <1>b, <2>1, <2>2 DEF verify_fix, is_allowed, is_destructive
  <2> QED
    BY <1>3, <2>3 DEF Stage
<1> QED
  BY <1>1, <1>2, <1>3, VerdictType

---------------------------------------------------------------------------
(* The loop's invariant: verdict is one of verify_fix() on fix.            *)
Verdict == \E prot \in BOOLEAN : verdict = verify_fix(fix, prot)

LoopInv == LoopTypeOK /\ Verdict /\ ThreeCorrections

(* Any proposal may be the first.                                          *)
LEMMA InitLoopInv == LoopInit => LoopInv
<1> SUFFICES ASSUME LoopInit PROVE LoopInv
  OBVIOUS
<1>1. fix \in Proposal
  BY VerdictAssumption DEF LoopInit, Candidate, Proposal
<1>2. from \in Proposal /\ Safe(from)
  BY BuildType DEF LoopInit
<1>3. verdict \in {OK, ERR_FIELD, ERR_RANGE, ERR_PROTECTED, ERR_ACTION}
  BY <1>1, VerdictType DEF LoopInit
<1> QED
  BY <1>1, <1>2, <1>3 DEF LoopInit, LoopInv, LoopTypeOK, Verdict, ThreeCorrections, Stage

(* A correction keeps the invariant and gets past the rule that was broken.*)
LEMMA LoopStep ==
  ASSUME LoopInv, Correct
  PROVE  LoopInv' /\ Stage(verdict') > Stage(verdict)
<1>0. fix \in Proposal /\ from \in Proposal /\ Safe(from) /\ corrections \in Nat /\ verdict \in Int
  BY DEF LoopInv, LoopTypeOK
<1>1. PICK prot0 \in BOOLEAN : verdict = verify_fix(fix, prot0)
  BY DEF LoopInv, Verdict
<1>2. PICK prot1 \in BOOLEAN : verdict' = verify_fix(fix', prot1)
  BY DEF Correct
<1>3. fix' \in Proposal
  BY <1>0, AmendType DEF Correct
<1>4. Stage(verdict') > Stage(verdict)
  BY <1>0, <1>1, <1>2, AmendLemma DEF Correct
<1>5. verdict' \in {OK, ERR_FIELD, ERR_RANGE, ERR_PROTECTED, ERR_ACTION}
  BY <1>2, <1>3, VerdictType
<1>6. LoopTypeOK' /\ Verdict'
  BY <1>0, <1>2, <1>3, <1>5 DEF Correct, LoopTypeOK, Verdict, Safe
<1>7. Stage(verdict') \in 1 .. 4 /\ Stage(verdict) \in 1 .. 4
  BY <1>5 DEF LoopInv, LoopTypeOK, Stage
<1>8. ThreeCorrections'
  BY <1>0, <1>4, <1>7 DEF LoopInv, ThreeCorrections, Correct
<1> QED
  BY <1>4, <1>6, <1>8 DEF LoopInv

(* The invariant of the loop of corrections.                               *)
LEMMA LoopInvariance == LoopSpec => []LoopInv
<1>1. LoopInv /\ [Correct]_loopvars => LoopInv'
  <2>1. ASSUME LoopInv, UNCHANGED loopvars PROVE LoopInv'
    BY <2>1 DEF loopvars, LoopInv, LoopTypeOK, Verdict, ThreeCorrections, Safe
  <2> QED
    BY <2>1, LoopStep
<1> QED
  BY <1>1, InitLoopInv, PTL DEF LoopSpec

(* verify_fix(): no view of the process table lets an unsafe proposal pass *)
(* or refuses a safe one.                                                  *)
THEOREM VerdictSafety == LoopSpec => []VerdictIsSafety
<1>1. LoopInv => VerdictIsSafety
  BY VerdictLemma DEF LoopInv, LoopTypeOK, VerdictIsSafety
<1> QED
  BY <1>1, LoopInvariance, PTL

(* amend_from_verdict(): no rule is broken twice.                          *)
THEOREM CorrectionsCount == LoopSpec => EveryCorrectionCounts
<1>1. LoopInv /\ [Correct]_loopvars => [Stage(verdict') > Stage(verdict)]_loopvars
  BY LoopStep
<1> QED
  BY <1>1, LoopInvariance, PTL DEF LoopSpec, EveryCorrectionCounts

(* Three corrections always suffice.                                       *)
THEOREM CorrectionsBound == LoopSpec => []ThreeCorrections
<1>1. LoopInv => ThreeCorrections
  BY DEF LoopInv
<1> QED
  BY <1>1, LoopInvariance, PTL

---------------------------------------------------------------------------
(* Evaluator *)

(* The foreign blob has the shape of a proposal.                           *)
LEMMA JunkType == Junk \in Proposal
  BY TextAssumption DEF Junk, Proposal

(* Nothing is accepted yet.                                                *)
LEMMA InitIInv == Init => IInv
<1> SUFFICES ASSUME Init PROVE IInv
  OBVIOUS
<1>1. TypeOK
  BY BuildType, JunkType, EvaluatorAssumption DEF Init, TypeOK
<1>2. SlotIsOwn /\ PassedIsSafe /\ InLoop
  BY EvaluatorAssumption DEF Init, InLoop, SlotIsOwn, PassedIsSafe, At
<1>3. AcceptsOnlySafe /\ RollsBackToSafe
  BY BuildType DEF Init, AcceptsOnlySafe, RollsBackToSafe
<1> QED
  BY <1>1, <1>2, <1>3 DEF IInv

(* A step of an evaluator keeps the invariant.                             *)
LEMMA StepIInv ==
  ASSUME IInv, NEW a \in Agent, Step(a)
  PROVE  IInv'
<1> USE DEF IInv, InLoop, SlotIsOwn, PassedIsSafe, AcceptsOnlySafe, RollsBackToSafe,
            TypeOK, At, Goto
<1> USE EvaluatorAssumption
<1>1. CASE Seed(a)
  BY <1>1, BuildType DEF Seed, checkpoint
<1>2. CASE ReadLine(a)
  BY <1>2 DEF ReadLine
<1>3. CASE ProxyCall(a)
  BY <1>3, BuildType DEF ProxyCall
<1>4. CASE VerifyFix(a)
  <2>1. PICK seen \in SUBSET Entry :
          rc' = [rc EXCEPT ![a] = verify_fix(prop[a], fill_snapshot(seen, prop[a].target))]
    BY <1>4 DEF VerifyFix
  <2> DEFINE prot == fill_snapshot(seen, prop[a].target)
  <2>2. prot \in BOOLEAN /\ prop[a] \in Proposal
    BY DEF fill_snapshot
  <2>3. rc'[a] = verify_fix(prop[a], prot)
    BY <2>1
  <2>4. rc'[a] \in ERR_ACTION .. OK
    BY <2>2, <2>3, VerdictType
  <2>5. rc'[a] = OK => Safe(prop[a])
    BY <2>2, <2>3, VerdictLemma
  <2> QED
    BY <1>4, <2>1, <2>4, <2>5 DEF VerifyFix
<1>5. CASE Commit(a)
  BY <1>5 DEF Commit, checkpoint
<1>6. CASE RollBack(a)
  BY <1>6 DEF RollBack, restore
<1>7. CASE Amend(a)
  <2>1. amend_from_verdict(prop[a], base[a], rc[a]) \in Proposal
    <3>1. prop[a] \in Proposal /\ base[a] \in Proposal /\ rc[a] \in Int
      OBVIOUS
    <3> QED
      BY <3>1, AmendType
  <2>2. attempts[a] + 1 \in 0 .. MAX_RETRIES
    BY <1>7 DEF Amend
  <2> QED
    BY <1>7, <2>1, <2>2 DEF Amend
<1> QED
  BY <1>1, <1>2, <1>3, <1>4, <1>5, <1>6, <1>7 DEF Step

(* checkpoint() of another program keeps it.                               *)
LEMMA ForeignIInv ==
  ASSUME IInv, NEW f \in Foreign, ForeignCheckpoint(f)
  PROVE  IInv'
  BY EvaluatorAssumption, JunkType DEF ForeignCheckpoint, checkpoint, IInv, TypeOK, InLoop,
     SlotIsOwn, PassedIsSafe, AcceptsOnlySafe, RollsBackToSafe, At

(* The slot, the candidates and the histories of all evaluators agree.     *)
THEOREM Invariance == Spec => []IInv
<1>1. IInv /\ [Next]_vars => IInv'
  <2> SUFFICES ASSUME IInv, [Next]_vars PROVE IInv'
    OBVIOUS
  <2>1. CASE Next
    BY <2>1, StepIInv, ForeignIInv DEF Next
  <2>2. CASE UNCHANGED vars
    BY <2>2 DEF vars, IInv, TypeOK, InLoop, SlotIsOwn, PassedIsSafe, AcceptsOnlySafe,
       RollsBackToSafe, At
  <2> QED
    BY <2>1, <2>2
<1> QED
  BY <1>1, InitIInv, PTL DEF Spec

(* Nothing unsafe is ever accepted, whatever the unlocked walk of the      *)
(* process table returned.                                                 *)
THEOREM OnlySafeAccepted == Spec => []AcceptsOnlySafe
<1>1. IInv => AcceptsOnlySafe
  BY DEF IInv
<1> QED
  BY <1>1, Invariance, PTL

(* Nothing unsafe is ever restored, whoever else writes the slot.          *)
THEOREM OnlySafeRestored == Spec => []RollsBackToSafe
<1>1. IInv => RollsBackToSafe
  BY DEF IInv
<1> QED
  BY <1>1, Invariance, PTL
=============================================================================
