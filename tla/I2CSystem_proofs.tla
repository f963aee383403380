-------------------------- MODULE I2CSystem_proofs --------------------------
(***************************************************************************)
(* The I2C bus for any tasks, depths of the queues, number of retries and  *)
(* transfers.  The rows of commands are built by a recursive function; the *)
(* facts about it are proved by induction over sets of naturals.           *)
(***************************************************************************)
EXTENDS I2CSystem, FiniteSetTheorems, SequenceTheorems, WellFoundedInduction, TLAPS

(* A message may have no bytes, and is refused then.                       *)
Message == [read : BOOLEAN, len : Nat]
WellFormed == Transfers \subseteq Seq(Message) \ {<<>>}

Command == [msg : Nat, pos : Nat, read : BOOLEAN, restart : BOOLEAN, stop : BOOLEAN]
Row == Commands(msgs)
ReadsIn(q) == Cardinality({k \in DOMAIN q : q[k].read})

Live == {"clear", "unmask", "wait", "reset"}
Places == Live \cup {"out", "xfer", "idle?", "unlock"}
Results == {"none", "num", "EIO", "ETIMEDOUT", "EINVAL"}
Masks == {{}, DEFAULT_MASK, DEFAULT_MASK \ {"TX_EMPTY"}}

Typed ==
  /\ owner \in Tasks \cup {NoTask} /\ pc \in [Tasks -> Places] /\ retries \in 0 .. Retries
  /\ rval \in [Tasks -> Results]
  /\ fed \in Nat /\ writing \in BOOLEAN /\ cmd_err \in BOOLEAN /\ msg_err \in BOOLEAN
  /\ enabled \in BOOLEAN
  /\ rx_outstanding \in Nat /\ wait \in Nat /\ got \in Seq(Nat) /\ rxFifo \in Seq(Nat)
  /\ mask \in Masks /\ latched \subseteq {"TX_ABRT", "STOP_DET"}
  /\ txFifo \in Seq(Command) /\ wire \in Seq(Command)

(* One task has the bus, and the controller is on while it waits for it.   *)
Owning ==
  /\ \A t \in Tasks : t # owner => pc[t] = "out"
  /\ owner # NoTask => pc[owner] # "out" /\ msgs \in Transfers
  /\ enabled <=> owner # NoTask /\ pc[owner] \in Live
  /\ ~enabled => txFifo = <<>> /\ rxFifo = <<>>
  /\ owner # NoTask /\ pc[owner] \in Live \cup {"idle?"} =>
       fed <= Len(Row) /\ Len(got) <= ReadsIn(Row)

(* What may still come is counted as outstanding.                          *)
Asked == rx_outstanding >= Len(rxFifo) + ReadsIn(txFifo)

Safe == Typed /\ Owning /\ Asked /\ NoOverrun

-----------------------------------------------------------------------------
LEMMA SetInduction ==
  ASSUME NEW T, 0 \in T, \A n \in Nat : n \in T => n + 1 \in T
  PROVE  \A n \in Nat : n \in T
<1> DEFINE S == Nat \ T
<1> SUFFICES ASSUME S # {} PROVE FALSE
  OBVIOUS
<1>1. PICK x \in S : \A y \in S : ~(<<y, x>> \in OpToRel(<, Nat))
  <2>. HIDE DEF S
  <2>1. S \subseteq Nat
    BY DEF S
  <2>. QED BY <2>1, NatLessThanWellFounded, WFMin
<1>2. x \in Nat /\ x # 0
  OBVIOUS
<1>3. x - 1 \in Nat /\ x - 1 < x
  BY <1>2
<1>4. x - 1 \in T
  <2>1. <<x - 1, x>> \in OpToRel(<, Nat)
    BY <1>2, <1>3 DEF OpToRel
  <2>. QED BY <1>1, <1>3, <2>1
<1>5. x - 1 + 1 = x
  BY <1>2
<1>. QED BY <1>3, <1>4, <1>5

(* FlattenSeq() is the last of the rows f[i] that join the first i rows.   *)
Joined(f, s, n) == [i \in 1 .. n |-> IF i = 1 THEN s[i] ELSE f[i - 1] \o s[i]]

LEMMA JoinedExists ==
  ASSUME NEW s
  PROVE  \A n \in Nat : \E f : f = Joined(f, s, n)
<1> DEFINE T == {n \in Nat : \E f : f = Joined(f, s, n)}
<1>1. 0 \in T
  <2> DEFINE g == [i \in 1 .. 0 |-> 0]
  <2>1. g = Joined(g, s, 0)
    BY DEF Joined
  <2>. QED BY <2>1
<1>2. ASSUME NEW n \in Nat, n \in T PROVE n + 1 \in T
  <2>1. PICK f : f = Joined(f, s, n)
    BY <1>2
  <2> DEFINE g == [i \in 1 .. n + 1 |-> IF i <= n THEN f[i] ELSE IF i = 1 THEN s[i] ELSE f[n] \o s[i]]
  <2>2. ASSUME NEW i \in 1 .. n + 1
        PROVE  g[i] = IF i = 1 THEN s[i] ELSE g[i - 1] \o s[i]
    <3>1. CASE i <= n
      <4>0. i \in 1 .. n
        BY <3>1
      <4>1. f[i] = IF i = 1 THEN s[i] ELSE f[i - 1] \o s[i]
        BY <2>1, <4>0 DEF Joined
      <4>2. i # 1 => i - 1 \in 1 .. n + 1 /\ i - 1 <= n
        BY <3>1
      <4>3. g[i] = f[i]
        BY <3>1
      <4>4. i # 1 => g[i - 1] = f[i - 1]
        BY <4>2
      <4>. QED BY <4>1, <4>3, <4>4
    <3>2. CASE i = n + 1
      <4>1. g[i] = IF i = 1 THEN s[i] ELSE f[n] \o s[i]
        BY <3>2
      <4>2. i # 1 => i - 1 = n /\ n \in 1 .. n + 1
        BY <3>2
      <4>3. i # 1 => g[i - 1] = f[n]
        BY <4>2
      <4>. QED BY <4>1, <4>3
    <3>. QED BY <3>1, <3>2
  <2>3. g = Joined(g, s, n + 1)
    <3>1. g = [i \in 1 .. n + 1 |-> g[i]]
      OBVIOUS
    <3>. HIDE DEF g
    <3>. QED BY <2>2, <3>1 DEF Joined
  <2>4. \E h : h = Joined(h, s, n + 1)
    <3>. HIDE DEF g
    <3>. QED BY <2>3
  <2>. QED BY <2>4
<1>. HIDE DEF T
<1>3. \A n \in Nat : n \in T
  BY <1>1, <1>2, SetInduction
<1>. QED BY <1>3 DEF T

LEMMA FlattenJoins ==
  ASSUME NEW s, Len(s) \in Nat, Len(s) # 0
  PROVE  \E f : f = Joined(f, s, Len(s)) /\ FlattenSeq(s) = f[Len(s)]
<1> DEFINE f == CHOOSE f : f = Joined(f, s, Len(s))
<1>1. f = Joined(f, s, Len(s))
  BY JoinedExists
<1>2. FlattenSeq(s) = f[Len(s)]
  BY DEF FlattenSeq, Joined
<1>. QED BY <1>1, <1>2

(* What holds of the elements of all rows, and of all rows but the last,   *)
(* as in a row of commands of which only the last one stops.               *)
LEMMA FlattenRows ==
  ASSUME NEW C, NEW P, P \subseteq C, NEW s \in Seq(Seq(C)), Len(s) # 0,
         \A i \in 1 .. Len(s) - 1 : s[i] \in Seq(P)
  PROVE  \E p \in Seq(P) : FlattenSeq(s) = p \o s[Len(s)]
<1>0. Len(s) \in Nat \ {0} /\ \A i \in 1 .. Len(s) : s[i] \in Seq(C)
  OBVIOUS
<1>1. PICK f : f = Joined(f, s, Len(s)) /\ FlattenSeq(s) = f[Len(s)]
  BY <1>0, FlattenJoins
<1> DEFINE T == {n \in Nat : n >= 1 /\ n <= Len(s) - 1 => f[n] \in Seq(P)}
<1>2. 0 \in T
  OBVIOUS
<1>3. ASSUME NEW n \in Nat, n \in T PROVE n + 1 \in T
  <2> SUFFICES ASSUME n + 1 <= Len(s) - 1 PROVE f[n + 1] \in Seq(P)
    OBVIOUS
  <2>1. n + 1 \in 1 .. Len(s) /\ n + 1 \in 1 .. Len(s) - 1
    BY <1>0
  <2>2. f[n + 1] = IF n + 1 = 1 THEN s[n + 1] ELSE f[n + 1 - 1] \o s[n + 1]
    <3> DEFINE m == n + 1
    <3>1. m \in 1 .. Len(s)
      BY <2>1
    <3>. HIDE DEF m
    <3>2. f[m] = IF m = 1 THEN s[m] ELSE f[m - 1] \o s[m]
      BY <1>1, <3>1 DEF Joined
    <3>. QED BY <3>2 DEF m
  <2>3. s[n + 1] \in Seq(P)
    BY <2>1
  <2>4. CASE n = 0
    BY <2>2, <2>3, <2>4
  <2>5. CASE n # 0
    <3>1. f[n] \in Seq(P) /\ n + 1 - 1 = n /\ n + 1 # 1
      BY <1>0, <1>3, <2>5
    <3>2. f[n + 1] = f[n] \o s[n + 1]
      BY <2>2, <3>1
    <3>. QED BY <2>3, <3>1, <3>2, ConcatProperties
  <2>. QED BY <2>4, <2>5
<1> HIDE DEF T
<1>4. \A n \in Nat : n \in T
  BY <1>2, <1>3, SetInduction
<1> DEFINE n == Len(s)
<1>5. f[n] = IF n = 1 THEN s[n] ELSE f[n - 1] \o s[n]
  <2>1. n \in 1 .. n
    BY <1>0
  <2>. HIDE DEF n
  <2>. QED BY <1>1, <2>1 DEF Joined, n
<1>6. CASE n = 1
  <2>1. <<>> \in Seq(P) /\ s[n] = <<>> \o s[n]
    BY <1>0
  <2>. QED BY <1>1, <1>5, <1>6, <2>1
<1>7. CASE n # 1
  <2>0. n \in Nat /\ n # 0
    BY <1>0
  <2>1. n - 1 \in Nat /\ n - 1 >= 1 /\ n - 1 <= n - 1
    <3>. HIDE DEF n
    <3>. QED BY <1>7, <2>0
  <2>2. f[n - 1] \in Seq(P)
    BY <1>4, <2>1 DEF T
  <2>. QED BY <1>1, <1>5, <1>7, <2>2
<1>. QED BY <1>6, <1>7
LEMMA CommandsWell ==
  ASSUME WellFormed, NEW m \in Transfers
  PROVE  /\ Commands(m) \in Seq(Command)
         /\ \A k \in 1 .. Len(Commands(m)) :
              Commands(m)[k].stop => k = Len(Commands(m)) /\ ~Refused(m)
<1>1. m \in Seq(Message) /\ m # <<>>
  BY DEF WellFormed
<1>2. Len(m) \in Nat /\ Len(m) >= 1 /\ DOMAIN m = 1 .. Len(m)
  BY <1>1
<1>3. \A i \in 1 .. Len(m) : m[i].read \in BOOLEAN /\ m[i].len \in Nat /\ Taken(m, i) \in {0, m[i].len}
  <2> SUFFICES ASSUME NEW i \in 1 .. Len(m)
               PROVE  m[i].read \in BOOLEAN /\ m[i].len \in Nat /\ Taken(m, i) \in {0, m[i].len}
    OBVIOUS
  <2>1. m[i] \in Message
    BY <1>1
  <2>. QED BY <2>1 DEF Message, Taken
<1> DEFINE c(i, k) == [msg |-> i, pos |-> k, read |-> m[i].read,
                       restart |-> i > 1 /\ k = 1, stop |-> i = Len(m) /\ k = m[i].len]
           row(i) == [k \in 1 .. Taken(m, i) |-> c(i, k)]
           s == [i \in 1 .. Len(m) |-> row(i)]
           P == {d \in Command : ~d.stop}
<1>4. Commands(m) = FlattenSeq(s)
  BY <1>2 DEF Commands
<1>5. ASSUME NEW i \in 1 .. Len(m), NEW k \in 1 .. Taken(m, i)
      PROVE  c(i, k) \in Command /\ (c(i, k).stop <=> i = Len(m) /\ k = m[i].len)
  <2>1. i \in Nat /\ k \in Nat
    BY <1>2, <1>3
  <2>. QED BY <1>3, <2>1 DEF Command
<1> HIDE DEF c
<1>6. \A i \in 1 .. Len(m) : row(i) \in Seq(Command) /\ Len(row(i)) = Taken(m, i)
  BY <1>3, <1>5
<1>7. \A i \in 1 .. Len(m) - 1 : row(i) \in Seq(P)
  <2> SUFFICES ASSUME NEW i \in 1 .. Len(m) - 1 PROVE row(i) \in Seq(P)
    OBVIOUS
  <2>1. i \in 1 .. Len(m) /\ i # Len(m)
    <3>1. Len(m) \in Nat
      BY <1>2
    <3>. QED BY <3>1
  <2>2. \A k \in 1 .. Taken(m, i) : c(i, k) \in P
    BY <1>5, <2>1
  <2>. HIDE DEF P
  <2>. QED BY <1>3, <2>1, <2>2, SMTT(30)
<1>8. Len(s) = Len(m) /\ s \in Seq(Seq(Command)) /\ \A i \in 1 .. Len(s) : s[i] = row(i)
  <2>. HIDE DEF row
  <2>. QED BY <1>2, <1>6
<1>9. PICK p \in Seq(P) : Commands(m) = p \o row(Len(m))
  <2>1. P \subseteq Command
    OBVIOUS
  <2>2. \A i \in 1 .. Len(s) - 1 : s[i] \in Seq(P)
    <3>. HIDE DEF s, P, row
    <3>1. \A i \in 1 .. Len(m) - 1 : i \in 1 .. Len(m)
      BY <1>2
    <3>. QED BY <1>7, <1>8, <3>1
  <2>3. Len(s) # 0 /\ s[Len(s)] = row(Len(m))
    <3>. HIDE DEF s, P, row
    <3>. QED BY <1>2, <1>8
  <2>. HIDE DEF s, P, row
  <2>4. \E p \in Seq(P) : FlattenSeq(s) = p \o s[Len(s)]
    BY <1>8, <2>1, <2>2, <2>3, FlattenRows
  <2>. QED BY <1>4, <2>3, <2>4
<1> DEFINE r == row(Len(m))
<1>10. p \in Seq(Command) /\ Len(p) \in Nat /\ \A k \in 1 .. Len(p) : ~p[k].stop
  <2>1. \A k \in 1 .. Len(p) : p[k] \in P
    BY <1>9
  <2>2. \A k \in 1 .. Len(p) : p[k] \in Command /\ ~p[k].stop
    BY <2>1
  <2>. QED BY <1>9, <2>2
<1>11. r \in Seq(Command) /\ Len(r) \in Nat
       /\ \A k \in 1 .. Len(r) : r[k].stop => k = Len(r) /\ ~Refused(m)
  <2>1. Len(m) \in 1 .. Len(m)
    BY <1>2
  <2>2. r \in Seq(Command) /\ Len(r) = Taken(m, Len(m))
    BY <1>6, <2>1
  <2>3. \A k \in 1 .. Len(r) : r[k] = c(Len(m), k)
    BY <2>2
  <2>4. Len(r) # 0 => Len(r) = m[Len(m)].len /\ ~Refused(m)
    BY <1>2, <2>2 DEF Taken, Refused
  <2>5. ASSUME NEW k \in 1 .. Len(r) PROVE r[k].stop => k = Len(r) /\ ~Refused(m)
    <3>0. r \in Seq(Command) /\ Len(r) = Taken(m, Len(m))
      BY <2>2
    <3>1. Len(r) # 0
      <4>. HIDE DEF r
      <4>1. Len(r) \in Nat
        BY <3>0
      <4>. QED BY <4>1
    <3>2. k \in 1 .. Taken(m, Len(m))
      BY <2>2
    <3>3. c(Len(m), k).stop => k = m[Len(m)].len
      BY <1>5, <2>1, <3>2
    <3>. HIDE DEF r
    <3>. QED BY <2>3, <2>4, <3>1, <3>3
  <2>6. Len(r) \in Nat
    <3>. HIDE DEF r
    <3>. QED BY <2>2
  <2>. HIDE DEF r
  <2>. QED BY <2>2, <2>5, <2>6
<1>12. Commands(m) = p \o r
  BY <1>9
<1> HIDE DEF r, P
<1>13. Commands(m) \in Seq(Command) /\ Len(Commands(m)) = Len(p) + Len(r)
  <2>1. p \in Seq(Command) /\ r \in Seq(Command)
    BY <1>10, <1>11
  <2>. QED BY <1>12, <2>1, ConcatProperties
<1>14. \A k \in 1 .. Len(p) + Len(r) : Commands(m)[k] = IF k <= Len(p) THEN p[k] ELSE r[k - Len(p)]
  BY <1>10, <1>11, <1>12, ConcatProperties
<1>15. ASSUME NEW k \in 1 .. Len(Commands(m))
       PROVE  Commands(m)[k].stop => k = Len(Commands(m)) /\ ~Refused(m)
  <2>1. CASE k <= Len(p)
    <3>1. k \in 1 .. Len(p) /\ k \in 1 .. Len(p) + Len(r)
      BY <1>10, <1>11, <1>13, <2>1
    <3>. QED BY <1>10, <1>13, <1>14, <3>1
  <2>2. CASE ~(k <= Len(p))
    <3>1. k - Len(p) \in 1 .. Len(r) /\ k \in 1 .. Len(p) + Len(r)
      BY <1>10, <1>11, <1>13, <2>2
    <3>2. Commands(m)[k] = r[k - Len(p)]
      BY <1>14, <2>2, <3>1
    <3>3. k - Len(p) = Len(r) <=> k = Len(Commands(m))
      <4>1. Len(p) \in Nat /\ Len(r) \in Nat /\ Len(Commands(m)) = Len(p) + Len(r)
        BY <1>10, <1>11, <1>13
      <4>. QED BY <4>1
    <3>4. r[k - Len(p)].stop => k - Len(p) = Len(r) /\ ~Refused(m)
      <4> DEFINE j == k - Len(p)
      <4>1. j \in 1 .. Len(r)
        BY <3>1
      <4>. HIDE DEF j
      <4>2. r[j].stop => j = Len(r) /\ ~Refused(m)
        BY <1>11, <4>1
      <4>. QED BY <4>2 DEF j
    <3>. QED BY <3>2, <3>3, <3>4
  <2>. QED BY <2>1, <2>2
<1>. QED BY <1>13, <1>15
-----------------------------------------------------------------------------
(* How many commands of a row read.                                        *)
Readers(q) == {k \in DOMAIN q : q[k].read}

LEMMA ReadsBound ==
  ASSUME NEW q \in Seq(Command)
  PROVE  IsFiniteSet(Readers(q)) /\ ReadsIn(q) = Cardinality(Readers(q))
         /\ ReadsIn(q) \in Nat /\ ReadsIn(q) <= Len(q)
<1>1. Len(q) \in Nat /\ DOMAIN q = 1 .. Len(q)
  OBVIOUS
<1>2. IsFiniteSet(1 .. Len(q)) /\ Cardinality(1 .. Len(q)) = Len(q)
  BY <1>1, FS_Interval, SMTT(30)
<1>3. Readers(q) \in SUBSET (1 .. Len(q))
  BY <1>1 DEF Readers
<1>4. IsFiniteSet(Readers(q)) /\ Cardinality(Readers(q)) <= Len(q)
  BY <1>2, <1>3, FS_Subset
<1>. QED BY <1>4, FS_CardinalityType DEF ReadsIn, Readers

LEMMA ReadsEmpty == ReadsIn(<<>>) = 0
<1>1. Readers(<<>>) = {}
  BY DEF Readers
<1>. QED BY <1>1, FS_EmptySet DEF ReadsIn, Readers

LEMMA ReadsSame ==
  ASSUME NEW p \in Seq(Command), NEW q \in Seq(Command), Len(p) = Len(q),
         \A k \in 1 .. Len(p) : p[k].read <=> q[k].read
  PROVE  ReadsIn(p) = ReadsIn(q)
<1>1. Readers(p) = Readers(q)
  BY DEF Readers
<1>. QED BY <1>1, ReadsBound

LEMMA ShiftSize ==
  ASSUME NEW S \in SUBSET Nat, IsFiniteSet(S), NEW a \in Nat
  PROVE  IsFiniteSet({a + j : j \in S}) /\ Cardinality({a + j : j \in S}) = Cardinality(S)
<1> DEFINE T == {a + j : j \in S}
           f == [j \in S |-> a + j]
<1>1. f \in Bijection(S, T)
  <2>1. f \in [S -> T]
    OBVIOUS
  <2>2. \A x, y \in S : f[x] = f[y] => x = y
    OBVIOUS
  <2>3. \A t \in T : \E j \in S : f[j] = t
    OBVIOUS
  <2>. HIDE DEF f, T
  <2>. QED BY <2>1, <2>2, <2>3 DEF Bijection, Injection, Surjection, IsInjective
<1>2. ExistsBijection(S, T)
  BY <1>1 DEF ExistsBijection
<1>. QED BY <1>2, FS_Bijection

LEMMA ReadsConcat ==
  ASSUME NEW p \in Seq(Command), NEW q \in Seq(Command)
  PROVE  p \o q \in Seq(Command) /\ ReadsIn(p \o q) = ReadsIn(p) + ReadsIn(q)
<1> DEFINE a == Len(p)
           T == {a + j : j \in Readers(q)}
<1>1. a \in Nat /\ Len(q) \in Nat /\ DOMAIN p = 1 .. a /\ DOMAIN q = 1 .. Len(q)
  OBVIOUS
<1>2. /\ p \o q \in Seq(Command) /\ Len(p \o q) = a + Len(q)
  BY ConcatProperties
<1>3. \A k \in 1 .. a + Len(q) : (p \o q)[k] = IF k <= a THEN p[k] ELSE q[k - a]
  BY ConcatProperties
<1>4. DOMAIN (p \o q) = 1 .. a + Len(q)
  BY <1>2
<1> HIDE DEF a
<1>5. Readers(p \o q) = Readers(p) \cup T
  <2>1. ASSUME NEW k \in Readers(p \o q) PROVE k \in Readers(p) \cup T
    <3>1. k \in 1 .. a + Len(q) /\ (p \o q)[k].read
      BY <1>4 DEF Readers
    <3>2. CASE k <= a
      BY <1>1, <1>3, <3>1, <3>2 DEF Readers
    <3>3. CASE ~(k <= a)
      <4> DEFINE j == k - a
      <4>1. j \in 1 .. Len(q) /\ k = a + j /\ (p \o q)[k] = q[j]
        BY <1>1, <1>3, <3>1, <3>3
      <4>. HIDE DEF j
      <4>. QED BY <1>1, <3>1, <4>1 DEF Readers
    <3>. QED BY <3>2, <3>3
  <2>2. ASSUME NEW k \in Readers(p) PROVE k \in Readers(p \o q)
    <3>1. k \in 1 .. a /\ p[k].read
      BY <1>1, <2>2 DEF Readers
    <3>2. k \in 1 .. a + Len(q) /\ k <= a
      BY <1>1, <3>1
    <3>. QED BY <1>3, <1>4, <3>1, <3>2 DEF Readers
  <2>3. ASSUME NEW j \in Readers(q) PROVE a + j \in Readers(p \o q)
    <3> DEFINE k == a + j
    <3>1. j \in 1 .. Len(q) /\ q[j].read
      BY <1>1, <2>3 DEF Readers
    <3>2. k \in 1 .. a + Len(q) /\ ~(k <= a) /\ k - a = j
      BY <1>1, <3>1
    <3>. HIDE DEF k
    <3>3. (p \o q)[k] = q[j]
      BY <1>3, <3>2
    <3>4. k \in Readers(p \o q)
      BY <1>4, <3>1, <3>2, <3>3 DEF Readers
    <3>. QED BY <3>4 DEF k
  <2>. QED BY <2>1, <2>2, <2>3
<1>6. Readers(q) \in SUBSET Nat /\ IsFiniteSet(Readers(q)) /\ IsFiniteSet(Readers(p))
  <2>1. \A k \in Readers(q) : k \in Nat
    BY <1>1 DEF Readers
  <2>. QED BY <2>1, ReadsBound
<1>7. IsFiniteSet(T) /\ Cardinality(T) = Cardinality(Readers(q))
  BY <1>1, <1>6, ShiftSize
<1>8. Readers(p) \cap T = {}
  BY <1>1 DEF Readers
<1>9. Cardinality(Readers(p) \cup T) = Cardinality(Readers(p)) + Cardinality(T) - Cardinality({})
  <2>. HIDE DEF T
  <2>. QED BY <1>6, <1>7, <1>8, FS_Union
<1>10. Cardinality(Readers(p)) \in Nat /\ Cardinality(T) \in Nat /\ Cardinality({}) = 0
  BY <1>6, <1>7, FS_CardinalityType, FS_EmptySet
<1>11. ReadsIn(p \o q) = Cardinality(Readers(p \o q))
  BY <1>2, ReadsBound
<1>12. ReadsIn(p) = Cardinality(Readers(p)) /\ ReadsIn(q) = Cardinality(Readers(q))
  BY ReadsBound
<1>. QED BY <1>2, <1>5, <1>7, <1>9, <1>10, <1>11, <1>12

LEMMA ReadsOne ==
  ASSUME NEW c \in Command
  PROVE  <<c>> \in Seq(Command) /\ ReadsIn(<<c>>) = IF c.read THEN 1 ELSE 0
<1>1. CASE c.read
  <2>1. Readers(<<c>>) = {1}
    BY <1>1 DEF Readers
  <2>. QED BY <1>1, <2>1, FS_Singleton DEF ReadsIn, Readers
<1>2. CASE ~c.read
  <2>1. Readers(<<c>>) = {}
    BY <1>2 DEF Readers
  <2>. QED BY <1>2, <2>1, FS_EmptySet DEF ReadsIn, Readers
<1>. QED BY <1>1, <1>2

LEMMA ReadsAppend ==
  ASSUME NEW q \in Seq(Command), NEW c \in Command
  PROVE  Append(q, c) \in Seq(Command) /\ ReadsIn(Append(q, c)) = ReadsIn(q) + IF c.read THEN 1 ELSE 0
<1>1. Append(q, c) = q \o <<c>>
  OBVIOUS
<1>. QED BY <1>1, ReadsOne, ReadsConcat

LEMMA ReadsTail ==
  ASSUME NEW q \in Seq(Command), q # <<>>
  PROVE  /\ Head(q) \in Command /\ Tail(q) \in Seq(Command) /\ Len(Tail(q)) = Len(q) - 1
         /\ ReadsIn(q) = ReadsIn(Tail(q)) + IF Head(q).read THEN 1 ELSE 0
<1>1. Head(q) \in Command /\ Tail(q) \in Seq(Command) /\ Len(Tail(q)) = Len(q) - 1
  OBVIOUS
<1>2. q = <<Head(q)>> \o Tail(q)
  BY <1>1
<1>3. ReadsIn(q) = ReadsIn(<<Head(q)>>) + ReadsIn(Tail(q))
  BY <1>1, <1>2, ReadsOne, ReadsConcat
<1>4. ReadsIn(Tail(q)) \in Nat
  BY <1>1, ReadsBound
<1>. QED BY <1>1, <1>3, <1>4, ReadsOne

(* A row that is the start of another one.                                 *)
LEMMA ReadsStart ==
  ASSUME NEW p \in Seq(Command), NEW q \in Seq(Command), Len(p) <= Len(q),
         \A k \in 1 .. Len(p) : p[k].read <=> q[k].read
  PROVE  ReadsIn(p) <= ReadsIn(q)
<1>1. Readers(p) \in SUBSET Readers(q)
  BY DEF Readers
<1>. QED BY <1>1, ReadsBound, FS_Subset
-----------------------------------------------------------------------------
(* dwi2c_xfer_msg() and dwi2c_read().                                      *)
LEMMA Depths == TxDepth \in Nat /\ TxDepth >= 1 /\ RxDepth \in Nat /\ RxDepth >= 1
                /\ Retries \in Nat /\ Retries >= 1 /\ NoTask \notin Tasks
  BY DwI2CAssumption

LEMMA MaxInRange ==
  ASSUME NEW L \in Nat, NEW S \in SUBSET (0 .. L), S # {}
  PROVE  Max(S) \in S /\ \A n \in S : Max(S) >= n
<1> DEFINE T == {k \in Nat : L - k \in S}
<1>1. T # {}
  <2>1. PICK n \in S : TRUE
    OBVIOUS
  <2>2. L - n \in Nat /\ L - (L - n) = n
    OBVIOUS
  <2>3. L - n \in T
    BY <2>2
  <2>. QED BY <2>3
<1>2. PICK k \in T : \A y \in T : ~(<<y, k>> \in OpToRel(<, Nat))
  <2>1. T \subseteq Nat
    OBVIOUS
  <2>. HIDE DEF T
  <2>. QED BY <1>1, <2>1, NatLessThanWellFounded, WFMin
<1>3. \A n \in S : L - k >= n
  <2> SUFFICES ASSUME NEW n \in S PROVE L - k >= n
    OBVIOUS
  <2> DEFINE y == L - n
  <2>1. y \in Nat /\ L - y = n /\ y \in T
    OBVIOUS
  <2>. HIDE DEF y
  <2>2. ~(y < k)
    <3>1. <<y, k>> \notin OpToRel(<, Nat)
      BY <1>2, <2>1
    <3>. QED BY <2>1, <3>1 DEF OpToRel
  <2>. QED BY <2>1, <2>2
<1>4. L - k \in S
  OBVIOUS
<1>5. \E x \in S : \A n \in S : x >= n
  BY <1>3, <1>4
<1>. QED BY <1>5 DEF Max

LEMMA MinTwo ==
  ASSUME NEW a \in Int, NEW b \in Int
  PROVE  Min({a, b}) = IF a <= b THEN a ELSE b
<1> DEFINE m == IF a <= b THEN a ELSE b
<1>1. m \in {a, b} /\ \A y \in {a, b} : m <= y
  OBVIOUS
<1>2. \A x \in {a, b} : (\A y \in {a, b} : x <= y) => x = m
  OBVIOUS
<1>. QED BY <1>1, <1>2 DEF Min

LEMMA UnfedRow ==
  ASSUME Row \in Seq(Command), fed \in 0 .. Len(Row)
  PROVE  /\ Len(Row) \in Nat /\ Unfed \in Seq(Command) /\ Len(Unfed) = Len(Row) - fed
         /\ \A j \in 1 .. Len(Row) - fed : Unfed[j] = Row[fed + j] /\ Unfed[j] \in Command
<1>1. Unfed = SubSeq(Row, fed + 1, Len(Row)) /\ Len(Row) \in Nat
  BY DEF Unfed, Row
<1>2. Unfed \in Seq(Command) /\ Len(Unfed) = Len(Row) - fed
  BY <1>1
<1>3. ASSUME NEW j \in 1 .. Len(Row) - fed PROVE Unfed[j] = Row[fed + j] /\ Unfed[j] \in Command
  <2>1. Unfed[j] = Row[fed + j]
    BY <1>1
  <2>. QED BY <1>2, <2>1
<1>. QED BY <1>1, <1>2, <1>3

(* As much is fed as there is room for, and what it reads has room.        *)
LEMMA FeedFits ==
  ASSUME Row \in Seq(Command), fed \in 0 .. Len(Row), Len(txFifo) \in 0 .. TxDepth,
         NEW rx \in Nat, NEW unread \in Nat, NEW n, n = Feed(rx, unread)
  PROVE  /\ n \in 0 .. Len(Row) - fed /\ Len(txFifo) + n <= TxDepth
         /\ \A k \in 0 .. Len(Row) - fed : (\A j \in 1 .. k : Room(j, rx, unread)) => k <= n
         /\ Cardinality(ReadsBefore(n + 1)) \in Nat
         /\ ReadsBefore(n + 1) = {} \/ unread + Cardinality(ReadsBefore(n + 1)) <= RxDepth - rx
<1> DEFINE L == Len(Unfed)
           S == {k \in 0 .. L : \A j \in 1 .. k : Room(j, rx, unread)}
<1>1. L \in Nat /\ L = Len(Row) - fed /\ \A j \in 1 .. L : Unfed[j] \in Command
  BY UnfedRow
<1>2. n \in S /\ \A k \in S : n >= k
  <2>1. 0 \in S
    BY <1>1
  <2>2. n = Max(S)
    BY DEF Feed
  <2>3. S \in SUBSET (0 .. L)
    OBVIOUS
  <2>. HIDE DEF S, L
  <2>. QED BY <1>1, <2>1, <2>2, <2>3, MaxInRange
<1>3. n \in 0 .. L /\ \A j \in 1 .. n : Room(j, rx, unread)
  BY <1>2
<1>4. \A k \in 0 .. L : (\A j \in 1 .. k : Room(j, rx, unread)) => k <= n
  <2>1. \A k \in S : k <= n
    BY <1>2, <1>3
  <2>. QED BY <2>1
<1>5. Len(txFifo) + n <= TxDepth
  <2>1. CASE n = 0
    BY <2>1, Depths
  <2>2. CASE n # 0
    <3>1. n \in 1 .. n
      BY <1>1, <1>3, <2>2
    <3>2. Len(txFifo) + n - 1 < TxDepth
      BY <1>3, <3>1 DEF Room
    <3>. QED BY <1>1, <1>3, <3>2, Depths
  <2>. QED BY <2>1, <2>2
<1> HIDE DEF S, L
<1>6. ASSUME NEW k \in 1 .. L + 1
      PROVE  IsFiniteSet(ReadsBefore(k)) /\ Cardinality(ReadsBefore(k)) \in Nat
  <2>1. ReadsBefore(k) \in SUBSET (1 .. k - 1)
    BY DEF ReadsBefore
  <2>2. IsFiniteSet(1 .. k - 1)
    BY <1>1, FS_Interval
  <2>. QED BY <2>1, <2>2, FS_Subset, FS_CardinalityType
<1>7. n + 1 \in 1 .. L + 1
  BY <1>1, <1>3
<1>8. ASSUME ReadsBefore(n + 1) # {}
      PROVE  unread + Cardinality(ReadsBefore(n + 1)) <= RxDepth - rx
  <2> DEFINE R == ReadsBefore(n + 1)
  <2>1. R \in SUBSET (0 .. n)
    BY <1>1, <1>3 DEF ReadsBefore
  <2>2. PICK m \in R : \A j \in R : m >= j
    <3>1. n \in Nat
      BY <1>1, <1>3
    <3>. HIDE DEF R
    <3>2. R # {}
      BY <1>8 DEF R
    <3>. QED BY <2>1, <3>1, <3>2, MaxInRange
  <2>3. m \in 1 .. n /\ m \in 1 .. L + 1 /\ m \in Nat /\ Unfed[m].read
    BY <1>1, <1>3, <2>2 DEF ReadsBefore
  <2>4. R = ReadsBefore(m) \cup {m} /\ m \notin ReadsBefore(m)
    <3>1. \A j \in R : j \in ReadsBefore(m) \/ j = m
      BY <1>1, <1>3, <2>2, <2>3 DEF ReadsBefore
    <3>2. \A j \in ReadsBefore(m) : j \in R /\ j # m
      BY <1>1, <1>3, <2>3 DEF ReadsBefore
    <3>. HIDE DEF R
    <3>. QED BY <2>2, <3>1, <3>2
  <2>5. IsFiniteSet(ReadsBefore(m)) /\ Cardinality(ReadsBefore(m)) \in Nat
    BY <1>6, <2>3
  <2>6. Cardinality(R) = Cardinality(ReadsBefore(m)) + 1
    <3>. HIDE DEF R
    <3>. QED BY <2>4, <2>5, FS_AddElement
  <2> DEFINE same == {j \in ReadsBefore(m) : Unfed[j].msg = Unfed[m].msg}
  <2>7. Cardinality(same) \in Nat
    <3>1. same \in SUBSET ReadsBefore(m)
      OBVIOUS
    <3>. HIDE DEF same
    <3>. QED BY <2>5, <3>1, FS_Subset, FS_CardinalityType
  <2>8. RxDepth - rx - Cardinality(same) - (unread + Cardinality(ReadsBefore(m))) > 0
    <3>1. Room(m, rx, unread)
      BY <1>3, <2>3
    <3>. QED BY <2>3, <3>1 DEF Room
  <2>. HIDE DEF same, R
  <2>9. unread + Cardinality(R) <= RxDepth - rx
    BY <2>5, <2>6, <2>7, <2>8, Depths
  <2>. QED BY <2>9 DEF R
<1>. QED BY <1>1, <1>3, <1>4, <1>5, <1>6, <1>7, <1>8
LEMMA RowOfCommands ==
  ASSUME NEW n \in Nat, NEW s, s = [j \in 1 .. n |-> s[j]], \A j \in 1 .. n : s[j] \in Command
  PROVE  s \in Seq(Command) /\ Len(s) = n /\ DOMAIN s = 1 .. n
<1>1. s \in [1 .. n -> Command]
  OBVIOUS
<1>. QED BY <1>1

Refusing == msg_err' = msg_err \/ (msg_err' = TRUE /\ Refused(msgs))

Newly(n) == [j \in 1 .. n |-> [Row[fed + j] EXCEPT !.restart = @ /\ (j > 1 \/ ~writing)]]

LEMMA FeedStep ==
  ASSUME Row \in Seq(Command), fed \in 0 .. Len(Row), txFifo \in Seq(Command), Len(txFifo) <= TxDepth,
         msg_err \in BOOLEAN, NEW rx \in Nat, NEW unread \in Nat,
         unread >= rx + ReadsIn(txFifo), rx + ReadsIn(txFifo) <= RxDepth,
         dwi2c_xfer_msg(rx, unread)
  PROVE  \E n \in 0 .. Len(Row) - fed :
           /\ fed' = fed + n /\ writing' = (n # Len(Row) - fed)
           /\ Newly(n) \in Seq(Command) /\ Len(Newly(n)) = n /\ txFifo' = txFifo \o Newly(n)
           /\ txFifo' \in Seq(Command) /\ Len(txFifo') = Len(txFifo) + n /\ Len(txFifo') <= TxDepth
           /\ rx + ReadsIn(txFifo') <= RxDepth
           /\ rx_outstanding' \in Nat
           /\ rx_outstanding' - unread = ReadsIn(txFifo') - ReadsIn(txFifo)
           /\ mask' \in Masks /\ Refusing
           /\ \A k \in 0 .. Len(Row) - fed : (\A j \in 1 .. k : Room(j, rx, unread)) => k <= n
<1> DEFINE n == Feed(rx, unread)
           c == Cardinality(ReadsBefore(n + 1))
           new == Newly(n)
<1>0. Len(txFifo) \in 0 .. TxDepth
  BY Depths
<1>1. /\ n \in 0 .. Len(Row) - fed /\ Len(txFifo) + n <= TxDepth
      /\ \A k \in 0 .. Len(Row) - fed : (\A j \in 1 .. k : Room(j, rx, unread)) => k <= n
      /\ c \in Nat
      /\ ReadsBefore(n + 1) = {} \/ unread + c <= RxDepth - rx
  <2>. HIDE DEF n
  <2>1. n = Feed(rx, unread)
    BY DEF n
  <2>. QED BY <1>0, <2>1, FeedFits
<1>2. Len(Row) \in Nat /\ Len(Unfed) = Len(Row) - fed
      /\ \A j \in 1 .. Len(Row) - fed : Unfed[j] = Row[fed + j] /\ Unfed[j] \in Command
  BY UnfedRow
<1>3. /\ fed' = fed + n
      /\ writing' = ~(n = Len(Unfed))
      /\ rx_outstanding' = unread + c
      /\ txFifo' = txFifo \o [j \in 1 .. n |-> [Unfed[j] EXCEPT !.restart = @ /\ (j > 1 \/ ~writing)]]
      /\ msg_err' = (msg_err \/ (n = Len(Unfed) /\ Refused(msgs)))
      /\ mask' = IF msg_err' THEN {}
                 ELSE IF n = Len(Unfed) THEN DEFAULT_MASK \ {"TX_EMPTY"} ELSE DEFAULT_MASK
  BY DEF dwi2c_xfer_msg
<1> HIDE DEF n
<1>4. \A j \in 1 .. n : j \in 1 .. Len(Row) - fed
  BY <1>1, <1>2
<1>5. new = [j \in 1 .. n |-> [Unfed[j] EXCEPT !.restart = @ /\ (j > 1 \/ ~writing)]]
  BY <1>2, <1>4 DEF Newly
<1>6. \A j \in 1 .. n : new[j] \in Command /\ (new[j].read <=> Unfed[j].read)
  <2> SUFFICES ASSUME NEW j \in 1 .. n PROVE new[j] \in Command /\ (new[j].read <=> Unfed[j].read)
    OBVIOUS
  <2>1. PICK u \in Command : u = Unfed[j]
    BY <1>2, <1>4
  <2>2. new[j] = [u EXCEPT !.restart = @ /\ (j > 1 \/ ~writing)]
    BY <1>5, <2>1
  <2>3. (u.restart /\ (j > 1 \/ ~writing)) \in BOOLEAN
    BY Zenon
  <2>4. [u EXCEPT !.restart = @ /\ (j > 1 \/ ~writing)] \in Command
        /\ [u EXCEPT !.restart = @ /\ (j > 1 \/ ~writing)].read = u.read
    <3> DEFINE b == u.restart /\ (j > 1 \/ ~writing)
    <3>1. b \in BOOLEAN
      BY Zenon
    <3>. HIDE DEF b
    <3>2. [u EXCEPT !.restart = b] \in Command /\ [u EXCEPT !.restart = b].read = u.read
      BY <3>1 DEF Command
    <3>. QED BY <3>2 DEF b
  <2>. QED BY <2>1, <2>2, <2>4
<1>7. new \in Seq(Command) /\ Len(new) = n
  <2>1. new = [j \in 1 .. n |-> new[j]] /\ n \in Nat
    BY <1>1, <1>2, <1>5
  <2>. HIDE DEF new
  <2>2. \A j \in 1 .. n : new[j] \in Command
    BY <1>6
  <2>. QED BY <2>1, <2>2, RowOfCommands
<1>8. ReadsIn(new) = c
  <2>1. n + 1 - 1 = n /\ DOMAIN new = 1 .. n
    BY <1>1, <1>2, <1>5
  <2>2. Readers(new) = ReadsBefore(n + 1)
    <3>1. Readers(new) = {j \in 1 .. n : new[j].read}
      BY <2>1 DEF Readers
    <3> DEFINE m == n + 1
    <3>2. ReadsBefore(m) = {j \in 1 .. m - 1 : Unfed[j].read}
      <4>. HIDE DEF m
      <4>. QED BY Zenon DEF ReadsBefore
    <3>. HIDE DEF new
    <3>3. 1 .. m - 1 = 1 .. n
      <4>1. m - 1 = n
        BY <1>1, <1>2
      <4>. HIDE DEF m
      <4>. QED BY <4>1
    <3>4. ReadsBefore(n + 1) = {j \in 1 .. n : Unfed[j].read}
      BY <3>2, <3>3, Zenon
    <3>. QED BY <1>6, <3>1, <3>4
  <2>. QED BY <2>2 DEF ReadsIn, Readers
<1>9. txFifo' = txFifo \o new
  BY <1>3, <1>5
<1> HIDE DEF c, new
<1>10. txFifo' \in Seq(Command) /\ ReadsIn(txFifo') = ReadsIn(txFifo) + c
  BY <1>7, <1>8, <1>9, ReadsConcat
<1>11. Len(txFifo') = Len(txFifo) + n
  <2>1. Len(txFifo \o new) = Len(txFifo) + Len(new)
    BY <1>7, ConcatProperties
  <2>. QED BY <1>7, <1>9, <2>1
<1>12. ReadsIn(txFifo) \in Nat
  BY ReadsBound
<1>13. rx + ReadsIn(txFifo') <= RxDepth
  <2>1. CASE ReadsBefore(n + 1) = {}
    <3>1. c = 0
      BY <2>1, FS_EmptySet DEF c
    <3>. QED BY <1>10, <1>12, <3>1
  <2>2. CASE unread + c <= RxDepth - rx
    <3>1. c \in Nat
      BY <1>1
    <3>. QED BY <1>10, <1>12, <2>2, <3>1, Depths
  <2>. QED BY <1>1, <2>1, <2>2
<1>14. rx_outstanding' \in Nat /\ rx_outstanding' - unread = ReadsIn(txFifo') - ReadsIn(txFifo)
  BY <1>1, <1>3, <1>10, <1>12
<1>15. /\ mask' \in Masks /\ writing' = (n # Len(Row) - fed)
       /\ Refusing
  <2>1. mask' \in Masks
    BY <1>3 DEF Masks
  <2>2. writing' = (n # Len(Row) - fed)
    BY <1>2, <1>3
  <2>3. Refusing
    <3>1. CASE n = Len(Unfed) /\ Refused(msgs)
      BY <1>3, <3>1 DEF Refusing
    <3>2. CASE ~(n = Len(Unfed) /\ Refused(msgs))
      BY <1>3, <3>2 DEF Refusing
    <3>. QED BY <3>1, <3>2
  <2>. QED BY <2>1, <2>2, <2>3
<1>16. new = Newly(n)
  BY DEF new
<1>. QED BY <1>1, <1>3, <1>7, <1>9, <1>10, <1>11, <1>13, <1>14, <1>15, <1>16
(* dwi2c_read() takes n bytes, dwi2c_xfer_msg() puts f commands.           *)
LEMMA CutInTwo ==
  ASSUME NEW q \in Seq(Nat), NEW n \in 0 .. Len(q)
  PROVE  /\ SubSeq(q, 1, n) \in Seq(Nat) /\ Len(SubSeq(q, 1, n)) = n
         /\ \A k \in 1 .. n : SubSeq(q, 1, n)[k] = q[k]
         /\ SubSeq(q, n + 1, Len(q)) \in Seq(Nat) /\ Len(SubSeq(q, n + 1, Len(q))) = Len(q) - n
         /\ \A k \in 1 .. Len(q) - n : SubSeq(q, n + 1, Len(q))[k] = q[n + k]
<1>1. Len(q) \in Nat /\ n \in Nat
  OBVIOUS
<1>2. SubSeq(q, 1, n) \in Seq(Nat) /\ Len(SubSeq(q, 1, n)) = n
  BY <1>1
<1>3. SubSeq(q, n + 1, Len(q)) \in Seq(Nat)
  BY <1>1
<1>4. Len(SubSeq(q, n + 1, Len(q))) = Len(q) - n
  BY <1>1
<1>5. \A k \in 1 .. n : SubSeq(q, 1, n)[k] = q[k]
  BY <1>1
<1>6. \A k \in 1 .. Len(q) - n : SubSeq(q, n + 1, Len(q))[k] = q[n + k]
  BY <1>1
<1>. QED BY <1>2, <1>3, <1>4, <1>5, <1>6

LEMMA JoinedTo ==
  ASSUME NEW p \in Seq(Nat), NEW q \in Seq(Nat), NEW new \in Seq(Nat), Len(new) \in 0 .. Len(q),
         \A k \in 1 .. Len(new) : new[k] = q[k]
  PROVE  /\ p \o new \in Seq(Nat) /\ Len(p \o new) = Len(p) + Len(new)
         /\ \A k \in 1 .. Len(p) + Len(new) : (p \o new)[k] = IF k <= Len(p) THEN p[k] ELSE q[k - Len(p)]
<1>1. p \o new \in Seq(Nat) /\ Len(p \o new) = Len(p) + Len(new)
  BY ConcatProperties
<1>2. \A k \in 1 .. Len(p) + Len(new) : (p \o new)[k] = IF k <= Len(p) THEN p[k] ELSE new[k - Len(p)]
  BY ConcatProperties
<1>3. Len(p) \in Nat /\ Len(new) \in Nat
  OBVIOUS
<1>4. ASSUME NEW k \in 1 .. Len(p) + Len(new)
      PROVE  (p \o new)[k] = IF k <= Len(p) THEN p[k] ELSE q[k - Len(p)]
  <2>1. ~(k <= Len(p)) => k - Len(p) \in 1 .. Len(new)
    BY <1>3
  <2>. QED BY <1>2, <2>1
<1>. QED BY <1>1, <1>4

LEMMA FetchCount ==
  ASSUME got \in Seq(Nat), rxFifo \in Seq(Nat), Row \in Seq(Command), Len(got) <= ReadsIn(Row), NEW stat
  PROVE  /\ Fetched(stat) \in 0 .. Len(rxFifo) /\ Len(got) + Fetched(stat) <= ReadsIn(Row)
         /\ "RX_FULL" \in stat => Fetched(stat) = Len(rxFifo) \/ Len(got) + Fetched(stat) = ReadsIn(Row)
<1>1. Len(got) \in Nat /\ Len(rxFifo) \in Nat /\ ReadsIn(Row) \in Nat
  BY ReadsBound
<1>2. Wanted = ReadsIn(Row) - Len(got)
  BY DEF Wanted, ReadsIn, Row
<1>3. CASE "RX_FULL" \in stat
  <2>1. Fetched(stat) = Min({Len(rxFifo), Wanted})
    BY <1>3 DEF Fetched
  <2>2. Len(rxFifo) \in Int /\ Wanted \in Int
    BY <1>1, <1>2
  <2>3. Fetched(stat) = IF Len(rxFifo) <= Wanted THEN Len(rxFifo) ELSE Wanted
    BY <2>1, <2>2, MinTwo
  <2>. QED BY <1>1, <1>2, <2>3
<1>4. CASE "RX_FULL" \notin stat
  <2>1. Fetched(stat) = 0
    BY <1>4 DEF Fetched
  <2>. QED BY <1>1, <1>4, <2>1
<1>. QED BY <1>3, <1>4

LEMMA FetchStep ==
  ASSUME NEW g \in Seq(Nat), NEW q \in Seq(Nat), NEW n \in 0 .. Len(q)
  PROVE  LET h == g \o SubSeq(q, 1, n)  r == SubSeq(q, n + 1, Len(q)) IN
         /\ h \in Seq(Nat) /\ Len(h) = Len(g) + n
         /\ \A k \in 1 .. Len(h) : h[k] = IF k <= Len(g) THEN g[k] ELSE q[k - Len(g)]
         /\ r \in Seq(Nat) /\ Len(r) = Len(q) - n
         /\ \A k \in 1 .. Len(r) : r[k] = q[n + k]
<1> DEFINE new == SubSeq(q, 1, n)
           rest == SubSeq(q, n + 1, Len(q))
<1>1. /\ new \in Seq(Nat) /\ Len(new) = n /\ \A k \in 1 .. n : new[k] = q[k]
      /\ rest \in Seq(Nat) /\ Len(rest) = Len(q) - n /\ \A k \in 1 .. Len(q) - n : rest[k] = q[n + k]
  BY CutInTwo
<1> HIDE DEF new, rest
<1>2. Len(new) \in 0 .. Len(q) /\ \A k \in 1 .. Len(new) : new[k] = q[k]
  BY <1>1
<1>3. /\ g \o new \in Seq(Nat) /\ Len(g \o new) = Len(g) + Len(new)
      /\ \A k \in 1 .. Len(g) + Len(new) : (g \o new)[k] = IF k <= Len(g) THEN g[k] ELSE q[k - Len(g)]
  BY <1>1, <1>2, JoinedTo
<1>4. /\ rest \in Seq(Nat) /\ Len(rest) = Len(q) - n /\ \A k \in 1 .. Len(rest) : rest[k] = q[n + k]
  BY <1>1
<1>5. /\ g \o new \in Seq(Nat) /\ Len(g \o new) = Len(g) + n
      /\ \A k \in 1 .. Len(g \o new) : (g \o new)[k] = IF k <= Len(g) THEN g[k] ELSE q[k - Len(g)]
  BY <1>1, <1>3
<1>. QED BY <1>4, <1>5 DEF new, rest

LEMMA ServedStep ==
  ASSUME Row \in Seq(Command), fed \in 0 .. Len(Row), txFifo \in Seq(Command),
         got \in Seq(Nat), rxFifo \in Seq(Nat), Len(got) <= ReadsIn(Row), rx_outstanding \in Nat,
         msg_err \in BOOLEAN, Asked, NoOverrun, NEW stat, Served(stat)
  PROVE  \E n \in 0 .. Len(rxFifo), f \in 0 .. Len(Row) - fed :
           /\ got' \in Seq(Nat) /\ Len(got') = Len(got) + n /\ Len(got') <= ReadsIn(Row)
           /\ \A k \in 1 .. Len(got') : got'[k] = IF k <= Len(got) THEN got[k] ELSE rxFifo[k - Len(got)]
           /\ rxFifo' \in Seq(Nat) /\ Len(rxFifo') = Len(rxFifo) - n
           /\ \A k \in 1 .. Len(rxFifo') : rxFifo'[k] = rxFifo[n + k]
           /\ "RX_FULL" \in stat => n = Len(rxFifo) \/ Len(got') = ReadsIn(Row)
           /\ fed' = fed + f /\ writing' = (IF "TX_EMPTY" \in stat THEN f # Len(Row) - fed ELSE writing)
           /\ Newly(f) \in Seq(Command) /\ Len(Newly(f)) = f /\ txFifo' = txFifo \o Newly(f)
           /\ txFifo' \in Seq(Command) /\ Len(txFifo') = Len(txFifo) + f /\ Len(txFifo') <= TxDepth
           /\ Len(rxFifo') + ReadsIn(txFifo') <= RxDepth
           /\ rx_outstanding' \in Nat
           /\ rx_outstanding' = rx_outstanding - n + ReadsIn(txFifo') - ReadsIn(txFifo)
           /\ mask' \in Masks \cup {mask} /\ Refusing
           /\ "TX_EMPTY" \in stat =>
                \A k \in 0 .. Len(Row) - fed :
                  (\A j \in 1 .. k : Room(j, Len(rxFifo) - n, rx_outstanding - n)) => k <= f
           /\ "TX_EMPTY" \notin stat => f = 0
           /\ cmd_err' = cmd_err
<1>2. PICK n : n = Fetched(stat)
  OBVIOUS
<1>1. /\ got' = got \o SubSeq(rxFifo, 1, n)
      /\ rxFifo' = SubSeq(rxFifo, n + 1, Len(rxFifo))
      /\ IF "TX_EMPTY" \in stat
           THEN dwi2c_xfer_msg(Len(rxFifo) - n, rx_outstanding - n)
           ELSE rx_outstanding' = rx_outstanding - n /\ UNCHANGED <<fed, writing, msg_err, txFifo, mask>>
      /\ cmd_err' = cmd_err
  BY <1>2 DEF Served
<1>3. /\ n \in 0 .. Len(rxFifo)
      /\ got' \in Seq(Nat) /\ Len(got') = Len(got) + n /\ Len(got') <= ReadsIn(Row)
      /\ \A k \in 1 .. Len(got') : got'[k] = IF k <= Len(got) THEN got[k] ELSE rxFifo[k - Len(got)]
      /\ rxFifo' \in Seq(Nat) /\ Len(rxFifo') = Len(rxFifo) - n
      /\ \A k \in 1 .. Len(rxFifo') : rxFifo'[k] = rxFifo[n + k]
      /\ "RX_FULL" \in stat => n = Len(rxFifo) \/ Len(got') = ReadsIn(Row)
  <2>1. n \in 0 .. Len(rxFifo) /\ Len(got) + n <= ReadsIn(Row)
        /\ ("RX_FULL" \in stat => n = Len(rxFifo) \/ Len(got) + n = ReadsIn(Row))
    BY <1>2, FetchCount
  <2> DEFINE h == got \o SubSeq(rxFifo, 1, n)
             r == SubSeq(rxFifo, n + 1, Len(rxFifo))
  <2>2. /\ h \in Seq(Nat) /\ Len(h) = Len(got) + n
        /\ \A k \in 1 .. Len(h) : h[k] = IF k <= Len(got) THEN got[k] ELSE rxFifo[k - Len(got)]
        /\ r \in Seq(Nat) /\ Len(r) = Len(rxFifo) - n
        /\ \A k \in 1 .. Len(r) : r[k] = rxFifo[n + k]
    <3>1. got \in Seq(Nat) /\ rxFifo \in Seq(Nat)
      BY <1>2
    <3>2. n \in 0 .. Len(rxFifo)
      BY <2>1
    <3>. QED BY <3>1, <3>2, FetchStep
  <2>3. got' = h /\ rxFifo' = r
    BY <1>1
  <2>. HIDE DEF h, r
  <2>. QED BY <2>1, <2>2, <2>3
<1>4. Len(rxFifo) \in Nat /\ ReadsIn(txFifo) \in Nat /\ Len(txFifo) \in Nat /\ Len(Row) \in Nat
  BY ReadsBound
<1>5. rx_outstanding >= Len(rxFifo) + ReadsIn(txFifo) /\ Len(rxFifo) + ReadsIn(txFifo) <= RxDepth
      /\ Len(txFifo) <= TxDepth
  BY DEF Asked, NoOverrun, ReadsIn
<1>6. CASE "TX_EMPTY" \in stat
  <2> DEFINE rx == Len(rxFifo) - n
             unread == rx_outstanding - n
  <2>0. n \in 0 .. Len(rxFifo)
    BY <1>3
  <2>1. rx \in Nat /\ unread \in Nat /\ unread >= rx + ReadsIn(txFifo) /\ rx + ReadsIn(txFifo) <= RxDepth
    BY <1>4, <1>5, <2>0, Depths
  <2>2. dwi2c_xfer_msg(rx, unread)
    BY <1>1, <1>6
  <2>3. Len(rxFifo') = rx
    BY <1>3
  <2> HIDE DEF rx, unread
  <2>4. PICK f \in 0 .. Len(Row) - fed :
           /\ fed' = fed + f /\ writing' = (f # Len(Row) - fed)
           /\ Newly(f) \in Seq(Command) /\ Len(Newly(f)) = f /\ txFifo' = txFifo \o Newly(f)
           /\ txFifo' \in Seq(Command) /\ Len(txFifo') = Len(txFifo) + f /\ Len(txFifo') <= TxDepth
           /\ rx + ReadsIn(txFifo') <= RxDepth
           /\ rx_outstanding' \in Nat
           /\ rx_outstanding' - unread = ReadsIn(txFifo') - ReadsIn(txFifo)
           /\ mask' \in Masks /\ Refusing
           /\ \A k \in 0 .. Len(Row) - fed : (\A j \in 1 .. k : Room(j, rx, unread)) => k <= f
    BY <1>5, <2>1, <2>2, FeedStep
  <2>5. ReadsIn(txFifo') \in Nat
    BY <2>4, ReadsBound
  <2>6. rx_outstanding' = unread + ReadsIn(txFifo') - ReadsIn(txFifo)
    BY <1>4, <2>1, <2>4, <2>5
  <2>7. \A k \in 0 .. Len(Row) - fed :
          (\A j \in 1 .. k : Room(j, Len(rxFifo) - n, rx_outstanding - n)) => k <= f
    BY <2>4 DEF rx, unread
  <2>8. rx_outstanding' = rx_outstanding - n + ReadsIn(txFifo') - ReadsIn(txFifo)
    BY <2>6 DEF unread
  <2>9. writing' = (IF "TX_EMPTY" \in stat THEN f # Len(Row) - fed ELSE writing)
    BY <1>6, <2>4
  <2>. QED BY <1>1, <1>3, <1>6, <2>3, <2>4, <2>7, <2>8, <2>9
<1>7. CASE "TX_EMPTY" \notin stat
  <2>1. rx_outstanding' = rx_outstanding - n /\ fed' = fed /\ writing' = writing /\ txFifo' = txFifo /\ mask' = mask
        /\ Refusing
    BY <1>1, <1>7 DEF Refusing
  <2>2. Newly(0) = <<>> /\ txFifo \o <<>> = txFifo /\ <<>> \in Seq(Command) /\ Len(<<>>) = 0
    BY DEF Newly
  <2>3. rx_outstanding' \in Nat /\ Len(rxFifo') + ReadsIn(txFifo') <= RxDepth
        /\ rx_outstanding' = rx_outstanding - n + ReadsIn(txFifo') - ReadsIn(txFifo)
    <3>1. n \in 0 .. Len(rxFifo) /\ Len(rxFifo') = Len(rxFifo) - n
      BY <1>3
    <3>. QED BY <1>4, <1>5, <2>1, <3>1, Depths, SMTT(30)
  <2>4. fed' = fed + 0 /\ Len(txFifo') = Len(txFifo) + 0 /\ 0 \in 0 .. Len(Row) - fed
    BY <1>4, <2>1
  <2>5. writing' = (IF "TX_EMPTY" \in stat THEN 0 # Len(Row) - fed ELSE writing)
    BY <1>7, <2>1
  <2>6. txFifo' = txFifo \o Newly(0) /\ Newly(0) \in Seq(Command) /\ Len(Newly(0)) = 0 /\ txFifo' \in Seq(Command)
        /\ Len(txFifo') <= TxDepth
    BY <1>5, <2>1, <2>2
  <2>. QED BY <1>1, <1>3, <1>7, <2>1, <2>3, <2>4, <2>5, <2>6
<1>. QED BY <1>6, <1>7-----------------------------------------------------------------------------
(* Every step keeps Safe.                                                  *)
LEMMA RowTyped ==
  ASSUME WellFormed, msgs \in Transfers
  PROVE  Row \in Seq(Command) /\ ReadsIn(Row) \in Nat /\ Len(Row) \in Nat
<1>1. Row \in Seq(Command)
  BY CommandsWell DEF Row
<1>. QED BY <1>1, ReadsBound

(* The parts of a step of a task that only moves on, from a place where it *)
(* holds the bus.                                                          *)
LEMMA TaskMoves ==
  ASSUME Typed, Owning, NEW t \in Tasks, pc[t] # "out", NEW where \in Places, Goto(t, where)
  PROVE  /\ owner = t /\ owner # NoTask /\ pc' \in [Tasks -> Places] /\ pc'[t] = where
         /\ \A u \in Tasks : u # t => pc'[u] = "out"
<1>1. owner = t
  BY DEF Owning
<1>2. pc \in [Tasks -> Places] /\ pc' = [pc EXCEPT ![t] = where]
  BY DEF Typed, Goto
<1>3. \A u \in Tasks : u # t => pc[u] = "out"
  BY <1>1 DEF Owning
<1>. QED BY <1>1, <1>2, <1>3, Depths

LEMMA NothingMoved ==
  ASSUME Asked, NoOverrun, UNCHANGED <<txFifo, rxFifo, rx_outstanding>>
  PROVE  Asked' /\ NoOverrun'
BY DEF Asked, NoOverrun, ReadsIn

LEMMA NothingQueued ==
  ASSUME txFifo' = <<>>, rxFifo' = <<>>, rx_outstanding' \in Nat
  PROVE  Asked' /\ NoOverrun'
<1>1. ReadsIn(<<>>) = 0 /\ Len(<<>>) = 0
  BY ReadsEmpty
<1>2. Len(rxFifo') + ReadsIn(txFifo') = 0 /\ Len(txFifo') = 0
  BY <1>1
<1>. QED BY <1>2, Depths DEF Asked, NoOverrun, ReadsIn

LEMMA CallSafe ==
  ASSUME WellFormed, Safe, NEW t \in Tasks, NEW m \in Transfers, i2c_transfer(t, m)
  PROVE  Safe'
<1>1. Typed /\ Owning /\ Asked /\ NoOverrun
  BY DEF Safe
<1>2. /\ pc[t] = "out" /\ owner = NoTask /\ owner' = t /\ retries' = Retries /\ msgs' = m
      /\ rval' = [rval EXCEPT ![t] = "none"] /\ pc' = [pc EXCEPT ![t] = "xfer"]
      /\ UNCHANGED <<fed, writing, got, rx_outstanding, cmd_err, msg_err, wait, enabled, mask, latched, txFifo, rxFifo, wire>>
  BY DEF i2c_transfer, Goto, progress, registers, fifos
<1>3. Typed'
  <2>1. rval' \in [Tasks -> Results] /\ pc' \in [Tasks -> Places]
    BY <1>1, <1>2 DEF Typed, Places, Live, Results
  <2>2. retries' \in 0 .. Retries
    BY <1>2, Depths
  <2>. QED BY <1>1, <1>2, <2>1, <2>2 DEF Typed
<1>4. Owning'
  <2>1. \A u \in Tasks : u # t => pc'[u] = "out"
    <3>1. \A u \in Tasks : pc[u] = "out"
      BY <1>1, <1>2, Depths DEF Owning
    <3>. QED BY <1>1, <1>2, <3>1 DEF Typed
  <2>2. pc'[t] = "xfer" /\ owner' # NoTask
    BY <1>1, <1>2, Depths DEF Typed
  <2>3. ~enabled
    BY <1>1, <1>2 DEF Owning
  <2>. QED BY <1>1, <1>2, <2>1, <2>2, <2>3 DEF Owning, Live
<1>5. Asked' /\ NoOverrun'
  BY <1>1, <1>2, NothingMoved
<1>. QED BY <1>3, <1>4, <1>5 DEF Safe

LEMMA ResetSafe ==
  ASSUME WellFormed, Safe, NEW t \in Tasks, XferReset(t)
  PROVE  Safe'
<1>1. Typed /\ Owning /\ Asked /\ NoOverrun
  BY DEF Safe
<1>2. /\ pc[t] = "xfer" /\ retries > 0 /\ retries' = retries - 1
      /\ fed' = 0 /\ writing' = FALSE /\ got' = <<>> /\ rx_outstanding' = 0 /\ cmd_err' = FALSE
      /\ msg_err' = FALSE /\ wait' = 0 /\ wire' = <<>> /\ Goto(t, "idle?")
      /\ UNCHANGED <<owner, rval, msgs, enabled, mask, latched, txFifo, rxFifo>>
  BY DEF XferReset, registers, fifos
<1>3. /\ owner = t /\ owner # NoTask /\ pc' \in [Tasks -> Places] /\ pc'[t] = "idle?"
      /\ \A u \in Tasks : u # t => pc'[u] = "out"
  <2>1. "idle?" \in Places
    BY DEF Places
  <2>. QED BY <1>1, <1>2, <2>1, TaskMoves
<1>4. Typed'
  <2>1. retries' \in 0 .. Retries
    <3>1. retries \in 0 .. Retries
      BY <1>1 DEF Typed
    <3>. QED BY <1>2, <3>1, Depths
  <2>2. got' \in Seq(Nat) /\ wire' \in Seq(Command) /\ fed' \in Nat /\ rx_outstanding' \in Nat /\ wait' \in Nat
        /\ writing' \in BOOLEAN /\ cmd_err' \in BOOLEAN /\ msg_err' \in BOOLEAN
    <3>1. got' \in Seq(Nat) /\ wire' \in Seq(Command)
      BY <1>2, EmptySeq
    <3>. QED BY <1>2, <3>1
  <2>3. owner' = owner /\ rval' = rval /\ enabled' = enabled /\ mask' = mask /\ latched' = latched
        /\ txFifo' = txFifo /\ rxFifo' = rxFifo
    BY <1>2
  <2>. QED BY <1>1, <1>3, <2>1, <2>2, <2>3 DEF Typed
<1>5. ~enabled
  BY <1>1, <1>2, <1>3 DEF Owning, Live
<1>6. Owning'
  <2>1. msgs \in Transfers
    BY <1>1, <1>3 DEF Owning
  <2>2. fed' <= Len(Row) /\ Len(got') <= ReadsIn(Row)
    <3>1. Len(Row) \in Nat /\ ReadsIn(Row) \in Nat /\ Len(got') = 0
      BY <1>2, <2>1, RowTyped
    <3>. QED BY <1>2, <3>1
  <2>3. Row' = Row /\ ReadsIn(Row)' = ReadsIn(Row) /\ Len(Row)' = Len(Row)
    BY <1>2 DEF Row, ReadsIn
  <2>4. txFifo = <<>> /\ rxFifo = <<>>
    BY <1>1, <1>5 DEF Owning
  <2>. QED BY <1>2, <1>3, <1>5, <2>1, <2>2, <2>3, <2>4 DEF Owning, Live
<1>7. Asked' /\ NoOverrun'
  <2>1. txFifo' = <<>> /\ rxFifo' = <<>>
    BY <1>1, <1>2, <1>5 DEF Owning
  <2>. QED BY <1>2, <2>1, NothingQueued
<1>. QED BY <1>4, <1>6, <1>7 DEF Safe
(* The steps of the task that leave what the handler has done.             *)
LEMMA BusySafe ==
  ASSUME WellFormed, Safe, NEW t \in Tasks, BusBusy(t) \/ XferTimeout(t)
  PROVE  Safe'
<1>1. Typed /\ Owning /\ Asked /\ NoOverrun
  BY DEF Safe
<1>2. PICK where \in {"xfer", "reset"} :
        /\ Goto(t, where) /\ pc[t] # "out"
        /\ (where = "reset" /\ pc[t] = "wait") \/ (where = "xfer" /\ pc[t] = "idle?")
        /\ rval' \in {rval, [rval EXCEPT ![t] = "ETIMEDOUT"]}
        /\ UNCHANGED <<owner, retries, msgs, fed, writing, got, rx_outstanding, cmd_err, msg_err, wait, enabled, mask, latched,
                       txFifo, rxFifo, wire>>
  BY DEF BusBusy, XferTimeout, dwi2c, progress, registers, fifos
<1>3. /\ owner = t /\ owner # NoTask /\ pc' \in [Tasks -> Places] /\ pc'[t] = where
      /\ \A u \in Tasks : u # t => pc'[u] = "out"
  <2>1. where \in Places
    BY DEF Places, Live
  <2>. QED BY <1>1, <1>2, <2>1, TaskMoves
<1>4. Typed'
  <2>1. rval' \in [Tasks -> Results]
    BY <1>1, <1>2 DEF Typed, Results
  <2>. QED BY <1>1, <1>2, <1>3, <2>1 DEF Typed
<1>5. Owning'
  <2>1. Row' = Row /\ ReadsIn(Row)' = ReadsIn(Row) /\ Len(Row)' = Len(Row)
    BY <1>2 DEF Row, ReadsIn
  <2>2. enabled <=> pc'[t] \in Live
    BY <1>1, <1>2, <1>3 DEF Owning, Live
  <2>. QED BY <1>1, <1>2, <1>3, <2>1, <2>2 DEF Owning, Live
<1>6. Asked' /\ NoOverrun'
  BY <1>1, <1>2, NothingMoved
<1>. QED BY <1>4, <1>5, <1>6 DEF Safe

LEMMA EnableSafe ==
  ASSUME WellFormed, Safe, NEW t \in Tasks, XferEnable(t)
  PROVE  Safe'
<1>1. Typed /\ Owning /\ Asked /\ NoOverrun
  BY DEF Safe
<1>2. /\ Goto(t, "clear") /\ pc[t] = "idle?" /\ enabled' = TRUE /\ txFifo' = <<>> /\ rxFifo' = <<>>
      /\ UNCHANGED <<owner, retries, rval, msgs, fed, writing, got, rx_outstanding, cmd_err, msg_err, wait, mask, latched, wire>>
  BY DEF XferEnable, dwi2c, progress
<1>3. /\ owner = t /\ owner # NoTask /\ pc' \in [Tasks -> Places] /\ pc'[t] = "clear"
      /\ \A u \in Tasks : u # t => pc'[u] = "out"
  <2>1. "clear" \in Places
    BY DEF Places, Live
  <2>. QED BY <1>1, <1>2, <2>1, TaskMoves
<1>4. Typed'
  <2>1. txFifo' \in Seq(Command) /\ rxFifo' \in Seq(Nat) /\ enabled' \in BOOLEAN
    BY <1>2, EmptySeq
  <2>. QED BY <1>1, <1>2, <1>3, <2>1 DEF Typed
<1>5. Owning'
  <2>1. Row' = Row /\ ReadsIn(Row)' = ReadsIn(Row) /\ Len(Row)' = Len(Row)
    BY <1>2 DEF Row, ReadsIn
  <2>. QED BY <1>1, <1>2, <1>3, <2>1 DEF Owning, Live
<1>6. Asked' /\ NoOverrun'
  BY <1>1, <1>2, NothingQueued DEF Typed
<1>. QED BY <1>4, <1>5, <1>6 DEF Safe

LEMMA PrepareSafe ==
  ASSUME WellFormed, Safe, NEW t \in Tasks, XferClear(t) \/ XferUnmask(t)
  PROVE  Safe'
<1>1. Typed /\ Owning /\ Asked /\ NoOverrun
  BY DEF Safe
<1>2. PICK where \in {"unmask", "wait"} :
        /\ Goto(t, where) /\ pc[t] \in Live /\ latched' \in {latched, {}} /\ mask' \in {mask, DEFAULT_MASK}
        /\ UNCHANGED <<owner, retries, rval, msgs, fed, writing, got, rx_outstanding, cmd_err, msg_err, wait, enabled,
                       txFifo, rxFifo, wire>>
  BY DEF XferClear, XferUnmask, dwi2c, progress, fifos, Live
<1>3. /\ owner = t /\ owner # NoTask /\ pc' \in [Tasks -> Places] /\ pc'[t] = where
      /\ \A u \in Tasks : u # t => pc'[u] = "out"
  <2>1. where \in Places /\ pc[t] # "out"
    BY <1>2 DEF Places, Live
  <2>. QED BY <1>1, <1>2, <2>1, TaskMoves
<1>4. Typed'
  <2>1. latched' \subseteq {"TX_ABRT", "STOP_DET"} /\ mask' \in Masks
    BY <1>1, <1>2 DEF Typed, Masks
  <2>. QED BY <1>1, <1>2, <1>3, <2>1 DEF Typed
<1>5. Owning'
  <2>1. Row' = Row /\ ReadsIn(Row)' = ReadsIn(Row) /\ Len(Row)' = Len(Row)
    BY <1>2 DEF Row, ReadsIn
  <2>2. where \in Live
    BY DEF Live
  <2>. QED BY <1>1, <1>2, <1>3, <2>1, <2>2 DEF Owning
<1>6. Asked' /\ NoOverrun'
  BY <1>1, <1>2, NothingMoved
<1>. QED BY <1>4, <1>5, <1>6 DEF Safe

(* The steps that turn the controller off.                                 *)
LEMMA EndSafe ==
  ASSUME WellFormed, Safe, NEW t \in Tasks, XferCompleted(t) \/ XferHwInit(t)
  PROVE  Safe'
<1>1. Typed /\ Owning /\ Asked /\ NoOverrun
  BY DEF Safe
<1>2. PICK where \in {"xfer", "unlock"}, result \in {"EIO", "num", "ETIMEDOUT", "EINVAL"} :
        /\ Goto(t, where) /\ pc[t] \in Live /\ rval' = [rval EXCEPT ![t] = result]
        /\ enabled' = FALSE /\ txFifo' = <<>> /\ rxFifo' = <<>>
        /\ wait' \in {wait, wait - 1} /\ (wait' = wait - 1 => wait' = wait \/ wait > 0)
        /\ latched' \in {latched, latched \cup {"STOP_DET"}}
        /\ UNCHANGED <<owner, retries, msgs, fed, writing, got, rx_outstanding, cmd_err, msg_err, mask, wire>>
  <2>1. CASE XferCompleted(t)
    <3>1. /\ Goto(t, IF Result = "num" THEN "unlock" ELSE "xfer") /\ pc[t] \in Live
          /\ rval' = [rval EXCEPT ![t] = Result]
          /\ enabled' = FALSE /\ txFifo' = <<>> /\ rxFifo' = <<>>
          /\ wait' = wait - 1 /\ wait > 0 /\ latched' \in {latched, latched \cup {"STOP_DET"}}
          /\ UNCHANGED <<owner, retries, msgs, fed, writing, got, rx_outstanding, cmd_err, msg_err, mask, wire>>
      BY <2>1 DEF XferCompleted, Disable, progress, Live
    <3>2. Result \in {"EIO", "num", "EINVAL"}
      BY DEF Result
    <3>3. CASE Result = "num"
      BY <3>1, <3>2, <3>3
    <3>4. CASE Result # "num"
      BY <3>1, <3>2, <3>4
    <3>. QED BY <3>3, <3>4
  <2>2. CASE XferHwInit(t)
    <3>1. /\ Goto(t, "xfer") /\ pc[t] \in Live /\ rval' = [rval EXCEPT ![t] = "ETIMEDOUT"]
          /\ enabled' = FALSE /\ txFifo' = <<>> /\ rxFifo' = <<>>
          /\ wait' = wait /\ latched' \in {latched, latched \cup {"STOP_DET"}}
          /\ UNCHANGED <<owner, retries, msgs, fed, writing, got, rx_outstanding, cmd_err, msg_err, mask, wire>>
      BY <2>2 DEF XferHwInit, Disable, dwi2c, progress, Live
    <3>. QED BY <3>1
  <2>. QED BY <2>1, <2>2
<1>3. /\ owner = t /\ owner # NoTask /\ pc' \in [Tasks -> Places] /\ pc'[t] = where
      /\ \A u \in Tasks : u # t => pc'[u] = "out"
  <2>1. where \in Places /\ pc[t] # "out"
    BY <1>2 DEF Places, Live
  <2>. QED BY <1>1, <1>2, <2>1, TaskMoves
<1>4. Typed'
  <2>1. latched' \subseteq {"TX_ABRT", "STOP_DET"} /\ txFifo' \in Seq(Command) /\ rxFifo' \in Seq(Nat)
        /\ enabled' \in BOOLEAN
    BY <1>1, <1>2, EmptySeq DEF Typed
  <2>2. wait' \in Nat /\ rval' \in [Tasks -> Results]
    BY <1>1, <1>2 DEF Typed, Results
  <2>. QED BY <1>1, <1>2, <1>3, <2>1, <2>2 DEF Typed
<1>5. Owning'
  <2>1. where \notin Live \cup {"idle?"} /\ where # "out"
    BY DEF Live
  <2>. QED BY <1>1, <1>2, <1>3, <2>1 DEF Owning
<1>6. Asked' /\ NoOverrun'
  BY <1>1, <1>2, NothingQueued DEF Typed
<1>. QED BY <1>4, <1>5, <1>6 DEF Safe

LEMMA UnlockSafe ==
  ASSUME WellFormed, Safe, NEW t \in Tasks, Unlock(t)
  PROVE  Safe'
<1>1. Typed /\ Owning /\ Asked /\ NoOverrun
  BY DEF Safe
<1>2. /\ Goto(t, "out") /\ pc[t] \in {"unlock", "xfer"} /\ owner' = NoTask
      /\ UNCHANGED <<retries, rval, msgs, fed, writing, got, rx_outstanding, cmd_err, msg_err, wait, enabled, mask, latched,
                     txFifo, rxFifo, wire>>
  BY DEF Unlock, dwi2c, progress, registers, fifos
<1>3. /\ owner = t /\ owner # NoTask /\ pc' \in [Tasks -> Places] /\ pc'[t] = "out"
      /\ \A u \in Tasks : u # t => pc'[u] = "out"
  <2>1. "out" \in Places /\ pc[t] # "out"
    BY <1>2 DEF Places
  <2>. QED BY <1>1, <1>2, <2>1, TaskMoves
<1>4. Typed'
  BY <1>1, <1>2, <1>3 DEF Typed
<1>5. Owning'
  BY <1>1, <1>2, <1>3 DEF Owning, Live
<1>6. Asked' /\ NoOverrun'
  BY <1>1, <1>2, NothingMoved
<1>. QED BY <1>4, <1>5, <1>6 DEF Safe
(* The steps of the controller.                                            *)
LEMMA MoveSafe ==
  ASSUME WellFormed, Safe, MoveByte
  PROVE  Safe'
<1>1. Typed /\ Owning /\ Asked /\ NoOverrun
  BY DEF Safe
<1>2. /\ enabled /\ txFifo # <<>> /\ wire' = Append(wire, Head(txFifo)) /\ txFifo' = Tail(txFifo)
      /\ rxFifo' = IF Head(txFifo).read THEN Append(rxFifo, ByteRead) ELSE rxFifo
      /\ latched' = IF Head(txFifo).stop THEN {"STOP_DET"} ELSE {}
      /\ UNCHANGED <<owner, pc, retries, rval, msgs, fed, writing, got, rx_outstanding, cmd_err, msg_err, wait, enabled, mask>>
  BY DEF MoveByte, taskVars, dwi2c, progress
<1>3. /\ Head(txFifo) \in Command /\ Tail(txFifo) \in Seq(Command) /\ Len(Tail(txFifo)) = Len(txFifo) - 1
      /\ ReadsIn(txFifo) = ReadsIn(Tail(txFifo)) + IF Head(txFifo).read THEN 1 ELSE 0
  BY <1>1, <1>2, ReadsTail DEF Typed
<1>4. ByteRead \in Nat
  <2>1. ByteRead = ReadsIn(wire) + 1
    BY DEF ByteRead, ReadsIn
  <2>2. ReadsIn(wire) \in Nat
    BY <1>1, ReadsBound DEF Typed
  <2>. QED BY <2>1, <2>2
<1>5. rxFifo' \in Seq(Nat) /\ Len(rxFifo') = Len(rxFifo) + IF Head(txFifo).read THEN 1 ELSE 0
  <2>1. rxFifo \in Seq(Nat)
    BY <1>1 DEF Typed
  <2>. QED BY <1>2, <1>4, <2>1
<1>6. Typed'
  <2>1. wire' \in Seq(Command)
    <3>1. wire \in Seq(Command)
      BY <1>1 DEF Typed
    <3>. QED BY <1>2, <1>3, <3>1, ReadsAppend
  <2>2. latched' \subseteq {"TX_ABRT", "STOP_DET"}
    BY <1>2
  <2>3. txFifo' \in Seq(Command)
    BY <1>2, <1>3
  <2>. QED BY <1>1, <1>2, <1>5, <2>1, <2>2, <2>3 DEF Typed
<1>7. Owning'
  <2>1. Row' = Row /\ ReadsIn(Row)' = ReadsIn(Row) /\ Len(Row)' = Len(Row)
    BY <1>2 DEF Row, ReadsIn
  <2>. QED BY <1>1, <1>2, <2>1 DEF Owning
<1>8. Asked' /\ NoOverrun'
  <2>1. Len(rxFifo') + ReadsIn(txFifo') = Len(rxFifo) + ReadsIn(txFifo) /\ Len(txFifo') <= Len(txFifo)
    <3>1. ReadsIn(Tail(txFifo)) \in Nat /\ Len(rxFifo) \in Nat /\ Len(txFifo) \in Nat
      <4>1. ReadsIn(Tail(txFifo)) \in Nat
        BY <1>3, ReadsBound
      <4>. QED BY <1>1, <4>1 DEF Typed
    <3>2. txFifo' = Tail(txFifo)
      BY <1>2
    <3>. QED BY <1>3, <1>5, <3>1, <3>2
  <2>2. Len(rxFifo) + ReadsIn(txFifo) <= rx_outstanding /\ Len(rxFifo) + ReadsIn(txFifo) <= RxDepth
        /\ Len(txFifo) <= TxDepth
    BY <1>1 DEF Asked, NoOverrun, ReadsIn
  <2>3. Len(txFifo') \in Nat /\ Len(txFifo) \in Nat
    BY <1>1, <1>2, <1>3 DEF Typed
  <2>4. rx_outstanding' = rx_outstanding /\ rx_outstanding \in Nat
    BY <1>1, <1>2 DEF Typed
  <2>5. Len(rxFifo') + ReadsIn(txFifo') <= rx_outstanding' /\ Len(rxFifo') + ReadsIn(txFifo') <= RxDepth
        /\ Len(txFifo') <= TxDepth
    BY <2>1, <2>2, <2>3, <2>4, Depths
  <2>6. rx_outstanding' >= Len(rxFifo') + ReadsIn(txFifo')
    <3>1. Len(rxFifo') \in Nat /\ ReadsIn(txFifo') \in Nat
      <4>1. txFifo' \in Seq(Command)
        BY <1>2, <1>3
      <4>2. ReadsIn(txFifo') \in Nat
        BY <4>1, ReadsBound
      <4>. QED BY <1>5, <4>2
    <3>. QED BY <2>4, <2>5, <3>1
  <2>. QED BY <2>5, <2>6 DEF Asked, NoOverrun, ReadsIn
<1>. QED BY <1>6, <1>7, <1>8 DEF Safe

LEMMA AbortSafe ==
  ASSUME WellFormed, Safe, Abort \/ AbortStop \/ InterruptOff
  PROVE  Safe'
<1>1. Typed /\ Owning /\ Asked /\ NoOverrun
  BY DEF Safe
<1>2. /\ latched' \in {{"TX_ABRT"}, {"STOP_DET"}, latched \ Visible}
      /\ (txFifo' = <<>> /\ rxFifo' = <<>>) \/ (txFifo' = txFifo /\ rxFifo' = rxFifo)
      /\ UNCHANGED <<owner, pc, retries, rval, msgs, fed, writing, got, rx_outstanding, cmd_err, msg_err, wait, enabled, mask, wire>>
  BY DEF Abort, AbortStop, InterruptOff, taskVars, dwi2c, progress, fifos
<1>3. Typed'
  <2>1. txFifo' \in Seq(Command) /\ rxFifo' \in Seq(Nat)
    BY <1>1, <1>2, EmptySeq DEF Typed
  <2>2. latched' \subseteq {"TX_ABRT", "STOP_DET"}
    BY <1>1, <1>2 DEF Typed
  <2>. QED BY <1>1, <1>2, <2>1, <2>2 DEF Typed
<1>4. Owning'
  <2>1. Row' = Row /\ ReadsIn(Row)' = ReadsIn(Row) /\ Len(Row)' = Len(Row)
    BY <1>2 DEF Row, ReadsIn
  <2>. QED BY <1>1, <1>2, <2>1 DEF Owning
<1>5. Asked' /\ NoOverrun'
  <2>1. rx_outstanding' \in Nat /\ rx_outstanding' = rx_outstanding
    BY <1>1, <1>2 DEF Typed
  <2>. QED BY <1>1, <1>2, <2>1, NothingQueued, NothingMoved
<1>. QED BY <1>3, <1>4, <1>5 DEF Safe

(* What dwi2c_xfer_msg() and dwi2c_read() need is there when the handler   *)
(* runs with the controller on.                                            *)
LEMMA Serving ==
  ASSUME WellFormed, Safe, enabled
  PROVE  /\ msgs \in Transfers /\ Row \in Seq(Command) /\ fed \in 0 .. Len(Row) /\ txFifo \in Seq(Command)
         /\ got \in Seq(Nat) /\ rxFifo \in Seq(Nat) /\ Len(got) <= ReadsIn(Row) /\ rx_outstanding \in Nat
         /\ Asked /\ NoOverrun /\ msg_err \in BOOLEAN
<1>1. Typed /\ Owning /\ Asked /\ NoOverrun
  BY DEF Safe
<1>2. owner # NoTask /\ pc[owner] \in Live
  BY <1>1 DEF Owning
<1>3. msgs \in Transfers /\ fed <= Len(Row) /\ Len(got) <= ReadsIn(Row)
  BY <1>1, <1>2 DEF Owning
<1>4. Row \in Seq(Command) /\ Len(Row) \in Nat
  BY <1>3, RowTyped
<1>. QED BY <1>1, <1>3, <1>4 DEF Typed

LEMMA InterruptSafe ==
  ASSUME WellFormed, Safe, InterruptOn
  PROVE  Safe'
<1>1. Typed /\ Owning /\ Asked /\ NoOverrun
  BY DEF Safe
<1>2. /\ enabled /\ latched' = latched \ Visible
      /\ IF "TX_ABRT" \in Visible THEN Aborted ELSE Served(Visible)
      /\ wait' \in {wait, wait + 1}
      /\ UNCHANGED <<owner, pc, retries, rval, msgs, enabled, wire>>
  BY DEF InterruptOn, taskVars
<1>3. latched' \subseteq {"TX_ABRT", "STOP_DET"} /\ wait' \in Nat
  <2>1. latched \subseteq {"TX_ABRT", "STOP_DET"} /\ wait \in Nat
    BY <1>1 DEF Typed
  <2>2. latched' = latched \ Visible /\ (wait' = wait \/ wait' = wait + 1)
    BY <1>2
  <2>3. wait' \in Nat
    BY <2>1, <2>2
  <2>4. latched' \subseteq latched
    BY <2>2
  <2>. QED BY <2>1, <2>3, <2>4
<1>4. Row' = Row /\ ReadsIn(Row)' = ReadsIn(Row) /\ Len(Row)' = Len(Row)
  BY <1>2 DEF Row, ReadsIn
<1>5. CASE "TX_ABRT" \in Visible
  <2>1. /\ cmd_err' = TRUE /\ writing' = FALSE /\ mask' = {}
        /\ UNCHANGED <<fed, got, rx_outstanding, msg_err, txFifo, rxFifo>>
    BY <1>2, <1>5 DEF Aborted, fifos
  <2>2. Typed'
    BY <1>1, <1>2, <1>3, <2>1 DEF Typed, Masks
  <2>3. Owning'
    BY <1>1, <1>2, <1>4, <2>1 DEF Owning
  <2>4. Asked' /\ NoOverrun'
    BY <1>1, <2>1, NothingMoved
  <2>. QED BY <2>2, <2>3, <2>4 DEF Safe
<1>6. CASE "TX_ABRT" \notin Visible
  <2>0. /\ Row \in Seq(Command) /\ fed \in 0 .. Len(Row) /\ txFifo \in Seq(Command)
        /\ got \in Seq(Nat) /\ rxFifo \in Seq(Nat) /\ Len(got) <= ReadsIn(Row) /\ rx_outstanding \in Nat
        /\ msg_err \in BOOLEAN
    BY <1>2, Serving
  <2>1. PICK n \in 0 .. Len(rxFifo), f \in 0 .. Len(Row) - fed :
           /\ got' \in Seq(Nat) /\ Len(got') <= ReadsIn(Row)
           /\ rxFifo' \in Seq(Nat) /\ Len(rxFifo') = Len(rxFifo) - n
           /\ fed' = fed + f /\ writing' = (IF "TX_EMPTY" \in Visible THEN f # Len(Row) - fed ELSE writing)
           /\ txFifo' \in Seq(Command) /\ Len(txFifo') <= TxDepth
           /\ Len(rxFifo') + ReadsIn(txFifo') <= RxDepth
           /\ rx_outstanding' \in Nat
           /\ rx_outstanding' = rx_outstanding - n + ReadsIn(txFifo') - ReadsIn(txFifo)
           /\ mask' \in Masks \cup {mask} /\ Refusing
           /\ cmd_err' = cmd_err
    <3>. HIDE DEF Safe
    <3>1. \E stat : stat = Visible /\ Served(stat)
      BY <1>2, <1>6
    <3>. QED BY <1>1, <2>0, <3>1, ServedStep
  <2>2. writing' \in BOOLEAN /\ msg_err' \in BOOLEAN
    BY <1>1, <2>1 DEF Typed, Refusing
  <2>3. Typed'
    <3>1. mask' \in Masks
      BY <1>1, <2>1 DEF Typed
    <3>2. fed' \in Nat
      BY <2>0, <2>1
    <3>. QED BY <1>1, <1>2, <1>3, <2>1, <2>2, <3>1, <3>2 DEF Typed
  <2>4. Owning'
    <3>1. fed' <= Len(Row)
      BY <2>0, <2>1
    <3>. QED BY <1>1, <1>2, <1>4, <2>1, <3>1 DEF Owning
  <2>5. Asked'
    <3>1. ReadsIn(txFifo) \in Nat /\ ReadsIn(txFifo') \in Nat /\ Len(rxFifo) \in Nat
      BY <2>0, <2>1, ReadsBound
    <3>2. rx_outstanding >= Len(rxFifo) + ReadsIn(txFifo)
      BY <1>1 DEF Asked
    <3>3. Len(rxFifo') = Len(rxFifo) - n /\ rx_outstanding' = rx_outstanding - n + ReadsIn(txFifo') - ReadsIn(txFifo)
          /\ n \in 0 .. Len(rxFifo)
      BY <2>1
    <3>4. rx_outstanding' >= Len(rxFifo') + ReadsIn(txFifo')
      <4>1. Len(rxFifo') + ReadsIn(txFifo') = Len(rxFifo) - n + ReadsIn(txFifo')
        BY <3>3
      <4>2. n \in Nat /\ rx_outstanding \in Nat
        BY <2>0, <3>3
      <4>3. rx_outstanding' = rx_outstanding - n + ReadsIn(txFifo') - ReadsIn(txFifo)
        BY <3>3
      <4>. QED BY <3>1, <3>2, <4>1, <4>2, <4>3
    <3>. QED BY <3>4 DEF Asked, ReadsIn
  <2>6. NoOverrun'
    BY <2>1 DEF NoOverrun, ReadsIn
  <2>. QED BY <2>3, <2>4, <2>5, <2>6 DEF Safe
<1>. QED BY <1>5, <1>6

LEMMA InitSafe == Init => Safe
<1> SUFFICES ASSUME Init PROVE Safe
  OBVIOUS
<1>1. /\ owner = NoTask /\ pc = [t \in Tasks |-> "out"] /\ retries = 0 /\ rval = [t \in Tasks |-> "none"]
      /\ fed = 0 /\ writing = FALSE /\ got = <<>> /\ rx_outstanding = 0 /\ cmd_err = FALSE /\ msg_err = FALSE
      /\ wait = 0 /\ enabled = FALSE /\ mask = {} /\ latched = {}
      /\ txFifo = <<>> /\ rxFifo = <<>> /\ wire = <<>>
  BY DEF Init, I2CInit
<1>2. <<>> \in Seq(Command) /\ <<>> \in Seq(Nat) /\ ReadsIn(<<>>) = 0 /\ Len(<<>>) = 0
  BY EmptySeq, ReadsEmpty
<1>3. Typed
  <2>1. pc \in [Tasks -> Places] /\ rval \in [Tasks -> Results] /\ mask \in Masks
    BY <1>1 DEF Places, Masks, Results
  <2>2. retries \in 0 .. Retries
    BY <1>1, Depths
  <2>. QED BY <1>1, <1>2, <2>1, <2>2 DEF Typed
<1>4. Owning
  BY <1>1 DEF Owning
<1>5. Asked
  <2>1. ReadsIn(txFifo) = 0 /\ Len(rxFifo) = 0
    BY <1>1, <1>2
  <2>. QED BY <1>1, <2>1 DEF Asked
<1>6. NoOverrun
  <2>1. ReadsIn(txFifo) = 0 /\ Len(rxFifo) = 0 /\ Len(txFifo) = 0
    BY <1>1, <1>2
  <2>. QED BY <2>1, Depths DEF NoOverrun, ReadsIn
<1>. QED BY <1>3, <1>4, <1>5, <1>6 DEF Safe

LEMMA StepSafe ==
  ASSUME WellFormed, Safe, [Next]_vars
  PROVE  Safe'
<1>1. CASE \E t \in Tasks : Call(t)
  BY <1>1, CallSafe DEF Call
<1>2. CASE \E t \in Tasks : Step(t)
  BY <1>2, ResetSafe, BusySafe, EnableSafe, PrepareSafe, EndSafe, UnlockSafe DEF Step, TransferStep
<1>3. CASE Controller
  BY <1>3, MoveSafe, AbortSafe DEF Controller
<1>4. CASE Handler
  BY <1>4, AbortSafe, InterruptSafe DEF Handler, dwi2c_interrupt
<1>5. CASE UNCHANGED vars
  <2>1. UNCHANGED <<owner, pc, retries, rval, msgs, fed, writing, got, rx_outstanding, cmd_err, msg_err, wait, enabled, mask,
                    latched, txFifo, rxFifo, wire>>
    BY <1>5 DEF vars, i2cVars, taskVars, dwi2c, progress, registers, fifos
  <2>. QED BY <2>1 DEF Safe, Typed, Owning, Asked, NoOverrun, ReadsIn, Row
<1>. QED BY <1>1, <1>2, <1>3, <1>4, <1>5 DEF Next

(* One task at a time has the bus, the controller is on exactly while it   *)
(* waits for the transfer, and no more bytes are outstanding than are      *)
(* counted: i2c_transfer(), dwi2c_xfer() and dwi2c_interrupt() in every    *)
(* interleaving, the handler as late and the bus as fast as they like.     *)
THEOREM I2CInvariance == WellFormed => (Spec => []Safe)
<1> SUFFICES ASSUME WellFormed PROVE Spec => []Safe
  OBVIOUS
<1>1. Safe /\ [Next]_vars => Safe'
  BY StepSafe
<1>. QED BY <1>1, InitSafe, PTL DEF Spec

(* dwi2c_xfer_msg() never puts a command into a full queue, and never asks *)
(* for a byte there will be no room for, whatever the handler finds.       *)
THEOREM QueuesNeverOverflow == WellFormed => (Spec => []NoOverrun)
<1> SUFFICES ASSUME WellFormed PROVE Spec => []NoOverrun
  OBVIOUS
<1>1. Safe => NoOverrun
  BY DEF Safe
<1>. QED BY <1>1, I2CInvariance, PTL
-----------------------------------------------------------------------------
(* With a prompt handler and a slow bus, what the slave has seen, what is  *)
(* queued and what is still to be fed are the row of commands in order.  A *)
(* restart is lost when the first call that feeds a message after another  *)
(* one has been stopped by a full queue; what is in reach of the first     *)
(* call of a transfer keeps it.                                            *)
RestartsInReach ==
  \A m \in Transfers : \A k \in 1 .. Len(Commands(m)) :
    Commands(m)[k].restart => k <= TxDepth /\ \A j \in 1 .. k - 1 : ~Commands(m)[j].read

Alike(c, d) == c.read = d.read /\ c.stop = d.stop /\ (RestartsInReach => c = d)

InStep ==
  /\ fed = Len(wire) + Len(txFifo)
  /\ \A k \in 1 .. Len(wire) : Alike(wire[k], Row[k])
  /\ \A k \in 1 .. Len(txFifo) : Alike(txFifo[k], Row[Len(wire) + k])
  /\ Len(got) + Len(rxFifo) = ReadsIn(wire)
  /\ rx_outstanding = Len(rxFifo) + ReadsIn(txFifo)
  /\ \A k \in 1 .. Len(got) : got[k] = k
  /\ \A k \in 1 .. Len(rxFifo) : rxFifo[k] = Len(got) + k
  /\ RestartsInReach => (fed = 0 /\ ~writing) \/ \A k \in fed + 1 .. Len(Row) : ~Row[k].restart

Over == Len(wire) = Len(Row) /\ ~Refused(msgs)

Fresh ==
  /\ fed = 0 /\ ~writing /\ got = <<>> /\ rx_outstanding = 0 /\ ~cmd_err /\ ~msg_err /\ wait = 0
  /\ wire = <<>>

(* The handler may have come to a message it refuses before the task waits. *)
Refusal == msg_err => Refused(msgs)

Begun == ~cmd_err /\ (wait > 0 => msg_err) /\ Refusal /\ wire = <<>> /\ InStep

Running ==
  /\ cmd_err => mask = {}
  /\ Refusal
  /\ cmd_err \/ "TX_ABRT" \in latched => txFifo = <<>>
  /\ "TX_ABRT" \in latched /\ ~cmd_err /\ wait > 0 => msg_err
  /\ "TX_ABRT" \notin latched /\ ~cmd_err =>
       /\ InStep
       /\ "STOP_DET" \in latched => Over
       /\ wait > 0 => msg_err \/ (Over /\ rxFifo = <<>>)

Tried ==
  owner # NoTask =>
    /\ pc[owner] = "idle?" => Fresh
    /\ pc[owner] = "clear" => Begun /\ latched \cap mask = {}
    /\ pc[owner] = "unmask" => Begun /\ latched = {}
    /\ pc[owner] \in {"wait", "reset"} => Running
    /\ pc[owner] = "unlock" => InStep /\ Over /\ rxFifo = <<>>

(* What a task has been told of its last try.                              *)
Told ==
  owner # NoTask =>
    /\ pc[owner] = "unlock" <=> rval[owner] = "num"
    /\ pc[owner] = "xfer" /\ retries < Retries => rval[owner] # "none"
    /\ pc[owner] = "idle?" => retries < Retries

IInv == Safe /\ Tried /\ Told

LEMMA AlikeStays == \A c, d : Alike(c, d)' <=> Alike(c', d')
BY DEF Alike, RestartsInReach

(* The row that is fed, command by command.                                *)
LEMMA NewlyAlike ==
  ASSUME Row \in Seq(Command), fed \in 0 .. Len(Row), NEW f \in 0 .. Len(Row) - fed, NEW j \in 1 .. f,
         RestartsInReach => (fed = 0 /\ ~writing) \/ \A k \in fed + 1 .. Len(Row) : ~Row[k].restart
  PROVE  Alike(Newly(f)[j], Row[fed + j])
<1>1. Len(Row) \in Nat /\ fed + j \in 1 .. Len(Row)
  OBVIOUS
<1>2. PICK u \in Command : u = Row[fed + j]
  BY <1>1
<1>3. Newly(f)[j] = [u EXCEPT !.restart = @ /\ (j > 1 \/ ~writing)]
  BY <1>2 DEF Newly
<1> DEFINE b == u.restart /\ (j > 1 \/ ~writing)
<1>4. b \in BOOLEAN
  BY Zenon
<1>5. RestartsInReach => b = u.restart
  <2> SUFFICES ASSUME RestartsInReach PROVE b = u.restart
    OBVIOUS
  <2>1. CASE fed = 0 /\ ~writing
    <3>1. u.restart \in BOOLEAN
      BY DEF Command
    <3>. QED BY <2>1, <3>1
  <2>2. CASE \A k \in fed + 1 .. Len(Row) : ~Row[k].restart
    <3>1. fed + j \in fed + 1 .. Len(Row)
      BY <1>1
    <3>2. ~u.restart /\ u.restart \in BOOLEAN
      BY <1>2, <2>2, <3>1 DEF Command
    <3>. QED BY <3>2
  <2>. QED BY <2>1, <2>2
<1>6. Newly(f)[j] = [u EXCEPT !.restart = b]
  BY <1>3
<1>. HIDE DEF b
<1>7. [u EXCEPT !.restart = b].read = u.read /\ [u EXCEPT !.restart = b].stop = u.stop
  BY <1>4 DEF Command
<1>8. RestartsInReach => [u EXCEPT !.restart = b] = u
  <2> SUFFICES ASSUME RestartsInReach PROVE [u EXCEPT !.restart = b] = u
    OBVIOUS
  <2>1. b = u.restart
    BY <1>5
  <2>. QED BY <2>1 DEF Command
<1>. QED BY <1>2, <1>6, <1>7, <1>8 DEF Alike

(* A restart that the first call can reach is fed by it.                   *)
LEMMA RestartFed ==
  ASSUME Row \in Seq(Command), fed = 0, txFifo = <<>>, NEW f \in 0 .. Len(Row), RestartsInReach, msgs \in Transfers,
         \A k \in 0 .. Len(Row) : (\A j \in 1 .. k : Room(j, 0, 0)) => k <= f
  PROVE  \A k \in f + 1 .. Len(Row) : ~Row[k].restart
<1>1. Len(Row) \in Nat
  OBVIOUS
<1>2. SUFFICES ASSUME NEW k \in f + 1 .. Len(Row), Row[k].restart PROVE FALSE
  OBVIOUS
<1>3. k \in 1 .. Len(Row) /\ k \in 0 .. Len(Row) /\ ~(k <= f) /\ k \in Nat
  BY <1>1
<1>4. k <= TxDepth /\ \A j \in 1 .. k - 1 : ~Row[j].read
  BY <1>2, <1>3 DEF RestartsInReach, Row
<1>5. \A j \in 1 .. Len(Row) : Unfed[j] = Row[j]
  <2>1. fed \in 0 .. Len(Row)
    BY <1>1
  <2>2. \A j \in 1 .. Len(Row) - fed : Unfed[j] = Row[fed + j]
    BY <2>1, UnfedRow
  <2>3. Len(Row) - fed = Len(Row)
    BY <1>1
  <2>. QED BY <2>2, <2>3
<1>6. ASSUME NEW j \in 1 .. k PROVE Room(j, 0, 0)
  <2>1. ReadsBefore(j) = {}
    <3>1. \A i \in 1 .. j - 1 : i \in 1 .. k - 1 /\ i \in 1 .. Len(Row)
      BY <1>1, <1>3
    <3>. QED BY <1>4, <1>5, <3>1 DEF ReadsBefore
  <2>2. Cardinality({}) = 0
    BY FS_EmptySet
  <2>3. {i \in ReadsBefore(j) : Unfed[i].msg = Unfed[j].msg} = {}
    BY <2>1
  <2>4. Len(txFifo) = 0 /\ j - 1 < TxDepth
    BY <1>3, <1>4, Depths
  <2>5. RxDepth - 0 - 0 > 0 /\ RxDepth - 0 - 0 - (0 + 0) > 0 /\ Len(txFifo) + j - 1 < TxDepth
    BY <1>3, <2>4, Depths
  <2>. QED BY <2>1, <2>2, <2>3, <2>5 DEF Room
<1>. QED BY <1>3, <1>6

LEMMA InStepServed ==
  ASSUME WellFormed, Safe, enabled, InStep, NEW stat, Served(stat), UNCHANGED <<msgs, wire>>
  PROVE  /\ InStep' /\ cmd_err' = cmd_err /\ Refusing
         /\ Len(rxFifo') <= Len(rxFifo) /\ rxFifo' \in Seq(Nat) /\ got' \in Seq(Nat)
         /\ "RX_FULL" \in stat => rxFifo' = <<>> \/ Len(got') = ReadsIn(Row)
<1>1. /\ msgs \in Transfers /\ Row \in Seq(Command) /\ fed \in 0 .. Len(Row) /\ txFifo \in Seq(Command)
      /\ got \in Seq(Nat) /\ rxFifo \in Seq(Nat) /\ Len(got) <= ReadsIn(Row) /\ rx_outstanding \in Nat
      /\ Asked /\ NoOverrun /\ msg_err \in BOOLEAN
  BY Serving
<1>2. PICK n \in 0 .. Len(rxFifo), f \in 0 .. Len(Row) - fed :
           /\ got' \in Seq(Nat) /\ Len(got') = Len(got) + n
           /\ \A k \in 1 .. Len(got') : got'[k] = IF k <= Len(got) THEN got[k] ELSE rxFifo[k - Len(got)]
           /\ rxFifo' \in Seq(Nat) /\ Len(rxFifo') = Len(rxFifo) - n
           /\ \A k \in 1 .. Len(rxFifo') : rxFifo'[k] = rxFifo[n + k]
           /\ "RX_FULL" \in stat => n = Len(rxFifo) \/ Len(got') = ReadsIn(Row)
           /\ fed' = fed + f /\ writing' = (IF "TX_EMPTY" \in stat THEN f # Len(Row) - fed ELSE writing)
           /\ Newly(f) \in Seq(Command) /\ Len(Newly(f)) = f /\ txFifo' = txFifo \o Newly(f)
           /\ txFifo' \in Seq(Command) /\ Len(txFifo') = Len(txFifo) + f
           /\ rx_outstanding' = rx_outstanding - n + ReadsIn(txFifo') - ReadsIn(txFifo)
           /\ Refusing
           /\ "TX_EMPTY" \in stat =>
                \A k \in 0 .. Len(Row) - fed :
                  (\A j \in 1 .. k : Room(j, Len(rxFifo) - n, rx_outstanding - n)) => k <= f
           /\ "TX_EMPTY" \notin stat => f = 0
           /\ cmd_err' = cmd_err
  BY <1>1, ServedStep
<1>3. /\ Len(wire) \in Nat /\ wire \in Seq(Command) /\ Len(txFifo) \in Nat /\ Len(got) \in Nat /\ Len(rxFifo) \in Nat
      /\ ReadsIn(wire) \in Nat /\ ReadsIn(txFifo) \in Nat /\ ReadsIn(txFifo') \in Nat /\ Len(Row) \in Nat
  <2>1. wire \in Seq(Command)
    BY DEF Safe, Typed
  <2>2. ReadsIn(wire) \in Nat
    BY <2>1, ReadsBound
  <2>3. ReadsIn(txFifo) \in Nat
    BY <1>1, ReadsBound
  <2>4. ReadsIn(txFifo') \in Nat
    BY <1>2, ReadsBound
  <2>. QED BY <1>1, <2>1, <2>2, <2>3, <2>4
<1>4. /\ fed = Len(wire) + Len(txFifo)
      /\ \A k \in 1 .. Len(wire) : Alike(wire[k], Row[k])
      /\ \A k \in 1 .. Len(txFifo) : Alike(txFifo[k], Row[Len(wire) + k])
      /\ Len(got) + Len(rxFifo) = ReadsIn(wire)
      /\ rx_outstanding = Len(rxFifo) + ReadsIn(txFifo)
      /\ \A k \in 1 .. Len(got) : got[k] = k
      /\ \A k \in 1 .. Len(rxFifo) : rxFifo[k] = Len(got) + k
      /\ RestartsInReach => (fed = 0 /\ ~writing) \/ \A k \in fed + 1 .. Len(Row) : ~Row[k].restart
  BY DEF InStep
<1>5. fed' = Len(wire) + Len(txFifo')
  BY <1>2, <1>3, <1>4
<1>6. ASSUME NEW k \in 1 .. Len(txFifo') PROVE Alike(txFifo'[k], Row[Len(wire) + k])
  <2>1. k \in 1 .. Len(txFifo) + f
    BY <1>2
  <2>2. txFifo'[k] = IF k <= Len(txFifo) THEN txFifo[k] ELSE Newly(f)[k - Len(txFifo)]
    <3> DEFINE q == Newly(f)
    <3>1. q \in Seq(Command) /\ Len(q) = f /\ txFifo \in Seq(Command) /\ txFifo' = txFifo \o q
      BY <1>1, <1>2
    <3>. HIDE DEF q
    <3>2. k \in 1 .. Len(txFifo) + Len(q)
      BY <2>1, <3>1
    <3>3. (txFifo \o q)[k] = IF k <= Len(txFifo) THEN txFifo[k] ELSE q[k - Len(txFifo)]
      BY <3>1, <3>2, ConcatProperties
    <3>. QED BY <3>1, <3>3 DEF q
  <2>3. CASE k <= Len(txFifo)
    <3>1. k \in 1 .. Len(txFifo)
      BY <1>3, <2>1, <2>3
    <3>. QED BY <1>4, <2>2, <2>3, <3>1
  <2>4. CASE ~(k <= Len(txFifo))
    <3>1. f \in Nat
      BY <1>1, <1>3
    <3>2. k - Len(txFifo) \in 1 .. f /\ fed + (k - Len(txFifo)) = Len(wire) + k
      BY <1>3, <1>4, <2>1, <2>4, <3>1
    <3>3. Alike(Newly(f)[k - Len(txFifo)], Row[fed + (k - Len(txFifo))])
      BY <1>1, <1>4, <3>2, NewlyAlike
    <3>. QED BY <2>2, <2>4, <3>2, <3>3
  <2>. QED BY <2>3, <2>4
<1>7. Len(got') + Len(rxFifo') = ReadsIn(wire)
  <2>1. Len(got') = Len(got) + n /\ Len(rxFifo') = Len(rxFifo) - n /\ n \in 0 .. Len(rxFifo)
    BY <1>2
  <2>. QED BY <1>3, <1>4, <2>1
<1>8. rx_outstanding' = Len(rxFifo') + ReadsIn(txFifo')
  <2>1. rx_outstanding' = rx_outstanding - n + ReadsIn(txFifo') - ReadsIn(txFifo)
        /\ Len(rxFifo') = Len(rxFifo) - n /\ n \in 0 .. Len(rxFifo)
    BY <1>2
  <2>2. rx_outstanding = Len(rxFifo) + ReadsIn(txFifo)
    BY <1>4
  <2>3. ReadsIn(txFifo) \in Nat /\ ReadsIn(txFifo') \in Nat /\ Len(rxFifo) \in Nat
    BY <1>3
  <2>. QED BY <2>1, <2>2, <2>3
<1>9. ASSUME NEW k \in 1 .. Len(got') PROVE got'[k] = k
  <2>1. got'[k] = IF k <= Len(got) THEN got[k] ELSE rxFifo[k - Len(got)]
    BY <1>2
  <2>2. Len(got') = Len(got) + n /\ n \in 0 .. Len(rxFifo)
    BY <1>2
  <2>3. CASE k <= Len(got)
    BY <1>3, <1>4, <2>1, <2>2, <2>3
  <2>4. CASE ~(k <= Len(got))
    <3>1. k - Len(got) \in 1 .. Len(rxFifo) /\ Len(got) + (k - Len(got)) = k
      BY <1>3, <2>2, <2>4
    <3>. QED BY <1>4, <2>1, <2>4, <3>1
  <2>. QED BY <2>3, <2>4
<1>10. ASSUME NEW k \in 1 .. Len(rxFifo') PROVE rxFifo'[k] = Len(got') + k
  <2>1. rxFifo'[k] = rxFifo[n + k]
    BY <1>2
  <2>2. Len(rxFifo') = Len(rxFifo) - n /\ n \in 0 .. Len(rxFifo) /\ Len(got') = Len(got) + n
    BY <1>2
  <2>3. n + k \in 1 .. Len(rxFifo) /\ Len(got) + (n + k) = Len(got') + k
    BY <1>3, <2>2
  <2>. QED BY <1>4, <2>1, <2>3
<1>11. RestartsInReach => (fed' = 0 /\ ~writing') \/ \A k \in fed' + 1 .. Len(Row) : ~Row[k].restart
  <2> SUFFICES ASSUME RestartsInReach
               PROVE  (fed' = 0 /\ ~writing') \/ \A k \in fed' + 1 .. Len(Row) : ~Row[k].restart
    OBVIOUS
  <2>0. f \in Nat /\ fed' = fed + f /\ fed \in Nat
    BY <1>1, <1>2, <1>3
  <2>1. CASE \A k \in fed + 1 .. Len(Row) : ~Row[k].restart
    <3>1. \A k \in fed' + 1 .. Len(Row) : k \in fed + 1 .. Len(Row)
      BY <1>3, <2>0
    <3>. QED BY <2>1, <3>1
  <2>2. CASE fed = 0 /\ ~writing /\ "TX_EMPTY" \notin stat
    <3>1. f = 0 /\ writing' = writing
      BY <1>2, <2>2
    <3>. QED BY <2>0, <2>2, <3>1
  <2>3. CASE fed = 0 /\ "TX_EMPTY" \in stat
    <3>1. Len(wire) = 0 /\ Len(txFifo) = 0
      BY <1>3, <1>4, <2>3
    <3>2. wire = <<>> /\ txFifo = <<>>
      BY <1>1, <1>3, <3>1, EmptySeq
    <3>3. ReadsIn(wire) = 0 /\ ReadsIn(txFifo) = 0
      BY <3>2, ReadsEmpty
    <3>4. Len(rxFifo) - n = 0 /\ rx_outstanding - n = 0
      <4>1. n \in 0 .. Len(rxFifo) /\ Len(rxFifo) = 0 /\ rx_outstanding = 0
        <5>1. Len(got) + Len(rxFifo) = 0 /\ rx_outstanding = Len(rxFifo) + 0
          BY <1>4, <3>3
        <5>2. Len(rxFifo) = 0
          BY <1>3, <5>1
        <5>. QED BY <1>2, <5>1, <5>2
      <4>2. n \in 0 .. 0
        BY <4>1
      <4>3. n = 0
        BY <4>2
      <4>. QED BY <4>1, <4>3
    <3>5. \A k \in 0 .. Len(Row) - fed :
            (\A j \in 1 .. k : Room(j, Len(rxFifo) - n, rx_outstanding - n)) => k <= f
      BY <1>2, <2>3
    <3>6. Len(Row) - fed = Len(Row)
      BY <1>3, <2>3
    <3>7. \A k \in 0 .. Len(Row) : (\A j \in 1 .. k : Room(j, 0, 0)) => k <= f
      BY <3>4, <3>5, <3>6
    <3>8. f \in 0 .. Len(Row)
      BY <1>2, <3>6
    <3>9. \A k \in f + 1 .. Len(Row) : ~Row[k].restart
      BY <1>1, <2>3, <3>2, <3>7, <3>8, RestartFed
    <3>10. fed' = f
      BY <2>0, <2>3
    <3>. QED BY <3>9, <3>10
  <2>. QED BY <1>4, <2>1, <2>2, <2>3
<1>12. InStep'
  <2>1. Row' = Row /\ wire' = wire
    BY DEF Row
  <2>2. ReadsIn(wire)' = ReadsIn(wire) /\ ReadsIn(txFifo)' = ReadsIn(txFifo')
    BY <2>1 DEF ReadsIn
  <2>3. \A k \in 1 .. Len(wire') : Alike(wire'[k], Row'[k])
    BY <1>4, <2>1
  <2>4. \A k \in 1 .. Len(txFifo') : Alike(txFifo'[k], Row'[Len(wire') + k])
    BY <1>6, <2>1
  <2>5. RestartsInReach => (fed' = 0 /\ ~writing') \/ \A k \in fed' + 1 .. Len(Row') : ~Row'[k].restart
    BY <1>11, <2>1
  <2>. QED BY <1>5, <1>7, <1>8, <1>9, <1>10, <2>1, <2>2, <2>3, <2>4, <2>5 DEF InStep
<1>13. Len(rxFifo') <= Len(rxFifo) /\ (n = Len(rxFifo) => rxFifo' = <<>>)
  <2>1. Len(rxFifo') = Len(rxFifo) - n /\ n \in 0 .. Len(rxFifo) /\ rxFifo' \in Seq(Nat)
    BY <1>2
  <2>2. Len(rxFifo') = 0 => rxFifo' = <<>>
    BY <2>1
  <2>. QED BY <1>3, <2>1, <2>2
<1>. QED BY <1>2, <1>12, <1>13
LEMMA InStepStays ==
  ASSUME UNCHANGED <<msgs, fed, writing, got, rx_outstanding, txFifo, rxFifo, wire>>
  PROVE  (InStep => InStep') /\ (Over => Over')
<1>1. Row' = Row
  BY DEF Row
<1>2. Over => Over'
  BY <1>1 DEF Over, Refused
<1>3. InStep => InStep'
  <2>1. ReadsIn(wire)' = ReadsIn(wire) /\ ReadsIn(txFifo)' = ReadsIn(txFifo)
    BY DEF ReadsIn
  <2>2. (\A k \in 1 .. Len(wire) : Alike(wire[k], Row[k])) =>
          \A k \in 1 .. Len(wire') : Alike(wire'[k], Row'[k])
    BY <1>1
  <2>3. (\A k \in 1 .. Len(txFifo) : Alike(txFifo[k], Row[Len(wire) + k])) =>
          \A k \in 1 .. Len(txFifo') : Alike(txFifo'[k], Row'[Len(wire') + k])
    BY <1>1
  <2>. QED BY <1>1, <2>1, <2>2, <2>3 DEF InStep
<1>. QED BY <1>2, <1>3

(* A byte moves from what is queued to what has been seen.                 *)
LEMMA InStepMoved ==
  ASSUME WellFormed, Safe, MoveByte, InStep
  PROVE  /\ InStep' /\ Len(wire) < Len(Row) /\ Alike(Head(txFifo), Row[Len(wire) + 1])
         /\ wire' = Append(wire, Head(txFifo)) /\ (Head(txFifo).stop => Over')
<1>1. /\ enabled /\ txFifo # <<>> /\ wire' = Append(wire, Head(txFifo)) /\ txFifo' = Tail(txFifo)
      /\ rxFifo' = IF Head(txFifo).read THEN Append(rxFifo, ByteRead) ELSE rxFifo
      /\ UNCHANGED <<msgs, fed, writing, got, rx_outstanding>>
  BY DEF MoveByte, dwi2c, progress
<1>2. /\ msgs \in Transfers /\ Row \in Seq(Command) /\ fed \in 0 .. Len(Row) /\ txFifo \in Seq(Command)
      /\ got \in Seq(Nat) /\ rxFifo \in Seq(Nat) /\ wire \in Seq(Command) /\ rx_outstanding \in Nat
  BY <1>1, Serving DEF Safe, Typed
<1>3. /\ Len(wire) \in Nat /\ Len(txFifo) \in Nat /\ Len(got) \in Nat /\ Len(rxFifo) \in Nat /\ Len(Row) \in Nat
      /\ Len(txFifo) >= 1
  <2>1. Len(txFifo) >= 1
    BY <1>1, <1>2
  <2>. QED BY <1>2, <2>1
<1>4. /\ fed = Len(wire) + Len(txFifo)
      /\ \A k \in 1 .. Len(wire) : Alike(wire[k], Row[k])
      /\ \A k \in 1 .. Len(txFifo) : Alike(txFifo[k], Row[Len(wire) + k])
      /\ Len(got) + Len(rxFifo) = ReadsIn(wire)
      /\ rx_outstanding = Len(rxFifo) + ReadsIn(txFifo)
      /\ \A k \in 1 .. Len(got) : got[k] = k
      /\ \A k \in 1 .. Len(rxFifo) : rxFifo[k] = Len(got) + k
      /\ RestartsInReach => (fed = 0 /\ ~writing) \/ \A k \in fed + 1 .. Len(Row) : ~Row[k].restart
  BY DEF InStep
<1> DEFINE c == Head(txFifo)
<1>5. c = txFifo[1] /\ c \in Command
  BY <1>1, <1>2
<1>6. Len(wire) < Len(Row) /\ Alike(c, Row[Len(wire) + 1])
  <2>1. Len(wire) < Len(Row)
    BY <1>2, <1>3, <1>4
  <2>2. 1 \in 1 .. Len(txFifo)
    BY <1>3
  <2>. QED BY <1>4, <1>5, <2>1, <2>2
<1>7. /\ Len(txFifo') = Len(txFifo) - 1 /\ \A k \in 1 .. Len(txFifo) - 1 : txFifo'[k] = txFifo[k + 1]
      /\ ReadsIn(txFifo) = ReadsIn(txFifo') + (IF c.read THEN 1 ELSE 0) /\ ReadsIn(txFifo') \in Nat
  <2>1. /\ Tail(txFifo) \in Seq(Command) /\ Len(Tail(txFifo)) = Len(txFifo) - 1
        /\ ReadsIn(txFifo) = ReadsIn(Tail(txFifo)) + IF c.read THEN 1 ELSE 0
    BY <1>1, <1>2, ReadsTail
  <2>2. \A k \in 1 .. Len(txFifo) - 1 : Tail(txFifo)[k] = txFifo[k + 1]
    BY <1>1, <1>2
  <2>3. ReadsIn(Tail(txFifo)) \in Nat
    BY <2>1, ReadsBound
  <2>4. txFifo' = Tail(txFifo)
    BY <1>1
  <2>. QED BY <2>1, <2>2, <2>3, <2>4
<1>8. /\ Len(wire') = Len(wire) + 1
      /\ \A k \in 1 .. Len(wire) + 1 : wire'[k] = IF k = Len(wire) + 1 THEN c ELSE wire[k]
      /\ ReadsIn(wire') = ReadsIn(wire) + (IF c.read THEN 1 ELSE 0) /\ ReadsIn(wire) \in Nat
  <2>1. ReadsIn(Append(wire, c)) = ReadsIn(wire) + IF c.read THEN 1 ELSE 0
    BY <1>2, <1>5, ReadsAppend
  <2>2. ReadsIn(wire) \in Nat
    BY <1>2, ReadsBound
  <2>3. wire' = Append(wire, c)
    BY <1>1
  <2>. HIDE DEF c
  <2>4. Len(wire') = Len(wire) + 1 /\ \A k \in 1 .. Len(wire) + 1 : wire'[k] = IF k = Len(wire) + 1 THEN c ELSE wire[k]
    BY <1>2, <2>3
  <2>. QED BY <2>1, <2>2, <2>3, <2>4
<1>9. /\ Len(rxFifo') = Len(rxFifo) + (IF c.read THEN 1 ELSE 0)
      /\ \A k \in 1 .. Len(rxFifo') : rxFifo'[k] = IF k = Len(rxFifo) + 1 THEN ReadsIn(wire) + 1 ELSE rxFifo[k]
  <2>1. ByteRead = ReadsIn(wire) + 1 /\ ByteRead \in Nat
    <3>1. ByteRead = ReadsIn(wire) + 1
      BY DEF ByteRead, ReadsIn
    <3>. QED BY <1>8, <3>1
  <2>2. CASE c.read
    <3>1. rxFifo' = Append(rxFifo, ByteRead)
      BY <1>1, <2>2
    <3>. HIDE DEF c
    <3>. QED BY <1>2, <1>3, <2>1, <2>2, <3>1
  <2>3. CASE ~c.read
    <3>1. rxFifo' = rxFifo
      BY <1>1, <2>3
    <3>. HIDE DEF c
    <3>. QED BY <1>3, <2>3, <3>1
  <2>. QED BY <2>2, <2>3
<1> DEFINE d == IF c.read THEN 1 ELSE 0
<1>10. d \in Nat
  OBVIOUS
<1>11. /\ Len(rxFifo') = Len(rxFifo) + d /\ ReadsIn(wire') = ReadsIn(wire) + d
       /\ ReadsIn(txFifo) = ReadsIn(txFifo') + d
  BY <1>7, <1>8, <1>9
<1> HIDE DEF c, d
<1>12. fed' = Len(wire') + Len(txFifo')
  BY <1>1, <1>3, <1>4, <1>7, <1>8
<1>13. Len(got') + Len(rxFifo') = ReadsIn(wire')
  <2>1. Len(got) \in Nat /\ Len(rxFifo) \in Nat /\ ReadsIn(wire) \in Nat /\ got' = got
    BY <1>1, <1>3, <1>8
  <2>2. Len(got) + Len(rxFifo) = ReadsIn(wire)
    BY <1>4
  <2>. QED BY <1>10, <1>11, <2>1, <2>2
<1>14. rx_outstanding' = Len(rxFifo') + ReadsIn(txFifo')
  <2>1. Len(rxFifo) \in Nat /\ ReadsIn(txFifo') \in Nat /\ rx_outstanding' = rx_outstanding
    BY <1>1, <1>3, <1>7
  <2>2. rx_outstanding = Len(rxFifo) + ReadsIn(txFifo)
    BY <1>4
  <2>. QED BY <1>10, <1>11, <2>1, <2>2
<1>15. \A k \in 1 .. Len(wire') : Alike(wire'[k], Row[k])
  <2> SUFFICES ASSUME NEW k \in 1 .. Len(wire') PROVE Alike(wire'[k], Row[k])
    OBVIOUS
  <2>1. k \in 1 .. Len(wire) + 1
    BY <1>8
  <2>2. CASE k = Len(wire) + 1
    BY <1>6, <1>8, <2>1, <2>2
  <2>3. CASE k # Len(wire) + 1
    <3>1. k \in 1 .. Len(wire)
      BY <1>3, <2>1, <2>3
    <3>. QED BY <1>4, <1>8, <2>1, <2>3, <3>1
  <2>. QED BY <2>2, <2>3
<1>16. \A k \in 1 .. Len(txFifo') : Alike(txFifo'[k], Row[Len(wire') + k])
  <2> SUFFICES ASSUME NEW k \in 1 .. Len(txFifo') PROVE Alike(txFifo'[k], Row[Len(wire') + k])
    OBVIOUS
  <2>1. k \in 1 .. Len(txFifo) - 1
    BY <1>7
  <2>2. k + 1 \in 1 .. Len(txFifo) /\ Len(wire) + (k + 1) = Len(wire') + k
    BY <1>3, <1>8, <2>1
  <2>. QED BY <1>4, <1>7, <2>1, <2>2
<1>17. \A k \in 1 .. Len(rxFifo') : rxFifo'[k] = Len(got') + k
  <2> SUFFICES ASSUME NEW k \in 1 .. Len(rxFifo') PROVE rxFifo'[k] = Len(got') + k
    OBVIOUS
  <2>1. d \in {0, 1} /\ got' = got
    BY <1>1 DEF d
  <2>2. CASE k = Len(rxFifo) + 1
    BY <1>3, <1>4, <1>8, <1>9, <2>1, <2>2
  <2>3. CASE k # Len(rxFifo) + 1
    <3>1. k \in 1 .. Len(rxFifo)
      BY <1>3, <1>11, <2>1, <2>3
    <3>. QED BY <1>4, <1>9, <2>1, <2>3, <3>1
  <2>. QED BY <2>2, <2>3
<1>18. Row' = Row
  BY <1>1 DEF Row
<1>19. InStep'
  <2>1. ReadsIn(wire)' = ReadsIn(wire') /\ ReadsIn(txFifo)' = ReadsIn(txFifo')
    BY DEF ReadsIn
  <2>2. got' = got /\ fed' = fed /\ writing' = writing
    BY <1>1
  <2>3. \A k \in 1 .. Len(got') : got'[k] = k
    BY <1>4, <2>2
  <2>4. RestartsInReach => (fed' = 0 /\ ~writing') \/ \A k \in fed' + 1 .. Len(Row') : ~Row'[k].restart
    BY <1>4, <1>18, <2>2
  <2>5. \A k \in 1 .. Len(wire') : Alike(wire'[k], Row'[k])
    BY <1>15, <1>18
  <2>6. \A k \in 1 .. Len(txFifo') : Alike(txFifo'[k], Row'[Len(wire') + k])
    BY <1>16, <1>18
  <2>. QED BY <1>12, <1>13, <1>14, <1>17, <2>1, <2>3, <2>4, <2>5, <2>6 DEF InStep
<1>20. c.stop => Over'
  <2>1. Len(wire) + 1 \in 1 .. Len(Row)
    BY <1>3, <1>6
  <2>2. Row[Len(wire) + 1].stop => Len(wire) + 1 = Len(Row) /\ ~Refused(msgs)
    BY <1>2, <2>1, CommandsWell DEF Row
  <2>3. c.stop = Row[Len(wire) + 1].stop
    BY <1>6 DEF Alike
  <2>4. Refused(msgs)' = Refused(msgs)
    BY <1>1 DEF Refused
  <2>. QED BY <1>8, <1>18, <2>2, <2>3, <2>4 DEF Over
<1>. QED BY <1>1, <1>6, <1>19, <1>20 DEF c
-----------------------------------------------------------------------------
(* The steps keep Tried and Told.  The handler runs before the task goes   *)
(* on, and no byte is over while the task prepares the controller.         *)
Timed == HandlerIsPrompt /\ BusIsSlow

LEMMA StageOf ==
  ASSUME IInv, NEW t \in Tasks, pc[t] # "out"
  PROVE  /\ owner = t /\ t # NoTask
         /\ pc[t] = "idle?" => Fresh
         /\ pc[t] = "clear" => Begun /\ latched \cap mask = {}
         /\ pc[t] = "unmask" => Begun /\ latched = {}
         /\ pc[t] \in {"wait", "reset"} => Running
         /\ pc[t] = "unlock" => InStep /\ Over /\ rxFifo = <<>>
         /\ pc[t] = "unlock" <=> rval[t] = "num"
         /\ pc[t] = "xfer" /\ retries < Retries => rval[t] # "none"
         /\ pc[t] = "idle?" => retries < Retries
<1>1. owner = t /\ t # NoTask
  BY Depths DEF IInv, Safe, Owning
<1>. QED BY <1>1 DEF IInv, Tried, Told

LEMMA CallTried ==
  ASSUME IInv, NEW t \in Tasks, NEW m \in Transfers, i2c_transfer(t, m)
  PROVE  Tried' /\ Told'
<1>1. owner' = t /\ pc'[t] = "xfer" /\ retries' = Retries /\ rval'[t] = "none"
  BY DEF IInv, Safe, Typed, i2c_transfer, Goto
<1>2. Retries \in Nat
  BY Depths
<1>. QED BY <1>1, <1>2 DEF Tried, Told

LEMMA ResetTried ==
  ASSUME IInv, NEW t \in Tasks, XferReset(t)
  PROVE  Tried' /\ Told'
<1>1. Safe /\ pc[t] = "xfer" /\ retries \in 0 .. Retries /\ retries > 0
  BY DEF IInv, Safe, Typed, XferReset
<1>2. owner = t /\ rval[t] # "num"
  BY <1>1, StageOf
<1>3. /\ owner' = owner /\ rval' = rval /\ pc'[t] = "idle?" /\ retries' = retries - 1
      /\ fed' = 0 /\ writing' = FALSE /\ got' = <<>> /\ rx_outstanding' = 0 /\ cmd_err' = FALSE
      /\ msg_err' = FALSE /\ wait' = 0 /\ wire' = <<>>
  BY <1>1 DEF Safe, Typed, XferReset, Goto
<1>4. Fresh'
  BY <1>3 DEF Fresh
<1>5. retries' < Retries
  BY <1>1, <1>3, Depths
<1>. QED BY <1>2, <1>3, <1>4, <1>5 DEF Tried, Told

(* A try that has failed, and the end of a call.                           *)
LEMMA FailTried ==
  ASSUME IInv, NEW t \in Tasks, BusBusy(t) \/ XferHwInit(t) \/ Unlock(t)
  PROVE  Tried' /\ Told'
<1>1. Safe /\ pc[t] # "out"
  BY DEF IInv, BusBusy, XferHwInit, Unlock
<1>2. owner = t /\ t # NoTask
  BY <1>1, StageOf
<1>3. owner' = NoTask \/ (owner' = t /\ pc'[t] = "xfer" /\ rval'[t] = "ETIMEDOUT")
  BY <1>1, <1>2 DEF Safe, Typed, BusBusy, XferHwInit, Unlock, Goto
<1>. QED BY <1>3 DEF Tried, Told

LEMMA EnableTried ==
  ASSUME Timed, WellFormed, IInv, NEW t \in Tasks, XferEnable(t)
  PROVE  Tried' /\ Told'
<1>1. Safe /\ pc[t] = "idle?" /\ Uninterrupted
  BY DEF IInv, XferEnable
<1>2. owner = t /\ t # NoTask /\ Fresh /\ rval[t] # "num"
  BY <1>1, StageOf
<1>3. /\ pc'[t] = "clear" /\ txFifo' = <<>> /\ rxFifo' = <<>>
      /\ UNCHANGED <<owner, retries, rval, msgs, fed, writing, got, rx_outstanding, cmd_err, msg_err, wait, mask, latched, wire>>
  BY <1>1 DEF Safe, Typed, XferEnable, Goto, dwi2c, progress
<1>4. latched' \cap mask' = {}
  BY <1>1, <1>3 DEF Timed, Uninterrupted, Visible, Raw
<1>5. InStep'
  <2>1. /\ fed' = 0 /\ ~writing' /\ got' = <<>> /\ rx_outstanding' = 0 /\ wire' = <<>>
    BY <1>2, <1>3 DEF Fresh
  <2>2. ReadsIn(<<>>) = 0 /\ Len(<<>>) = 0
    BY ReadsEmpty
  <2>3. ReadsIn(wire)' = 0 /\ ReadsIn(txFifo)' = 0
    BY <1>3, <2>1, <2>2 DEF ReadsIn
  <2>4. Len(wire') = 0 /\ Len(txFifo') = 0 /\ Len(got') = 0 /\ Len(rxFifo') = 0
    BY <1>3, <2>1
  <2>. QED BY <2>1, <2>3, <2>4 DEF InStep
<1>6. Begun'
  BY <1>2, <1>3, <1>5 DEF Begun, Fresh, Refusal
<1>. QED BY <1>2, <1>3, <1>4, <1>6 DEF Tried, Told

LEMMA PrepareTried ==
  ASSUME IInv, NEW t \in Tasks, XferClear(t) \/ XferUnmask(t)
  PROVE  Tried' /\ Told'
<1>1. Safe /\ pc[t] \in {"clear", "unmask"}
  BY DEF IInv, XferClear, XferUnmask
<1>2. owner = t /\ t # NoTask /\ Begun /\ rval[t] # "num" /\ (pc[t] = "unmask" => latched = {})
  BY <1>1, StageOf
<1>3. UNCHANGED <<owner, retries, rval, msgs, fed, writing, got, rx_outstanding, cmd_err, msg_err, wait, txFifo, rxFifo, wire>>
  BY DEF XferClear, XferUnmask, dwi2c, progress, fifos
<1>4. Begun'
  BY <1>2, <1>3, InStepStays DEF Begun, Refusal, Refused
<1>5. CASE XferClear(t)
  <2>1. pc'[t] = "unmask" /\ latched' = {}
    BY <1>1, <1>5 DEF Safe, Typed, XferClear, Goto
  <2>. QED BY <1>2, <1>3, <1>4, <2>1 DEF Tried, Told
<1>6. CASE XferUnmask(t)
  <2>1. pc'[t] = "wait" /\ latched' = {}
    BY <1>1, <1>2, <1>6 DEF Safe, Typed, XferUnmask, Goto
  <2>2. Running'
    BY <1>4, <2>1 DEF Running, Begun
  <2>. QED BY <1>2, <1>3, <2>1, <2>2 DEF Tried, Told
<1>. QED BY <1>5, <1>6

LEMMA TimeoutTried ==
  ASSUME IInv, NEW t \in Tasks, XferTimeout(t)
  PROVE  Tried' /\ Told'
<1>1. Safe /\ pc[t] = "wait"
  BY DEF IInv, XferTimeout
<1>2. owner = t /\ t # NoTask /\ Running /\ rval[t] # "num"
  BY <1>1, StageOf
<1>3. /\ pc'[t] = "reset"
      /\ UNCHANGED <<owner, retries, rval, msgs, fed, writing, got, rx_outstanding, cmd_err, msg_err, wait, mask, latched,
                     txFifo, rxFifo, wire>>
  BY <1>1 DEF Safe, Typed, XferTimeout, Goto, dwi2c, progress, registers, fifos
<1>4. Running'
  BY <1>2, <1>3, InStepStays DEF Running, Refusal, Refused
<1>. QED BY <1>2, <1>3, <1>4 DEF Tried, Told

(* A completion is that of this try, and of the whole of it.               *)
LEMMA Completed ==
  ASSUME WellFormed, IInv, NEW t \in Tasks, XferCompleted(t), ~cmd_err, ~msg_err
  PROVE  owner = t /\ InStep /\ Over /\ rxFifo = <<>> /\ txFifo = <<>>
<1>1. Safe /\ pc[t] = "wait" /\ wait > 0 /\ wait \in Nat
  BY DEF IInv, XferCompleted, Safe, Typed
<1>2. owner = t /\ t # NoTask /\ Running
  BY <1>1, StageOf
<1>3. InStep /\ Over /\ rxFifo = <<>>
  BY <1>1, <1>2 DEF Running
<1>4. enabled
  BY <1>1, <1>2 DEF Safe, Owning, Live
<1>5. fed \in 0 .. Len(Row) /\ txFifo \in Seq(Command) /\ Len(Row) \in Nat
  BY <1>1, <1>4, Serving
<1>6. fed = Len(wire) + Len(txFifo) /\ Len(wire) = Len(Row)
  BY <1>3 DEF InStep, Over
<1>7. Len(txFifo) = 0
  BY <1>5, <1>6
<1>8. txFifo = <<>>
  BY <1>5, <1>7
<1>. QED BY <1>2, <1>3, <1>8

LEMMA CompletedTried ==
  ASSUME WellFormed, IInv, NEW t \in Tasks, XferCompleted(t)
  PROVE  Tried' /\ Told'
<1>1. Safe /\ pc[t] = "wait"
  BY DEF IInv, XferCompleted
<1>2. owner = t /\ t # NoTask
  BY <1>1, StageOf
<1>3. CASE cmd_err \/ msg_err
  <2>1. Result \in {"EIO", "EINVAL"}
    BY <1>3 DEF Result
  <2>2. owner' = owner /\ pc'[t] = "xfer" /\ rval'[t] \in {"EIO", "EINVAL"}
    BY <1>1, <1>2, <2>1 DEF Safe, Typed, XferCompleted, Goto
  <2>. QED BY <1>2, <2>2 DEF Tried, Told
<1>4. CASE ~cmd_err /\ ~msg_err
  <2>1. owner' = owner /\ pc'[t] = "unlock" /\ rval'[t] = "num"
    BY <1>1, <1>2, <1>4 DEF Safe, Typed, XferCompleted, Goto, Result
  <2>2. InStep /\ Over /\ rxFifo = <<>> /\ txFifo = <<>>
    BY <1>4, Completed
  <2>3. UNCHANGED <<msgs, fed, writing, got, rx_outstanding, txFifo, rxFifo, wire>>
    BY <2>2 DEF XferCompleted, Disable, progress
  <2>4. InStep' /\ Over' /\ rxFifo' = <<>>
    BY <2>2, <2>3, InStepStays
  <2>. QED BY <1>2, <2>1, <2>4 DEF Tried, Told
<1>. QED BY <1>3, <1>4
(* While the controller is on: the bus moves when the task waits.          *)
LEMMA Moving ==
  ASSUME Timed, IInv, enabled, BusMayMove
  PROVE  owner \in Tasks /\ owner # NoTask /\ pc[owner] \in {"wait", "reset"} /\ Running
<1>1. owner # NoTask /\ pc[owner] \in Live /\ owner \in Tasks
  BY DEF IInv, Safe, Owning, Typed
<1>2. pc[owner] \in {"wait", "reset"}
  BY <1>1 DEF Live, BusMayMove, Timed
<1>. QED BY <1>1, <1>2 DEF IInv, Tried

LEMMA MoveRunning ==
  ASSUME Timed, WellFormed, IInv, MoveByte
  PROVE  InStep /\ (wait > 0 => msg_err) /\ Refusal /\ ~cmd_err
<1>1. enabled /\ BusMayMove /\ latched = {} /\ txFifo # <<>>
  BY DEF MoveByte
<1>2. Running
  BY <1>1, Moving
<1>3. ~cmd_err /\ InStep
  BY <1>1, <1>2 DEF Running
<1>4. Len(wire) < Len(Row) /\ Len(wire) \in Nat /\ Len(Row) \in Nat
  <2>1. Row \in Seq(Command) /\ wire \in Seq(Command)
    BY <1>1, Serving DEF IInv, Safe, Typed
  <2>2. Len(wire) < Len(Row)
    BY <1>3, InStepMoved DEF IInv
  <2>. QED BY <2>1, <2>2
<1>5. wait > 0 => msg_err
  BY <1>1, <1>2, <1>3, <1>4 DEF Running, Over
<1>. QED BY <1>2, <1>3, <1>5 DEF Running

LEMMA MoveTried ==
  ASSUME Timed, WellFormed, IInv, MoveByte
  PROVE  Tried' /\ Told'
<1>1. enabled /\ BusMayMove /\ latched = {} /\ latched' = IF Head(txFifo).stop THEN {"STOP_DET"} ELSE {}
  BY DEF MoveByte
<1>2. UNCHANGED <<owner, pc, retries, rval, cmd_err, msg_err, wait, mask>>
  BY DEF MoveByte, taskVars, dwi2c
<1>3. owner # NoTask /\ pc[owner] \in {"wait", "reset"} /\ Running
  BY <1>1, Moving
<1>4. InStep /\ (wait > 0 => msg_err) /\ ~cmd_err
  BY MoveRunning
<1>5. InStep' /\ (Head(txFifo).stop => Over')
  BY <1>4, InStepMoved DEF IInv
<1>6. Running'
  <2>1. "TX_ABRT" \notin latched' /\ ("STOP_DET" \in latched' => Over')
    BY <1>1, <1>5
  <2>2. cmd_err' = FALSE /\ (wait' > 0 => msg_err') /\ Refusal'
    <3>1. msgs' = msgs
      BY DEF MoveByte, dwi2c
    <3>. QED BY <1>2, <1>3, <1>4, <3>1 DEF Running, Refusal, Refused, IInv, Safe, Typed
  <2>. QED BY <1>5, <2>1, <2>2 DEF Running
<1>. QED BY <1>2, <1>3, <1>6 DEF Tried, Told, IInv

LEMMA AbortTried ==
  ASSUME Timed, WellFormed, IInv, Abort
  PROVE  Tried' /\ Told'
<1>1. enabled /\ BusMayMove /\ latched = {} /\ txFifo # <<>> /\ latched' = {"TX_ABRT"} /\ txFifo' = <<>> /\ rxFifo' = <<>>
  BY DEF Abort
<1>2. UNCHANGED <<owner, pc, retries, rval, cmd_err, msg_err, wait, mask>>
  BY DEF Abort, taskVars, dwi2c
<1>3. owner # NoTask /\ pc[owner] \in {"wait", "reset"} /\ Running
  BY <1>1, Moving
<1>4. ~cmd_err /\ InStep
  BY <1>1, <1>3 DEF Running
<1>5. ~Over
  <2>1. fed \in 0 .. Len(Row) /\ txFifo \in Seq(Command) /\ Row \in Seq(Command) /\ wire \in Seq(Command)
    BY <1>1, Serving DEF IInv, Safe, Typed
  <2>2. fed = Len(wire) + Len(txFifo)
    BY <1>4 DEF InStep
  <2>3. Len(txFifo) # 0
    BY <1>1, <2>1
  <2>4. Len(txFifo) \in Nat /\ Len(wire) \in Nat /\ Len(Row) \in Nat
    BY <2>1
  <2>. QED BY <2>1, <2>2, <2>3, <2>4 DEF Over
<1>6. (wait > 0 => msg_err) /\ Refusal'
  <2>1. msgs' = msgs
    BY DEF Abort, dwi2c
  <2>. QED BY <1>1, <1>2, <1>3, <1>4, <1>5, <2>1 DEF Running, Refusal, Refused
<1>7. Running'
  BY <1>1, <1>2, <1>3, <1>4, <1>6 DEF Running
<1>. QED BY <1>2, <1>3, <1>7 DEF Tried, Told, IInv

LEMMA StopTried ==
  ASSUME Timed, WellFormed, IInv, AbortStop
  PROVE  Tried' /\ Told'
<1>1. /\ cmd_err /\ latched = {} /\ owner # NoTask /\ pc[owner] \in {"wait", "xfer"} /\ latched' = {"STOP_DET"}
      /\ UNCHANGED <<owner, pc, retries, rval, msgs, cmd_err, msg_err, wait, mask, txFifo>>
  BY DEF AbortStop, taskVars, dwi2c, fifos
<1>2. pc[owner] = "wait" => Running'
  BY <1>1 DEF IInv, Tried, Running, Refusal, Refused
<1>. QED BY <1>1, <1>2 DEF Tried, Told, IInv

LEMMA OffTried ==
  ASSUME Timed, WellFormed, IInv, InterruptOff
  PROVE  Tried' /\ Told'
<1>1. /\ ~enabled
      /\ UNCHANGED <<owner, pc, retries, rval, msgs, fed, writing, got, rx_outstanding, cmd_err, msg_err, wait, mask,
                     txFifo, rxFifo, wire>>
  BY DEF InterruptOff, taskVars, dwi2c, progress, fifos
<1>2. owner # NoTask => pc[owner] \notin Live
  BY <1>1 DEF IInv, Safe, Owning
<1>3. (Fresh => Fresh') /\ (InStep => InStep') /\ (Over => Over')
  BY <1>1, InStepStays DEF Fresh
<1>. QED BY <1>1, <1>2, <1>3 DEF Tried, Told, IInv, Live
(* What the handler finds when it is called with the controller on.        *)
LEMMA Seen ==
  ASSUME Safe, Visible # {}
  PROVE  /\ mask # {} /\ {"TX_ABRT", "STOP_DET"} \subseteq mask
         /\ latched \subseteq Visible /\ latched \ Visible = {}
         /\ "TX_ABRT" \in Visible <=> "TX_ABRT" \in latched
         /\ "STOP_DET" \in Visible <=> "STOP_DET" \in latched
         /\ rxFifo # <<>> => "RX_FULL" \in Visible
<1>1. mask # {} /\ mask \in Masks /\ latched \subseteq {"TX_ABRT", "STOP_DET"}
  BY DEF Safe, Typed, Visible
<1>2. {"TX_ABRT", "STOP_DET", "RX_FULL"} \subseteq mask
  BY <1>1 DEF Masks, DEFAULT_MASK
<1>3. latched \subseteq Visible
  BY <1>1, <1>2 DEF Visible, Raw
<1>4. "TX_ABRT" \in Visible => "TX_ABRT" \in latched
  BY DEF Visible, Raw
<1>5. "STOP_DET" \in Visible => "STOP_DET" \in latched
  BY DEF Visible, Raw
<1>6. rxFifo # <<>> => "RX_FULL" \in Visible
  BY <1>2 DEF Visible, Raw
<1>. QED BY <1>1, <1>2, <1>3, <1>4, <1>5, <1>6

LEMMA SeenWhole ==
  ASSUME Row \in Seq(Command), wire \in Seq(Command), InStep, Over
  PROVE  ReadsIn(wire) = ReadsIn(Row)
<1>1. Len(wire) = Len(Row) /\ \A k \in 1 .. Len(wire) : wire[k].read <=> Row[k].read
  BY DEF InStep, Over, Alike
<1>. QED BY <1>1, ReadsSame

LEMMA ServedVisible ==
  ASSUME WellFormed, Safe, enabled, InStep, Served(Visible), Visible # {}, UNCHANGED <<msgs, wire>>
  PROVE  /\ InStep' /\ cmd_err' = cmd_err /\ Refusing /\ (Over => Over')
         /\ rxFifo = <<>> => rxFifo' = <<>>
         /\ Over => rxFifo' = <<>>
<1>1. /\ InStep' /\ cmd_err' = cmd_err /\ Refusing
      /\ Len(rxFifo') <= Len(rxFifo) /\ rxFifo' \in Seq(Nat) /\ got' \in Seq(Nat)
      /\ "RX_FULL" \in Visible => rxFifo' = <<>> \/ Len(got') = ReadsIn(Row)
  <2>1. PICK stat : stat = Visible /\ Served(stat)
    OBVIOUS
  <2>2. /\ InStep' /\ cmd_err' = cmd_err /\ Refusing
        /\ Len(rxFifo') <= Len(rxFifo) /\ rxFifo' \in Seq(Nat) /\ got' \in Seq(Nat)
        /\ "RX_FULL" \in stat => rxFifo' = <<>> \/ Len(got') = ReadsIn(Row)
    BY <2>1, InStepServed
  <2>. QED BY <2>1, <2>2
<1>3. Row' = Row /\ (Over => Over')
  BY DEF Row, Over, Refused
<1>4. Row \in Seq(Command) /\ rxFifo \in Seq(Nat) /\ wire \in Seq(Command)
  BY Serving DEF Safe, Typed
<1>5. rxFifo = <<>> => rxFifo' = <<>>
  <2> SUFFICES ASSUME rxFifo = <<>> PROVE rxFifo' = <<>>
    OBVIOUS
  <2>1. Len(rxFifo') <= 0 /\ rxFifo' \in Seq(Nat)
    BY <1>1
  <2>2. Len(rxFifo') = 0
    BY <2>1
  <2>. QED BY <2>1, <2>2
<1>6. ASSUME Over PROVE rxFifo' = <<>>
  <2>1. CASE rxFifo = <<>>
    BY <1>5, <2>1
  <2>2. CASE rxFifo # <<>> /\ Len(got') = ReadsIn(Row)
    <3>1. Len(got') + Len(rxFifo') = ReadsIn(wire)
      BY <1>1 DEF InStep, ReadsIn
    <3>2. ReadsIn(wire) = ReadsIn(Row)
      BY <1>4, <1>6, SeenWhole
    <3>3. Len(rxFifo') = 0
      BY <1>1, <2>2, <3>1, <3>2
    <3>. QED BY <1>1, <3>3
  <2>3. rxFifo # <<>> => "RX_FULL" \in Visible
    BY Seen
  <2>. QED BY <1>1, <2>1, <2>2, <2>3
<1>. QED BY <1>1, <1>3, <1>5, <1>6

LEMMA RefusalStays ==
  ASSUME Refusal, Refusing, msgs' = msgs
  PROVE  Refusal' /\ (msg_err => msg_err')
<1>1. Refused(msgs)' = Refused(msgs)
  BY DEF Refused
<1>2. Refusal'
  BY <1>1 DEF Refusal, Refusing
<1>. QED BY <1>2 DEF Refusing

LEMMA InterruptTried ==
  ASSUME Timed, WellFormed, IInv, InterruptOn
  PROVE  Tried' /\ Told'
<1>1. /\ Visible # {} /\ enabled /\ latched' = latched \ Visible
      /\ IF "TX_ABRT" \in Visible THEN Aborted ELSE Served(Visible)
      /\ wait' = IF Visible \cap {"TX_ABRT", "STOP_DET"} # {} \/ msg_err' THEN wait + 1 ELSE wait
      /\ UNCHANGED <<owner, pc, retries, rval, msgs, enabled, wire>>
  BY DEF InterruptOn, taskVars
<1>2. /\ Safe /\ owner # NoTask /\ pc[owner] \in Live /\ wait \in Nat
      /\ mask # {} /\ {"TX_ABRT", "STOP_DET"} \subseteq mask /\ latched' = {}
      /\ "TX_ABRT" \in Visible <=> "TX_ABRT" \in latched
      /\ "STOP_DET" \in Visible <=> "STOP_DET" \in latched
      /\ latched \subseteq {"TX_ABRT", "STOP_DET"}
  <2>1. Safe
    BY DEF IInv
  <2>2. owner # NoTask /\ pc[owner] \in Live /\ wait \in Nat /\ latched \subseteq {"TX_ABRT", "STOP_DET"}
    BY <1>1, <2>1 DEF Safe, Owning, Typed
  <2>. QED BY <1>1, <2>1, <2>2, Seen
<1>3. CASE pc[owner] \in {"clear", "unmask"}
  <2>1. Begun /\ latched \cap mask = {}
    BY <1>2, <1>3 DEF IInv, Tried
  <2>2. latched = {}
    BY <1>2, <2>1
  <2>3. "TX_ABRT" \notin Visible /\ Visible \cap {"TX_ABRT", "STOP_DET"} = {}
    BY <1>2, <2>2
  <2>4. Served(Visible) /\ (~msg_err' => wait' = wait)
    BY <1>1, <2>3
  <2>5. InStep' /\ cmd_err' = cmd_err /\ Refusing
    BY <1>1, <1>2, <2>1, <2>4, ServedVisible DEF Begun
  <2>6. Refusal' /\ (msg_err => msg_err')
    BY <1>1, <2>1, <2>5, RefusalStays DEF Begun
  <2>7. Begun'
    BY <1>1, <2>1, <2>4, <2>5, <2>6 DEF Begun
  <2>. QED BY <1>1, <1>2, <1>3, <2>7 DEF Tried, Told, IInv
<1>4. CASE pc[owner] \in {"wait", "reset"}
  <2>1. Running /\ ~cmd_err
    BY <1>2, <1>4 DEF IInv, Tried, Running
  <2>2. CASE "TX_ABRT" \in Visible
    <3>1. cmd_err' /\ mask' = {} /\ txFifo' = txFifo /\ msg_err' = msg_err
      BY <1>1, <2>2 DEF Aborted, fifos
    <3>2. txFifo = <<>>
      BY <1>2, <2>1, <2>2 DEF Running
    <3>3. Running'
      BY <1>1, <1>2, <2>1, <3>1, <3>2 DEF Running, Refusal, Refused
    <3>. QED BY <1>1, <1>4, <3>3 DEF Tried, Told, IInv
  <2>3. CASE "TX_ABRT" \notin Visible
    <3>1. Served(Visible) /\ InStep
      BY <1>1, <1>2, <2>1, <2>3 DEF Running
    <3>2. /\ InStep' /\ cmd_err' = cmd_err /\ Refusing /\ (Over => Over')
          /\ rxFifo = <<>> => rxFifo' = <<>>
          /\ Over => rxFifo' = <<>>
      BY <1>1, <1>2, <3>1, ServedVisible
    <3>0. Refusal' /\ (msg_err => msg_err')
      BY <1>1, <2>1, <3>2, RefusalStays DEF Running
    <3>3. wait' > 0 => msg_err' \/ Over
      <4>1. wait > 0 => msg_err' \/ Over
        BY <1>2, <2>1, <2>3, <3>0 DEF Running
      <4>2. "STOP_DET" \in Visible => Over
        BY <1>2, <2>1, <2>3 DEF Running
      <4>3. "STOP_DET" \notin Visible /\ ~msg_err' => wait' = wait
        BY <1>1, <2>3
      <4>. QED BY <4>1, <4>2, <4>3
    <3>4. Running'
      BY <1>2, <2>1, <3>0, <3>2, <3>3 DEF Running
    <3>. QED BY <1>1, <1>4, <3>4 DEF Tried, Told, IInv
  <2>. QED BY <2>2, <2>3
<1>. QED BY <1>2, <1>3, <1>4 DEF Live

LEMMA InitTried == Init => Tried /\ Told
BY DEF Init, I2CInit, Tried, Told

LEMMA StepTried ==
  ASSUME Timed, WellFormed, IInv, [Next]_vars
  PROVE  IInv'
<1>1. Safe'
  BY StepSafe DEF IInv
<1>2. CASE \E t \in Tasks : Call(t)
  <2>1. Tried' /\ Told'
    BY <1>2, CallTried DEF Call
  <2>. QED BY <1>1, <2>1 DEF IInv
<1>3. CASE \E t \in Tasks : Step(t)
  <2>1. Tried' /\ Told'
    BY <1>3, ResetTried, FailTried, EnableTried, PrepareTried, TimeoutTried, CompletedTried DEF Step, TransferStep
  <2>. QED BY <1>1, <2>1 DEF IInv
<1>4. CASE Controller
  <2>1. Tried' /\ Told'
    BY <1>4, MoveTried, AbortTried, StopTried DEF Controller
  <2>. QED BY <1>1, <2>1 DEF IInv
<1>5. CASE Handler
  <2>1. Tried' /\ Told'
    BY <1>5, OffTried, InterruptTried DEF Handler, dwi2c_interrupt
  <2>. QED BY <1>1, <2>1 DEF IInv
<1>6. CASE UNCHANGED vars
  <2>1. UNCHANGED <<owner, pc, retries, rval, msgs, fed, writing, got, rx_outstanding, cmd_err, msg_err, wait, mask,
                    latched, txFifo, rxFifo, wire>>
    BY <1>6 DEF vars, i2cVars, taskVars, dwi2c, progress, registers, fifos
  <2>2. (InStep => InStep') /\ (Over => Over')
    BY <2>1, InStepStays
  <2>3. Tried' /\ Told'
    BY <2>1, <2>2 DEF IInv, Tried, Told, Fresh, Begun, Running, Refusal, Refused
  <2>. QED BY <1>1, <2>3 DEF IInv
<1>. QED BY <1>2, <1>3, <1>4, <1>5, <1>6 DEF Next

(* A completion is always that of the running try, and the slave has seen  *)
(* the commands of the messages in order: the handler, the abort and the   *)
(* reset after a time-out of dwi2c.c, with retries and several tasks.      *)
THEOREM TriesInOrder == WellFormed /\ Timed => (Spec => []IInv)
<1> SUFFICES ASSUME WellFormed, Timed PROVE Spec => []IInv
  OBVIOUS
<1>1. Init => IInv
  BY InitSafe, InitTried DEF IInv
<1>2. IInv /\ [Next]_vars => IInv'
  BY StepTried
<1>. QED BY <1>1, <1>2, PTL DEF Spec

(* When i2c_transfer() succeeds, dwi2c_read() has put every byte that the  *)
(* slave sent into the buffers, in order.                                  *)
THEOREM SuccessReadsAll == WellFormed /\ Timed => (Spec => []ReadsExact)
<1> SUFFICES ASSUME WellFormed, Timed PROVE Spec => []ReadsExact
  OBVIOUS
<1>1. ASSUME IInv PROVE ReadsExact
  <2> SUFFICES ASSUME NEW t \in Tasks, pc[t] = "unlock"
               PROVE  Wanted = 0 /\ \A k \in DOMAIN got : got[k] = k
    BY DEF ReadsExact
  <2>1. owner = t /\ t # NoTask /\ InStep /\ Over /\ rxFifo = <<>>
    BY <1>1, StageOf
  <2>2. msgs \in Transfers /\ wire \in Seq(Command) /\ got \in Seq(Nat)
    BY <1>1, <2>1 DEF IInv, Safe, Owning, Typed
  <2>3. Row \in Seq(Command) /\ ReadsIn(Row) \in Nat
    BY <2>2, RowTyped
  <2>4. ReadsIn(wire) = ReadsIn(Row)
    BY <2>1, <2>2, <2>3, SeenWhole
  <2>5. Len(got) + Len(rxFifo) = ReadsIn(wire) /\ \A k \in 1 .. Len(got) : got[k] = k
    BY <2>1 DEF InStep
  <2>6. Wanted = ReadsIn(Row) - Len(got)
    BY DEF Wanted, ReadsIn, Row
  <2>7. Wanted = 0
    <3>1. Len(got) + 0 = ReadsIn(Row) /\ Len(got) \in Nat
      BY <2>1, <2>2, <2>4, <2>5
    <3>. QED BY <2>6, <3>1
  <2>. QED BY <2>2, <2>5, <2>7
<1>. QED BY <1>1, TriesInOrder, PTL
-----------------------------------------------------------------------------
(* I2CAbs.  The steps of the handler, of the error paths of the controller *)
(* and most of those of the task leave what it speaks of alone.            *)
BusVars == <<owner, msgs, wire, rval>>

LEMMA WholeRow ==
  ASSUME Row \in Seq(Command), wire \in Seq(Command), InStep, Over, RestartsInReach
  PROVE  wire = Commands(msgs)
<1>1. Len(wire) = Len(Row) /\ \A k \in 1 .. Len(wire) : wire[k] = Row[k]
  BY DEF InStep, Over, Alike
<1>2. wire = Row
  BY <1>1
<1>. QED BY <1>2 DEF Row

LEMMA BusQuiet ==
  ASSUME UNCHANGED BusVars
  PROVE  [Bus!BusNext]_(Bus!busVars)
BY DEF BusVars, Bus!busVars

LEMMA TaskImplements ==
  ASSUME WellFormed, RestartsInReach, IInv, NEW t \in Tasks, TransferStep(t)
  PROVE  [Bus!BusNext]_(Bus!busVars)
<1>1. Safe /\ pc[t] # "out"
  BY DEF IInv, TransferStep, XferReset, BusBusy, XferEnable, XferClear, XferUnmask, XferCompleted, XferTimeout,
         XferHwInit, Unlock
<1>2. owner = t /\ t # NoTask
  BY <1>1, StageOf
<1>3. CASE XferReset(t)
  <2>1. rval[t] # "num"
    BY <1>1, <1>3, StageOf DEF XferReset
  <2>2. Bus!Try
    BY <1>2, <1>3, <2>1 DEF XferReset, Bus!Try
  <2>. QED BY <2>2 DEF Bus!BusNext
<1>4. CASE BusBusy(t) \/ XferHwInit(t)
  <2>1. rval[t] # "num"
    BY <1>1, <1>4, StageOf DEF BusBusy, XferHwInit
  <2>2. rval' = [rval EXCEPT ![t] = "ETIMEDOUT"] /\ UNCHANGED <<owner, msgs, wire>>
    BY <1>4 DEF BusBusy, XferHwInit, dwi2c
  <2>3. Bus!Fail(t)
    BY <1>2, <2>1, <2>2 DEF Bus!Fail
  <2>. QED BY <2>3 DEF Bus!BusNext
<1>5. CASE XferEnable(t) \/ XferClear(t) \/ XferUnmask(t) \/ XferTimeout(t)
  <2>1. UNCHANGED BusVars
    BY <1>5 DEF XferEnable, XferClear, XferUnmask, XferTimeout, dwi2c, BusVars
  <2>. QED BY <2>1, BusQuiet
<1>6. CASE XferCompleted(t) /\ (cmd_err \/ msg_err)
  <2>1. rval[t] # "num"
    BY <1>1, <1>6, StageOf DEF XferCompleted
  <2>2. rval' = [rval EXCEPT ![t] = Result] /\ UNCHANGED <<owner, msgs, wire>>
    BY <1>6 DEF XferCompleted
  <2>3. Result = "EIO" \/ (Result = "EINVAL" /\ Refused(msgs))
    <3>1. Refusal
      BY <1>1, <1>6, StageOf DEF XferCompleted, Running
    <3>. QED BY <1>6, <3>1 DEF Result, Refusal
  <2>4. Bus!Fail(t)
    BY <1>2, <2>1, <2>2, <2>3 DEF Bus!Fail
  <2>. QED BY <2>4 DEF Bus!BusNext
<1>7. CASE XferCompleted(t) /\ ~cmd_err /\ ~msg_err
  <2>1. rval' = [rval EXCEPT ![t] = "num"] /\ UNCHANGED <<owner, msgs, wire>>
    BY <1>7 DEF XferCompleted, Result
  <2>2. InStep /\ Over
    BY <1>7, Completed
  <2>3. msgs \in Transfers /\ wire \in Seq(Command)
    BY <1>1, <1>2 DEF Safe, Owning, Typed
  <2>4. Row \in Seq(Command)
    BY <2>3, RowTyped
  <2>5. wire = Commands(msgs)
    BY <2>2, <2>3, <2>4, WholeRow
  <2>6. Bus!Succeed(t)
    BY <1>2, <2>1, <2>2, <2>5 DEF Bus!Succeed, Over
  <2>. QED BY <2>6 DEF Bus!BusNext
<1>8. CASE Unlock(t)
  <2>1. rval[t] # "none"
    <3>1. CASE pc[t] = "unlock"
      BY <1>1, <3>1, StageOf
    <3>2. CASE pc[t] = "xfer" /\ retries = 0
      <4>1. retries < Retries
        BY <3>2, Depths
      <4>. QED BY <1>1, <3>2, <4>1, StageOf
    <3>. QED BY <1>8, <3>1, <3>2 DEF Unlock
  <2>2. owner' = NoTask /\ UNCHANGED <<msgs, wire, rval>>
    BY <1>8 DEF Unlock, dwi2c
  <2>3. Bus!Release(t)
    BY <1>2, <2>1, <2>2 DEF Bus!Release
  <2>. QED BY <2>3 DEF Bus!BusNext
<1>. QED BY <1>3, <1>4, <1>5, <1>6, <1>7, <1>8 DEF TransferStep

LEMMA MoveImplements ==
  ASSUME Timed, WellFormed, RestartsInReach, IInv, MoveByte
  PROVE  [Bus!BusNext]_(Bus!busVars)
<1>1. InStep
  BY MoveRunning
<1>2. Len(wire) < Len(Row) /\ Head(txFifo) = Row[Len(wire) + 1] /\ wire' = Append(wire, Head(txFifo))
  BY <1>1, InStepMoved DEF IInv, Alike
<1>3. enabled
  BY DEF MoveByte
<1>4. owner # NoTask
  BY <1>3 DEF IInv, Safe, Owning
<1>5. UNCHANGED <<owner, msgs, rval>>
  BY DEF MoveByte, taskVars, dwi2c
<1>6. Bus!Move
  BY <1>2, <1>4, <1>5 DEF Bus!Move, Row
<1>. QED BY <1>6 DEF Bus!BusNext

LEMMA StepImplements ==
  ASSUME Timed, WellFormed, RestartsInReach, IInv, [Next]_vars
  PROVE  [Bus!BusNext]_(Bus!busVars)
<1>1. CASE \E t \in Tasks : Call(t)
  <2>1. PICK t \in Tasks : \E m \in Transfers : i2c_transfer(t, m)
    BY <1>1 DEF Call
  <2>2. Bus!Take(t)
    BY <2>1 DEF i2c_transfer, Bus!Take
  <2>. QED BY <2>2 DEF Bus!BusNext
<1>2. CASE \E t \in Tasks : Step(t)
  BY <1>2, TaskImplements DEF Step
<1>3. CASE Controller
  <2>1. Abort \/ AbortStop => UNCHANGED BusVars
    BY DEF Abort, AbortStop, taskVars, dwi2c, BusVars
  <2>. QED BY <1>3, <2>1, BusQuiet, MoveImplements DEF Controller
<1>4. CASE Handler
  <2>1. UNCHANGED BusVars
    BY <1>4 DEF Handler, dwi2c_interrupt, InterruptOff, InterruptOn, taskVars, dwi2c, BusVars
  <2>. QED BY <2>1, BusQuiet
<1>5. CASE UNCHANGED vars
  <2>1. UNCHANGED BusVars
    BY <1>5 DEF vars, i2cVars, taskVars, dwi2c, BusVars
  <2>. QED BY <2>1, BusQuiet
<1>. QED BY <1>1, <1>2, <1>3, <1>4, <1>5 DEF Next

(* i2c_transfer() over dwi2c.c is the bus of I2CAbs: one caller at a time, *)
(* its commands in order in every try, success only for a try that was     *)
(* seen to its end.  A restart must be in reach of the first call of       *)
(* dwi2c_xfer_msg(): the code may leave out one that is not.               *)
THEOREM BusImplemented == WellFormed /\ Timed /\ RestartsInReach => (Spec => ImplementsBus)
<1> SUFFICES ASSUME WellFormed, Timed, RestartsInReach PROVE Spec => ImplementsBus
  OBVIOUS
<1>1. Init => Bus!BusInit
  BY DEF Init, I2CInit, Bus!BusInit
<1>2. IInv /\ [Next]_vars => [Bus!BusNext]_(Bus!busVars)
  BY StepImplements
<1>. QED BY <1>1, <1>2, TriesInOrder, PTL DEF Spec, ImplementsBus, Bus!BusSpec
=============================================================================
