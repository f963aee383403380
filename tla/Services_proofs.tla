--------------------------- MODULE Services_proofs ---------------------------
(***************************************************************************)
(* Theorems on the timers and on the serial channel.                       *)
(*                                                                         *)
(* The timers, for any number of them, any size of the wheel and any range *)
(* of the clock.  A spoke is a row of timers, and so is the free list; the *)
(* services are argued in terms of rows that lose and gain a member.       *)
(***************************************************************************)
EXTENDS TmrSystem, SASystem, FiniteSetTheorems, SequenceTheorems, WellFoundedInduction,
        TLAPS

Ptr == Timers \cup {NULL}
Ticks == 0 .. TimeModulus - 1

(* The row q is what one finds along the links next.                       *)
Chain(q, next) ==
  /\ q \in Seq(Timers)
  /\ \A i, j \in 1 .. Len(q) : q[i] = q[j] => i = j
  /\ \A i \in 1 .. Len(q) : next[q[i]] = IF i = Len(q) THEN NULL ELSE q[i + 1]

HeadOf(q) == IF Len(q) = 0 THEN NULL ELSE q[1]
Members(q) == {q[i] : i \in 1 .. Len(q)}

(* Rows with one member less, or one more.                                 *)
Cut(q, k) == [i \in 1 .. Len(q) - 1 |-> IF i < k THEN q[i] ELSE q[i + 1]]
Push(p, q) == [i \in 1 .. Len(q) + 1 |-> IF i = 1 THEN p ELSE q[i - 1]]

-----------------------------------------------------------------------------

(* What the assumptions on the constants come to.                          *)
LEMMA Sizes ==
  /\ OSTmrTbl \in Seq(Timers) /\ 2 <= Len(OSTmrTbl) /\ Len(OSTmrTbl) <= 65500
  /\ \A i, j \in 1 .. Len(OSTmrTbl) : OSTmrTbl[i] = OSTmrTbl[j] => i = j
  /\ TimeModulus \in Nat /\ TimeModulus >= 1 /\ WheelSize \in Nat /\ WheelSize >= 1
  /\ NULL \notin Timers
  /\ Settings \subseteq [opt : Opts, dly : Ticks, period : Ticks]
<1>1. OSTmrTbl \in Seq(Timers) /\ DOMAIN OSTmrTbl = 1 .. Len(OSTmrTbl)
  BY TmrAssumption
<1>. QED BY <1>1, TmrAssumption DEF Ticks

(* There are at most as many timers as entries of the table.               *)
LEMMA TimersFinite == IsFiniteSet(Timers) /\ Cardinality(Timers) <= Len(OSTmrTbl)
<1> DEFINE n == Len(OSTmrTbl)
<1>1. n \in Nat /\ OSTmrTbl \in [1 .. n -> Timers] /\ DOMAIN OSTmrTbl = 1 .. n
  BY Sizes
<1>2. \A p \in Timers : \E i \in 1 .. n : OSTmrTbl[i] = p
  BY <1>1 DEF Timers
<1> HIDE DEF n
<1>3. OSTmrTbl \in Surjection(1 .. n, Timers)
  BY <1>1, <1>2 DEF Surjection
<1>4. ExistsSurjection(1 .. n, Timers)
  BY <1>3 DEF ExistsSurjection
<1>5. IsFiniteSet(Timers)
  BY <1>1, <1>4, FS_NatSurjection
<1>6. Cardinality(Timers) <= n
  BY <1>1, <1>4, FS_SurjCardinalityBound
<1>. QED BY <1>5, <1>6 DEF n

(* A row counts its members, and is no longer than the table.              *)
LEMMA ChainCounts ==
  ASSUME NEW q, NEW next, Chain(q, next)
  PROVE  Len(q) \in 0 .. Len(OSTmrTbl) /\ Cardinality(Members(q)) = Len(q)
<1> DEFINE n == Len(q)
<1>1. n \in Nat /\ q \in [1 .. n -> Timers] /\ \A i, j \in 1 .. n : q[i] = q[j] => i = j
  BY DEF Chain
<1> HIDE DEF n
<1>2. q \in Injection(1 .. n, Timers)
  BY <1>1 DEF Injection, IsInjective
<1>3. IsFiniteSet(1 .. n) /\ Cardinality(1 .. n) = n
  BY <1>1, FS_Interval
<1>4. n <= Cardinality(Timers)
  BY <1>2, <1>3, TimersFinite, FS_Injection
<1>5. n <= Len(OSTmrTbl)
  BY <1>1, <1>4, TimersFinite, Sizes, FS_CardinalityType
<1>6. q \in Bijection(1 .. n, Members(q))
  <2>1. q \in [1 .. n -> Members(q)] /\ \A p \in Members(q) : \E i \in 1 .. n : q[i] = p
    BY <1>1 DEF Members, n
  <2>. QED BY <1>1, <2>1 DEF Bijection, Injection, IsInjective, Surjection
<1>7. Cardinality(Members(q)) = n
  <2>1. ExistsBijection(1 .. n, Members(q))
    BY <1>6 DEF ExistsBijection
  <2>. QED BY <1>1, <2>1, FS_CountingElements
<1>. QED BY <1>1, <1>5, <1>7 DEF n

(* Induction: a set with 0 that is closed under n + 1 has all naturals.    *)
LEMMA SetInduction ==
  ASSUME NEW T, 0 \in T, \A n \in Nat : n \in T => n + 1 \in T
  PROVE  \A n \in Nat : n \in T
<1> DEFINE S == Nat \ T
<1> SUFFICES ASSUME S # {} PROVE FALSE
  OBVIOUS
<1>1. PICK x \in S : \A y \in S : ~(<<y, x>> \in OpToRel(<, Nat))
  <2>. HIDE DEF S
  <2>1. S \subseteq Nat
    BY DEF S
  <2>. QED BY <2>1, NatLessThanWellFounded, WFMin
<1>2. x \in Nat /\ x - 1 \in Nat /\ x - 1 < x /\ x - 1 + 1 = x
  OBVIOUS
<1>3. x - 1 \in T
  <2>1. <<x - 1, x>> \in OpToRel(<, Nat)
    BY <1>2 DEF OpToRel
  <2>. QED BY <1>1, <1>2, <2>1
<1>. QED BY <1>2, <1>3

(* ListFrom() is the last of the sets f[n] of timers that n links reach.   *)
Reached(f, p) ==
  [n \in 0 .. Len(OSTmrTbl) |->
     IF n = 0 THEN {p} \ {NULL}
     ELSE f[n - 1] \cup ({OSTmrNext[q] : q \in f[n - 1]} \ {NULL})]

(* ListFrom() is told by any function that satisfies its equation alone.   *)
LEMMA ListIsReached ==
  ASSUME NEW p, NEW g, g = Reached(g, p), \A f : f = Reached(f, p) => f = g
  PROVE  ListFrom(p) = g[Len(OSTmrTbl)]
<1> DEFINE h == CHOOSE f : f = Reached(f, p)
<1>1. h = g
  OBVIOUS
<1>2. ListFrom(p) = h[Len(OSTmrTbl)]
  BY DEF ListFrom, Reached
<1>. QED BY <1>1, <1>2

(* A list is the row it is the chain of.                                   *)
LEMMA ListOfChain ==
  ASSUME NEW c, Chain(c, OSTmrNext)
  PROVE  ListFrom(HeadOf(c)) = Members(c)
<1> DEFINE N    == Len(OSTmrTbl)
           m    == Len(c)
           G(n) == {c[i] : i \in {j \in 1 .. m : j <= n + 1}}
           g    == [n \in 0 .. N |-> G(n)]
           p    == HeadOf(c)
<1>1. /\ N \in Nat /\ m \in Nat /\ m <= N /\ NULL \notin Timers
      /\ \A i \in 1 .. m : c[i] \in Timers
      /\ \A i \in 1 .. m : OSTmrNext[c[i]] = IF i = m THEN NULL ELSE c[i + 1]
  BY ChainCounts, Sizes DEF Chain
<1>2. {p} \ {NULL} = G(0)
  <2>1. CASE m = 0
    BY <2>1 DEF HeadOf
  <2>2. CASE m # 0
    <3>1. p = c[1] /\ p # NULL /\ 1 \in 1 .. m
      BY <1>1, <2>2 DEF HeadOf
    <3>2. \A j \in 1 .. m : j <= 0 + 1 <=> j = 1
      BY <1>1
    <3>. QED BY <3>1, <3>2
  <2>. QED BY <2>1, <2>2
<1> HIDE DEF N, m, p
<1>3. ASSUME NEW n \in 1 .. N
      PROVE  G(n) = G(n - 1) \cup ({OSTmrNext[q] : q \in G(n - 1)} \ {NULL})
  <2>1. ASSUME NEW x \in G(n) PROVE x \in G(n - 1) \cup ({OSTmrNext[q] : q \in G(n - 1)} \ {NULL})
    <3>1. PICK i \in 1 .. m : x = c[i] /\ i <= n + 1
      OBVIOUS
    <3>2. CASE i <= n - 1 + 1
      BY <3>1, <3>2
    <3>3. CASE i = n + 1
      <4>1. n \in 1 .. m /\ n # m /\ n <= n - 1 + 1
        BY <1>1, <3>3
      <4>2. OSTmrNext[c[n]] = c[n + 1] /\ c[n + 1] # NULL
        BY <1>1, <3>3, <4>1
      <4>3. c[n] \in G(n - 1)
        BY <4>1
      <4>. QED BY <3>1, <3>3, <4>2, <4>3
    <3>. QED BY <1>1, <3>1, <3>2, <3>3
  <2>2. ASSUME NEW x \in G(n - 1) PROVE x \in G(n)
    <3>1. PICK i \in 1 .. m : x = c[i] /\ i <= n - 1 + 1
      OBVIOUS
    <3>2. i <= n + 1
      BY <1>1, <3>1
    <3>. QED BY <3>1, <3>2
  <2>3. ASSUME NEW q \in G(n - 1), OSTmrNext[q] # NULL PROVE OSTmrNext[q] \in G(n)
    <3>1. PICK i \in 1 .. m : q = c[i] /\ i <= n - 1 + 1
      OBVIOUS
    <3>2. i + 1 \in 1 .. m /\ OSTmrNext[q] = c[i + 1] /\ i + 1 <= n + 1
      BY <1>1, <2>3, <3>1
    <3>. QED BY <3>2
  <2>. HIDE DEF G
  <2>. QED BY <2>1, <2>2, <2>3
<1>4. g = Reached(g, p)
  <2>1. ASSUME NEW n \in 0 .. N
        PROVE  g[n] = IF n = 0 THEN {p} \ {NULL}
                      ELSE g[n - 1] \cup ({OSTmrNext[q] : q \in g[n - 1]} \ {NULL})
    <3>. HIDE DEF G
    <3>1. n # 0 => n \in 1 .. N /\ n - 1 \in 0 .. N
      BY <1>1
    <3>. QED BY <1>2, <1>3, <3>1
  <2>2. g = [n \in 0 .. N |-> g[n]]
    BY DEF g
  <2>. HIDE DEF g, G
  <2>. QED BY <2>1, <2>2 DEF Reached, N
<1>5. ASSUME NEW f, f = Reached(f, p) PROVE f = g
  <2> DEFINE T == {n \in Nat : n <= N => f[n] = g[n]}
  <2>0. /\ f = [n \in 0 .. N |-> f[n]]
        /\ \A n \in 0 .. N : f[n] = IF n = 0 THEN {p} \ {NULL}
                      ELSE f[n - 1] \cup ({OSTmrNext[q] : q \in f[n - 1]} \ {NULL})
    BY <1>5 DEF Reached, N
  <2>1. 0 \in T
    <3>. HIDE DEF G
    <3>1. 0 \in 0 .. N
      BY <1>1
    <3>2. f[0] = {p} \ {NULL} /\ g[0] = G(0)
      BY <2>0, <3>1
    <3>. QED BY <1>2, <3>2
  <2>2. ASSUME NEW n \in Nat, n \in T PROVE n + 1 \in T
    <3> SUFFICES ASSUME n + 1 <= N PROVE f[n + 1] = g[n + 1]
      OBVIOUS
    <3>1. n + 1 \in 0 .. N /\ n + 1 \in 1 .. N /\ n + 1 - 1 = n /\ n + 1 # 0 /\ n \in 0 .. N /\ n <= N
      BY <1>1
    <3>2. f[n + 1] = f[n] \cup ({OSTmrNext[q] : q \in f[n]} \ {NULL})
      <4> DEFINE k == n + 1
      <4>1. k \in 0 .. N /\ k # 0 /\ k - 1 = n
        BY <3>1
      <4>. HIDE DEF k
      <4>2. f[k] = f[k - 1] \cup ({OSTmrNext[q] : q \in f[k - 1]} \ {NULL})
        BY <2>0, <4>1
      <4>. QED BY <4>1, <4>2 DEF k
    <3>3. G(n + 1) = G(n) \cup ({OSTmrNext[q] : q \in G(n)} \ {NULL})
      <4>. HIDE DEF G
      <4>. QED BY <1>3, <3>1
    <3>. HIDE DEF G
    <3>4. f[n] = G(n) /\ g[n + 1] = G(n + 1)
      BY <2>2, <3>1
    <3>. QED BY <3>2, <3>3, <3>4
  <2>. HIDE DEF T
  <2>3. \A n \in Nat : n \in T
    BY <2>1, <2>2, SetInduction
  <2>4. ASSUME NEW n \in 0 .. N PROVE f[n] = g[n]
    <3>1. n \in Nat /\ n <= N
      BY <1>1
    <3>2. n \in T
      BY <2>3, <3>1
    <3>. HIDE DEF g
    <3>. QED BY <3>1, <3>2 DEF T
  <2>. HIDE DEF g
  <2>5. g = [n \in 0 .. N |-> g[n]]
    BY DEF g
  <2>. QED BY <2>0, <2>4, <2>5
<1>6. g[N] = Members(c)
  <2>1. \A j \in 1 .. m : j <= N + 1
    BY <1>1
  <2>2. N \in 0 .. N
    BY <1>1
  <2>. QED BY <2>1, <2>2 DEF Members, m
<1> HIDE DEF g
<1>7. ListFrom(p) = g[N]
  BY <1>4, <1>5, ListIsReached DEF N
<1>. QED BY <1>6, <1>7 DEF p
-----------------------------------------------------------------------------
(* The lists of the wheel, as a service has left them.                     *)
ListsType ==
  [next : [Timers -> Ptr], prev : [Timers -> Ptr], first : [Spokes -> Ptr],
   entries : [Spokes -> Nat], match : [Timers -> Ticks], fault : BOOLEAN]

SpokeRow(l, q, s) ==
  /\ Chain(q, l.next)
  /\ \A i \in 1 .. Len(q) : /\ l.prev[q[i]] = IF i = 1 THEN NULL ELSE q[i - 1]
                            /\ Spoke(l.match[q[i]]) = s
  /\ l.first[s] = HeadOf(q)
  /\ l.entries[s] = Len(q)

Wheel(l, rows) ==
  /\ l \in ListsType /\ l.fault = FALSE
  /\ rows \in [Spokes -> Seq(Timers)]
  /\ \A s \in Spokes : SpokeRow(l, rows[s], s)

(* Each tick has its spoke.                                                *)
LEMMA SpokeTyped == \A n \in Ticks : Spoke(n) \in Spokes
  BY Sizes DEF Ticks, Spoke, Spokes

(* What m is when p has been taken off spoke s of l, or put on it.         *)
UnlinkedTo(l, m, p, s) ==
  LET n == l.next[p]
      b == l.prev[p]
  IN  /\ m \in ListsType
      /\ m.match = l.match
      /\ m.fault = IF l.first[s] # p /\ b = NULL THEN TRUE ELSE l.fault
      /\ m.first = [r \in Spokes |-> IF r = s /\ l.first[s] = p THEN n ELSE l.first[r]]
      /\ m.next = [q \in Timers |-> IF q = p THEN NULL
                                    ELSE IF l.first[s] # p /\ q = b THEN n ELSE l.next[q]]
      /\ m.prev = [q \in Timers |-> IF q = p THEN NULL
                                    ELSE IF q = n THEN (IF l.first[s] = p THEN NULL ELSE b)
                                    ELSE l.prev[q]]
      /\ m.entries = [r \in Spokes |-> IF r = s THEN (l.entries[r] - 1) % 65536 ELSE l.entries[r]]

LinkedTo(l, m, p, d, s) ==
  LET old == l.first[s]
  IN  /\ m \in ListsType
      /\ d \in Ticks /\ s \in Spokes
      /\ m.match = [q \in Timers |-> IF q = p THEN d ELSE l.match[q]]
      /\ m.fault = l.fault
      /\ m.first = [r \in Spokes |-> IF r = s THEN p ELSE l.first[r]]
      /\ m.next = [q \in Timers |-> IF q = p THEN old ELSE l.next[q]]
      /\ m.prev = [q \in Timers |-> IF q = p THEN NULL ELSE IF q = old THEN p ELSE l.prev[q]]
      /\ m.entries = [r \in Spokes |-> IF r = s THEN (IF old = NULL THEN 1 ELSE l.entries[r] + 1)
                                       ELSE l.entries[r]]

(* OSTmr_Unlink(), variable by variable.                                   *)
LEMMA UnlinkFields ==
  ASSUME NEW l \in ListsType, NEW p \in Timers
  PROVE  UnlinkedTo(l, OSTmr_Unlink(l, p), p, Spoke(l.match[p]))
<1> DEFINE s == Spoke(l.match[p])
           n == l.next[p]
           b == l.prev[p]
           isFirst == l.first[s] = p
           flt == l.fault \/ (~isFirst /\ b = NULL)
<1>1. s \in Spokes /\ n \in Ptr /\ b \in Ptr /\ isFirst \in BOOLEAN
      /\ l.first \in [Spokes -> Ptr] /\ l.entries \in [Spokes -> Nat] /\ l.fault \in BOOLEAN
      /\ l.next \in [Timers -> Ptr] /\ l.prev \in [Timers -> Ptr] /\ l.match \in [Timers -> Ticks]
  BY SpokeTyped DEF ListsType
<1> DEFINE first == [l.first EXCEPT ![s] = IF isFirst THEN n ELSE @]
           next == [q \in Timers |-> IF q = p THEN NULL
                                     ELSE IF ~isFirst /\ q = b THEN n ELSE l.next[q]]
           prev == [q \in Timers |-> IF q = p THEN NULL
                                     ELSE IF q = n THEN (IF isFirst THEN NULL ELSE b)
                                     ELSE l.prev[q]]
           entries == [l.entries EXCEPT ![s] = (@ - 1) % 65536]
<1>2. OSTmr_Unlink(l, p) =
        [l EXCEPT !.first = first, !.next = next, !.prev = prev, !.entries = entries, !.fault = flt]
  BY DEF OSTmr_Unlink
<1>3. OSTmr_Unlink(l, p) =
        [next |-> next, prev |-> prev, first |-> first, entries |-> entries,
         match |-> l.match, fault |-> flt]
  <2>. HIDE DEF first, next, prev, entries, flt
  <2>1. l = [next |-> l.next, prev |-> l.prev, first |-> l.first, entries |-> l.entries,
             match |-> l.match, fault |-> l.fault]
    BY DEF ListsType
  <2>. QED BY <1>2, <2>1
<1>4. first \in [Spokes -> Ptr] /\ next \in [Timers -> Ptr] /\ prev \in [Timers -> Ptr] /\ flt \in BOOLEAN
  <2>. HIDE DEF s, n, b, isFirst
  <2>. QED BY <1>1 DEF Ptr
<1>5. entries \in [Spokes -> Nat]
  <2>. HIDE DEF s, n, b, isFirst
  <2>. QED BY <1>1
<1>6. /\ first = [r \in Spokes |-> IF r = s /\ isFirst THEN n ELSE l.first[r]]
      /\ entries = [r \in Spokes |-> IF r = s THEN (l.entries[r] - 1) % 65536 ELSE l.entries[r]]
  <2>. HIDE DEF s, n, b, isFirst
  <2>. QED BY <1>1
<1>7. [next |-> next, prev |-> prev, first |-> first, entries |-> entries,
       match |-> l.match, fault |-> flt] \in ListsType
  <2>. HIDE DEF first, next, prev, entries, flt
  <2>. QED BY <1>1, <1>4, <1>5 DEF ListsType
<1>8. flt = IF ~isFirst /\ b = NULL THEN TRUE ELSE l.fault
  BY <1>1
<1> HIDE DEF first, entries, flt
<1>. QED BY <1>3, <1>6, <1>7, <1>8 DEF UnlinkedTo

(* OSTmr_Link(), variable by variable.                                     *)
LEMMA LinkFields ==
  ASSUME NEW l \in ListsType, NEW p \in Timers, NEW ticks \in Nat, NEW time \in Nat
  PROVE  LinkedTo(l, OSTmr_Link(l, p, ticks, time), p, (ticks + time) % TimeModulus,
                  Spoke((ticks + time) % TimeModulus))
<1> DEFINE d   == (ticks + time) % TimeModulus
           s   == Spoke(d)
           old == l.first[s]
<1>0. d \in Ticks
  <2>1. ticks + time \in Nat
    OBVIOUS
  <2>. QED BY <2>1, Sizes DEF Ticks
<1>1. s \in Spokes
  <2>. HIDE DEF d
  <2>. QED BY <1>0, SpokeTyped
<1>2. old \in Ptr
      /\ l.first \in [Spokes -> Ptr] /\ l.entries \in [Spokes -> Nat] /\ l.fault \in BOOLEAN
      /\ l.next \in [Timers -> Ptr] /\ l.prev \in [Timers -> Ptr] /\ l.match \in [Timers -> Ticks]
  <2>. HIDE DEF s
  <2>. QED BY <1>1 DEF ListsType
<1>3. OSTmr_Link(l, p, ticks, time) =
        [l EXCEPT !.match[p]   = d,
                  !.first[s]   = p,
                  !.next[p]    = old,
                  !.prev       = [q \in Timers |-> IF q = p THEN NULL
                                                   ELSE IF q = old THEN p ELSE @[q]],
                  !.entries[s] = IF old = NULL THEN 1 ELSE @ + 1]
  BY DEF OSTmr_Link
<1> DEFINE match == [l.match EXCEPT ![p] = d]
           first == [l.first EXCEPT ![s] = p]
           next == [l.next EXCEPT ![p] = old]
           prev == [q \in Timers |-> IF q = p THEN NULL ELSE IF q = old THEN p ELSE l.prev[q]]
           entries == [l.entries EXCEPT ![s] = IF old = NULL THEN 1 ELSE @ + 1]
<1>4. OSTmr_Link(l, p, ticks, time) =
        [next |-> next, prev |-> prev, first |-> first, entries |-> entries,
         match |-> match, fault |-> l.fault]
  <2>. HIDE DEF s, d, old
  <2>1. l = [next |-> l.next, prev |-> l.prev, first |-> l.first, entries |-> l.entries,
             match |-> l.match, fault |-> l.fault]
    BY DEF ListsType
  <2>. QED BY <1>3, <2>1
<1>5. first \in [Spokes -> Ptr] /\ next \in [Timers -> Ptr] /\ prev \in [Timers -> Ptr]
      /\ match \in [Timers -> Ticks]
  <2>. HIDE DEF s, d, old
  <2>. QED BY <1>0, <1>1, <1>2 DEF Ptr
<1>6. entries \in [Spokes -> Nat]
  <2>. HIDE DEF s, d, old
  <2>1. l.entries[s] + 1 \in Nat
    BY <1>1, <1>2
  <2>2. (IF old = NULL THEN 1 ELSE l.entries[s] + 1) \in Nat
    BY <2>1
  <2>. QED BY <1>2, <2>2
<1>7. /\ first = [r \in Spokes |-> IF r = s THEN p ELSE l.first[r]]
      /\ entries = [r \in Spokes |-> IF r = s THEN (IF old = NULL THEN 1 ELSE l.entries[r] + 1)
                                     ELSE l.entries[r]]
      /\ next = [q \in Timers |-> IF q = p THEN old ELSE l.next[q]]
      /\ match = [q \in Timers |-> IF q = p THEN d ELSE l.match[q]]
  <2>. HIDE DEF s, d, old
  <2>. QED BY <1>2
<1>8. [next |-> next, prev |-> prev, first |-> first, entries |-> entries,
       match |-> match, fault |-> l.fault] \in ListsType
  <2>. HIDE DEF first, next, prev, entries, match
  <2>. QED BY <1>2, <1>5, <1>6 DEF ListsType
<1> HIDE DEF first, entries, next, match
<1>. QED BY <1>0, <1>1, <1>4, <1>7, <1>8 DEF LinkedTo
-----------------------------------------------------------------------------

(* A row without its k-th member, and a row with p before it.              *)
LEMMA CutRow ==
  ASSUME NEW q \in Seq(Timers), NEW k \in 1 .. Len(q)
  PROVE  /\ Cut(q, k) \in Seq(Timers) /\ Len(Cut(q, k)) = Len(q) - 1 /\ Len(q) \in Nat
         /\ \A i \in 1 .. Len(q) - 1 : Cut(q, k)[i] = IF i < k THEN q[i] ELSE q[i + 1]
<1>1. Len(q) \in Nat /\ \A i \in 1 .. Len(q) : q[i] \in Timers
  OBVIOUS
<1>2. Len(q) - 1 \in Nat
  BY <1>1
<1>3. \A i \in 1 .. Len(q) - 1 : (IF i < k THEN q[i] ELSE q[i + 1]) \in Timers
  BY <1>1
<1> DEFINE n == Len(q) - 1
<1>4. Cut(q, k) = [i \in 1 .. n |-> IF i < k THEN q[i] ELSE q[i + 1]]
  BY DEF Cut
<1>5. n \in Nat /\ \A i \in 1 .. n : (IF i < k THEN q[i] ELSE q[i + 1]) \in Timers
  BY <1>2, <1>3
<1> HIDE DEF n
<1>6. Cut(q, k) \in Seq(Timers) /\ Len(Cut(q, k)) = n
  BY <1>4, <1>5
<1>. QED BY <1>1, <1>4, <1>6 DEF n

LEMMA PushRow ==
  ASSUME NEW q \in Seq(Timers), NEW p \in Timers
  PROVE  /\ Push(p, q) \in Seq(Timers) /\ Len(Push(p, q)) = Len(q) + 1 /\ Len(q) \in Nat
         /\ \A i \in 1 .. Len(q) + 1 : Push(p, q)[i] = IF i = 1 THEN p ELSE q[i - 1]
<1>1. Len(q) \in Nat /\ \A i \in 1 .. Len(q) : q[i] \in Timers
  OBVIOUS
<1> DEFINE n == Len(q) + 1
<1>2. Push(p, q) = [i \in 1 .. n |-> IF i = 1 THEN p ELSE q[i - 1]]
  BY DEF Push
<1>3. n \in Nat /\ \A i \in 1 .. n : (IF i = 1 THEN p ELSE q[i - 1]) \in Timers
  BY <1>1
<1> HIDE DEF n
<1>4. Push(p, q) \in Seq(Timers) /\ Len(Push(p, q)) = n
  BY <1>2, <1>3
<1>. QED BY <1>1, <1>2, <1>4 DEF n

(* A row and links that skip the k-th member.                              *)
Skips(q, k, next, next2) ==
  /\ \A i \in 1 .. Len(q) : i # k /\ i + 1 # k => next2[q[i]] = next[q[i]]
  /\ k > 1 => next2[q[k - 1]] = next[q[k]]

(* Links that skip a member lead along the row without it.                 *)
LEMMA CutChain ==
  ASSUME NEW q, NEW next, NEW next2, Chain(q, next), NEW k \in 1 .. Len(q),
         Skips(q, k, next, next2)
  PROVE  Chain(Cut(q, k), next2)
<1> DEFINE c == Cut(q, k)
           n == Len(q)
<1>1. /\ n \in Nat /\ k \in 1 .. n /\ c \in Seq(Timers) /\ Len(c) = n - 1
      /\ \A i \in 1 .. n - 1 : c[i] = IF i < k THEN q[i] ELSE q[i + 1]
  BY CutRow DEF Chain
<1>2. /\ \A i, j \in 1 .. n : q[i] = q[j] => i = j
      /\ \A i \in 1 .. n : next[q[i]] = IF i = n THEN NULL ELSE q[i + 1]
      /\ \A i \in 1 .. n : i # k /\ i + 1 # k => next2[q[i]] = next[q[i]]
      /\ k > 1 => next2[q[k - 1]] = next[q[k]]
  BY DEF Chain, Skips
<1> HIDE DEF c, n
<1>3. ASSUME NEW i \in 1 .. n - 1, NEW j \in 1 .. n - 1, c[i] = c[j] PROVE i = j
  <2>1. PICK a : a = IF i < k THEN i ELSE i + 1
    OBVIOUS
  <2>2. PICK b : b = IF j < k THEN j ELSE j + 1
    OBVIOUS
  <2>3. a \in 1 .. n /\ b \in 1 .. n
    BY <1>1, <2>1, <2>2
  <2>4. c[i] = q[a] /\ c[j] = q[b]
    BY <1>1, <2>1, <2>2
  <2>5. a = b
    <3>1. \A x, y \in 1 .. n : q[x] = q[y] => x = y
      BY <1>2
    <3>2. q[a] = q[b]
      BY <1>3, <2>4
    <3>. QED BY <2>3, <3>1, <3>2
  <2>. QED BY <1>1, <2>1, <2>2, <2>5
<1>4. ASSUME NEW i \in 1 .. n - 1 PROVE next2[c[i]] = IF i = n - 1 THEN NULL ELSE c[i + 1]
  <2>1. CASE i + 1 < k
    <3> DEFINE j == i + 1
    <3>1. i \in 1 .. n /\ j \in 1 .. n - 1 /\ i # n /\ i # n - 1 /\ i # k /\ j # k /\ i < k /\ j < k
      BY <1>1, <2>1
    <3>2. next2[q[i]] = next[q[i]] /\ next[q[i]] = q[j]
      BY <1>2, <3>1
    <3>. HIDE DEF j
    <3>3. c[i] = q[i] /\ c[j] = q[j]
      BY <1>1, <3>1
    <3>. QED BY <3>1, <3>2, <3>3 DEF j
  <2>2. CASE i + 1 = k
    <3>1. c[i] = q[i] /\ next2[q[i]] = next[q[k]]
      BY <1>1, <1>2, <2>2
    <3>2. i # n - 1 => c[i + 1] = q[i + 1 + 1] /\ i + 1 + 1 = k + 1 /\ k # n
      BY <1>1, <2>2
    <3>3. next[q[k]] = IF k = n THEN NULL ELSE q[k + 1]
      BY <1>1, <1>2
    <3>4. i = n - 1 <=> k = n
      BY <1>1, <2>2
    <3>. QED BY <3>1, <3>2, <3>3, <3>4
  <2>3. CASE i >= k
    <3> DEFINE j == i + 1
    <3>1. j \in 1 .. n /\ c[i] = q[j] /\ j # k /\ j + 1 # k /\ (j = n <=> i = n - 1)
      BY <1>1, <2>3
    <3>2. i # n - 1 => c[j] = q[j + 1]
      BY <1>1, <2>3
    <3>. HIDE DEF j
    <3>3. next2[c[i]] = IF j = n THEN NULL ELSE q[j + 1]
      BY <1>2, <3>1
    <3>. QED BY <3>1, <3>2, <3>3 DEF j
  <2>. QED BY <1>1, <2>1, <2>2, <2>3
<1>. QED BY <1>1, <1>3, <1>4 DEF Chain, c

(* A timer that links to the head of a row heads the longer row.           *)
LEMMA PushChain ==
  ASSUME NEW q, NEW next, NEW next2, Chain(q, next), NEW p \in Timers, p \notin Members(q),
         \A i \in 1 .. Len(q) : next2[q[i]] = next[q[i]], next2[p] = HeadOf(q)
  PROVE  Chain(Push(p, q), next2)
<1> DEFINE c == Push(p, q)
           n == Len(q)
<1>1. /\ n \in Nat /\ c \in Seq(Timers) /\ Len(c) = n + 1
      /\ \A i \in 1 .. n + 1 : c[i] = IF i = 1 THEN p ELSE q[i - 1]
  BY PushRow DEF Chain
<1>2. /\ \A i, j \in 1 .. n : q[i] = q[j] => i = j
      /\ \A i \in 1 .. n : next2[q[i]] = IF i = n THEN NULL ELSE q[i + 1]
      /\ \A i \in 1 .. n : q[i] # p
      /\ next2[p] = IF n = 0 THEN NULL ELSE q[1]
  BY DEF Chain, Members, HeadOf
<1> HIDE DEF c, n
<1>3. ASSUME NEW i \in 1 .. n + 1, NEW j \in 1 .. n + 1, c[i] = c[j] PROVE i = j
  <2>1. PICK a : a = i - 1
    OBVIOUS
  <2>2. PICK b : b = j - 1
    OBVIOUS
  <2>3. /\ i # 1 => a \in 1 .. n /\ c[i] = q[a]
        /\ j # 1 => b \in 1 .. n /\ c[j] = q[b]
    BY <1>1, <2>1, <2>2
  <2>4. CASE i = 1
    BY <1>1, <1>2, <1>3, <2>3, <2>4
  <2>5. CASE j = 1
    BY <1>1, <1>2, <1>3, <2>3, <2>5
  <2>6. CASE i # 1 /\ j # 1
    <3>1. a = b
      BY <1>2, <1>3, <2>3, <2>6
    <3>. QED BY <1>1, <2>1, <2>2, <3>1
  <2>. QED BY <2>4, <2>5, <2>6
<1>4. ASSUME NEW i \in 1 .. n + 1 PROVE next2[c[i]] = IF i = n + 1 THEN NULL ELSE c[i + 1]
  <2>1. CASE i = 1
    BY <1>1, <1>2, <2>1
  <2>2. CASE i # 1
    <3> DEFINE j == i - 1
    <3>1. j \in 1 .. n /\ c[i] = q[j] /\ (j = n <=> i = n + 1)
      BY <1>1, <2>2
    <3>2. i # n + 1 => c[i + 1] = q[i]
      BY <1>1, <2>2
    <3>3. j + 1 = i
      BY <1>1
    <3>. HIDE DEF j
    <3>. QED BY <1>2, <3>1, <3>2, <3>3
  <2>. QED BY <2>1, <2>2
<1>. QED BY <1>1, <1>3, <1>4 DEF Chain, c
-----------------------------------------------------------------------------
(* A timer is on one spoke only.                                           *)
LEMMA RowsApart ==
  ASSUME NEW l, NEW rows, Wheel(l, rows), NEW r \in Spokes, NEW s \in Spokes,
         NEW i \in 1 .. Len(rows[r]), NEW j \in 1 .. Len(rows[s]), rows[r][i] = rows[s][j]
  PROVE  r = s /\ i = j
<1>1. Spoke(l.match[rows[r][i]]) = r /\ Spoke(l.match[rows[s][j]]) = s
  BY DEF Wheel, SpokeRow
<1>. QED BY <1>1 DEF Wheel, SpokeRow, Chain

(* Nothing changes for a row whose members keep their links.               *)
LEMMA RowStays ==
  ASSUME NEW l, NEW m, NEW q, NEW s, SpokeRow(l, q, s),
         \A i \in 1 .. Len(q) : /\ m.next[q[i]] = l.next[q[i]] /\ m.prev[q[i]] = l.prev[q[i]]
                                /\ m.match[q[i]] = l.match[q[i]],
         m.first[s] = l.first[s], m.entries[s] = l.entries[s]
  PROVE  SpokeRow(m, q, s)
<1>1. Chain(q, m.next)
  BY DEF SpokeRow, Chain
<1>. QED BY <1>1 DEF SpokeRow

(* The wheel l without the k-th timer of spoke s is m.                     *)
CutOff(l, m, rows, s, k) ==
  /\ Wheel(m, [rows EXCEPT ![s] = Cut(rows[s], k)])
  /\ m.match = l.match
  /\ \A x \in Timers : (\A i \in 1 .. Len(rows[s]) : rows[s][i] # x) => m.next[x] = l.next[x]

(* OSTmr_Unlink() takes a timer off its spoke and no other.                *)
LEMMA UnlinkWheel ==
  ASSUME NEW l, NEW rows, Wheel(l, rows), NEW s \in Spokes, NEW k \in 1 .. Len(rows[s])
  PROVE  CutOff(l, OSTmr_Unlink(l, rows[s][k]), rows, s, k)
<1> DEFINE q == rows[s]
           c == Cut(q, k)
           p == q[k]
           n == l.next[p]
           b == l.prev[p]
           m == OSTmr_Unlink(l, p)
           new == [rows EXCEPT ![s] = c]
<1>1. /\ l \in ListsType /\ l.fault = FALSE /\ rows \in [Spokes -> Seq(Timers)]
      /\ SpokeRow(l, q, s) /\ q \in Seq(Timers) /\ Len(q) \in Nat /\ Len(q) <= 65500
  <2>1. SpokeRow(l, q, s)
    BY DEF Wheel
  <2>2. Len(q) \in 0 .. Len(OSTmrTbl)
    BY <2>1, ChainCounts DEF SpokeRow
  <2>3. l \in ListsType /\ l.fault = FALSE /\ rows \in [Spokes -> Seq(Timers)]
    BY DEF Wheel
  <2>4. q \in Seq(Timers)
    BY <2>3
  <2>. QED BY <2>1, <2>2, <2>3, <2>4, Sizes
<1>2. /\ \A i \in 1 .. Len(q) : q[i] \in Timers /\ q[i] # NULL
      /\ \A i, j \in 1 .. Len(q) : q[i] = q[j] => i = j
      /\ \A i \in 1 .. Len(q) : l.next[q[i]] = IF i = Len(q) THEN NULL ELSE q[i + 1]
      /\ \A i \in 1 .. Len(q) : l.prev[q[i]] = IF i = 1 THEN NULL ELSE q[i - 1]
      /\ \A i \in 1 .. Len(q) : Spoke(l.match[q[i]]) = s
      /\ l.first[s] = q[1] /\ l.entries[s] = Len(q)
  <2>1. Len(q) # 0
    BY <1>1
  <2>2. \A i \in 1 .. Len(q) : q[i] \in Timers /\ q[i] # NULL
    BY <1>1, Sizes
  <2>3. /\ \A i, j \in 1 .. Len(q) : q[i] = q[j] => i = j
        /\ \A i \in 1 .. Len(q) : l.next[q[i]] = IF i = Len(q) THEN NULL ELSE q[i + 1]
    <3>1. Chain(q, l.next)
      BY <1>1 DEF SpokeRow
    <3>. HIDE DEF q
    <3>. QED BY <3>1 DEF Chain
  <2>4. /\ \A i \in 1 .. Len(q) : l.prev[q[i]] = IF i = 1 THEN NULL ELSE q[i - 1]
        /\ \A i \in 1 .. Len(q) : Spoke(l.match[q[i]]) = s
        /\ l.entries[s] = Len(q)
    BY <1>1 DEF SpokeRow
  <2>5. l.first[s] = q[1]
    BY <1>1, <2>1 DEF SpokeRow, HeadOf
  <2>. HIDE DEF q
  <2>. QED BY <2>2, <2>3, <2>4, <2>5
<1>3. /\ p \in Timers /\ Spoke(l.match[p]) = s
      /\ n = IF k = Len(q) THEN NULL ELSE q[k + 1]
      /\ b = IF k = 1 THEN NULL ELSE q[k - 1]
      /\ l.first[s] = p <=> k = 1
  <2>1. 1 \in 1 .. Len(q)
    BY <1>1
  <2>. QED BY <1>2, <2>1
<1>4. /\ c \in Seq(Timers) /\ Len(c) = Len(q) - 1
      /\ \A i \in 1 .. Len(q) - 1 : c[i] = IF i < k THEN q[i] ELSE q[i + 1]
  BY <1>1, CutRow
<1>5. /\ m \in ListsType /\ m.match = l.match
      /\ m.fault = IF l.first[s] # p /\ b = NULL THEN TRUE ELSE l.fault
      /\ m.first = [r \in Spokes |-> IF r = s /\ l.first[s] = p THEN n ELSE l.first[r]]
      /\ m.next = [x \in Timers |-> IF x = p THEN NULL
                                    ELSE IF l.first[s] # p /\ x = b THEN n ELSE l.next[x]]
      /\ m.prev = [x \in Timers |-> IF x = p THEN NULL
                                    ELSE IF x = n THEN (IF l.first[s] = p THEN NULL ELSE b)
                                    ELSE l.prev[x]]
      /\ m.entries = [r \in Spokes |-> IF r = s THEN (l.entries[r] - 1) % 65536 ELSE l.entries[r]]
  <2>1. l \in ListsType /\ p \in Timers
    BY <1>1, <1>3
  <2>2. UnlinkedTo(l, m, p, Spoke(l.match[p]))
    <3>. HIDE DEF p
    <3>. QED BY <2>1, UnlinkFields
  <2>3. Spoke(l.match[p]) = s
    BY <1>3
  <2>4. UnlinkedTo(l, m, p, s)
    <3>. HIDE DEF m, p
    <3>. QED BY <2>2, <2>3
  <2>. HIDE DEF m, p
  <2>. QED BY <2>4 DEF UnlinkedTo
<1>. HIDE DEF q, c, p, n, b, m
<1>6. /\ m.next = [x \in Timers |-> IF x = p THEN NULL ELSE IF k # 1 /\ x = b THEN n ELSE l.next[x]]
      /\ m.prev = [x \in Timers |-> IF x = p THEN NULL
                                    ELSE IF x = n THEN (IF k = 1 THEN NULL ELSE b) ELSE l.prev[x]]
      /\ m.first[s] = IF k = 1 THEN n ELSE q[1]
      /\ m.entries[s] = (Len(q) - 1) % 65536
      /\ \A r \in Spokes \ {s} : m.first[r] = l.first[r] /\ m.entries[r] = l.entries[r]
  <2>1. l.first[s] = p <=> k = 1
    BY <1>3
  <2>2. l.first[s] = q[1] /\ l.entries[s] = Len(q)
    BY <1>2
  <2>3. /\ m.first[s] = IF k = 1 THEN n ELSE q[1]
        /\ m.entries[s] = (Len(q) - 1) % 65536
        /\ \A r \in Spokes \ {s} : m.first[r] = l.first[r] /\ m.entries[r] = l.entries[r]
    BY <1>5, <2>1, <2>2
  <2>4. /\ m.next = [x \in Timers |-> IF x = p THEN NULL ELSE IF k # 1 /\ x = b THEN n ELSE l.next[x]]
        /\ m.prev = [x \in Timers |-> IF x = p THEN NULL
                                    ELSE IF x = n THEN (IF k = 1 THEN NULL ELSE b) ELSE l.prev[x]]
    BY <1>5, <2>1
  <2>. QED BY <2>3, <2>4
<1>7. m.fault = FALSE
  <2>1. k # 1 => b # NULL
    <3>1. k # 1 => k - 1 \in 1 .. Len(q)
      BY <1>1 DEF q
    <3>. QED BY <1>2, <1>3, <3>1
  <2>2. ~(l.first[s] # p /\ b = NULL)
    BY <1>3, <2>1
  <2>. QED BY <1>1, <1>5, <2>2
<1>8. k \in 1 .. Len(q) /\ p = q[k]
  BY DEF p, q
<1>9. \A i \in 1 .. Len(q) : /\ q[i] = p <=> i = k
                             /\ k # 1 => (q[i] = b <=> i = k - 1)
                             /\ q[i] = n <=> i = k + 1
  <2> SUFFICES ASSUME NEW i \in 1 .. Len(q)
               PROVE  /\ q[i] = p <=> i = k
                      /\ k # 1 => (q[i] = b <=> i = k - 1)
                      /\ q[i] = n <=> i = k + 1
    OBVIOUS
  <2>1. q[i] = p <=> i = k
    BY <1>2, <1>8
  <2>2. k # 1 => (q[i] = b <=> i = k - 1)
    <3>1. k # 1 => k - 1 \in 1 .. Len(q) /\ b = q[k - 1]
      BY <1>1, <1>3, <1>8
    <3>. QED BY <1>2, <3>1
  <2>3. q[i] = n <=> i = k + 1
    <3>1. CASE k = Len(q)
      BY <1>1, <1>2, <1>3, <3>1
    <3>2. CASE k # Len(q)
      <4>1. k + 1 \in 1 .. Len(q) /\ n = q[k + 1]
        BY <1>1, <1>3, <1>8, <3>2
      <4>. QED BY <1>2, <4>1
    <3>. QED BY <3>1, <3>2
  <2>. QED BY <2>1, <2>2, <2>3
<1>10. SpokeRow(m, c, s)
  <2>1. Chain(c, m.next)
    <3>1. Chain(q, l.next)
      BY <1>1 DEF SpokeRow
    <3>2. ASSUME NEW i \in 1 .. Len(q), i # k, i + 1 # k PROVE m.next[q[i]] = l.next[q[i]]
      <4>1. q[i] # p /\ (k # 1 => q[i] # b) /\ q[i] \in Timers
        <5>1. i # k - 1
          BY <1>1, <1>8, <3>2
        <5>. QED BY <1>2, <1>9, <3>2, <5>1
      <4>. QED BY <1>6, <4>1
    <3>3. k > 1 => m.next[q[k - 1]] = l.next[q[k]]
      <4> SUFFICES ASSUME k > 1 PROVE m.next[q[k - 1]] = n
        BY <1>8 DEF n
      <4>1. k - 1 \in 1 .. Len(q) /\ k - 1 # k /\ k # 1
        BY <1>1, <1>8
      <4>2. q[k - 1] # p /\ q[k - 1] = b /\ q[k - 1] \in Timers
        BY <1>2, <1>9, <4>1
      <4>. QED BY <1>6, <4>1, <4>2
    <3>4. \A i \in 1 .. Len(q) : i # k /\ i + 1 # k => m.next[q[i]] = l.next[q[i]]
      BY <3>2
    <3>5. PICK next2 : next2 = m.next
      OBVIOUS
    <3>6. PICK next : next = l.next
      OBVIOUS
    <3>7. Chain(q, next) /\ k \in 1 .. Len(q)
      BY <1>8, <3>1, <3>6
    <3>8. k > 1 => next2[q[k - 1]] = next[q[k]]
      BY <3>3, <3>5, <3>6
    <3>9. \A i \in 1 .. Len(q) : i # k /\ i + 1 # k => next2[q[i]] = next[q[i]]
      BY <3>4, <3>5, <3>6
    <3>10. Chain(Cut(q, k), next2)
      <4>1. Skips(q, k, next, next2)
        BY <3>8, <3>9 DEF Skips
      <4>. QED BY <3>7, <4>1, CutChain
    <3>. QED BY <3>5, <3>10 DEF c
  <2>2. ASSUME NEW i \in 1 .. Len(c)
        PROVE  m.prev[c[i]] = (IF i = 1 THEN NULL ELSE c[i - 1]) /\ Spoke(m.match[c[i]]) = s
    <3>0. i \in 1 .. Len(q) - 1 /\ i \in 1 .. Len(q) /\ i + 1 \in 1 .. Len(q)
      BY <1>1, <1>4
    <3>1. CASE i < k
      <4>1. c[i] = q[i] /\ q[i] # p /\ q[i] # n /\ q[i] \in Timers
        <5>1. i # k /\ i # k + 1
          BY <1>8, <3>1
        <5>. QED BY <1>2, <1>4, <1>9, <3>0, <3>1, <5>1
      <4>2. m.prev[c[i]] = IF i = 1 THEN NULL ELSE q[i - 1]
        <5>1. m.prev[q[i]] = l.prev[q[i]]
          BY <1>6, <4>1
        <5>2. l.prev[q[i]] = IF i = 1 THEN NULL ELSE q[i - 1]
          BY <1>2, <3>0
        <5>. QED BY <4>1, <5>1, <5>2
      <4>3. i # 1 => c[i - 1] = q[i - 1]
        BY <1>1, <1>4, <1>8, <3>0, <3>1
      <4>. QED BY <1>2, <1>5, <3>0, <4>1, <4>2, <4>3
    <3>2. CASE i = k
      <4>1. c[i] = q[i + 1] /\ q[i + 1] # p /\ q[i + 1] = n /\ q[i + 1] \in Timers
        <5>1. i + 1 # k /\ i + 1 = k + 1
          BY <1>8, <3>2
        <5>. QED BY <1>2, <1>4, <1>8, <1>9, <3>0, <3>2, <5>1
      <4>2. m.prev[c[i]] = IF k = 1 THEN NULL ELSE b
        BY <1>6, <4>1
      <4>3. i # 1 => c[i - 1] = q[i - 1]
        BY <1>1, <1>4, <1>8, <3>0, <3>2
      <4>. QED BY <1>2, <1>3, <1>5, <3>0, <3>2, <4>1, <4>2, <4>3
    <3>3. CASE i > k
      <4> DEFINE j == i + 1
      <4>1. c[i] = q[j] /\ q[j] # p /\ q[j] # n /\ q[j] \in Timers /\ j \in 1 .. Len(q) /\ j # 1
        <5>1. j # k /\ j # k + 1 /\ j # 1
          BY <1>8, <3>3
        <5>2. c[i] = q[j]
          BY <1>4, <1>8, <3>0, <3>3
        <5>. HIDE DEF j
        <5>3. j \in 1 .. Len(q)
          BY <3>0 DEF j
        <5>. QED BY <1>2, <1>9, <5>1, <5>2, <5>3
      <4>2. m.prev[c[i]] = q[i]
        <5>1. j - 1 = i
          BY <1>1
        <5>. HIDE DEF j
        <5>2. l.prev[q[j]] = q[j - 1]
          BY <1>2, <4>1
        <5>. QED BY <1>6, <4>1, <5>1, <5>2
      <4>3. i # 1 /\ c[i - 1] = q[i]
        <5>1. i - 1 \in 1 .. Len(q) - 1 /\ ~(i - 1 < k) /\ i - 1 + 1 = i /\ i # 1
          BY <1>1, <1>8, <3>0, <3>3
        <5>. QED BY <1>4, <5>1
      <4>4. Spoke(l.match[q[j]]) = s
        <5>. HIDE DEF j
        <5>. QED BY <1>2, <4>1
      <4>. HIDE DEF j
      <4>. QED BY <1>5, <4>1, <4>2, <4>3, <4>4
    <3>. QED BY <1>8, <3>0, <3>1, <3>2, <3>3
  <2>3. m.first[s] = HeadOf(c)
    <3>1. CASE k = 1
      <4>1. CASE Len(q) = 1
        BY <1>3, <1>4, <1>6, <3>1, <4>1 DEF HeadOf
      <4>2. CASE Len(q) # 1
        <5>1. 1 \in 1 .. Len(q) - 1 /\ Len(q) - 1 # 0 /\ ~(1 < k) /\ 1 + 1 = k + 1
          <6>1. Len(q) \in Nat /\ Len(q) >= 1
            BY <1>1, <1>8
          <6>2. PICK x : x = Len(q) - 1
            OBVIOUS
          <6>3. x \in Nat /\ x >= 1
            BY <4>2, <6>1, <6>2
          <6>. QED BY <3>1, <6>2, <6>3
        <5>2. c[1] = q[k + 1]
          BY <1>4, <5>1
        <5>. QED BY <1>3, <1>4, <1>6, <3>1, <4>2, <5>1, <5>2 DEF HeadOf
      <4>. QED BY <4>1, <4>2
    <3>2. CASE k # 1
      <4>1. 1 \in 1 .. Len(q) - 1 /\ Len(q) - 1 # 0 /\ 1 < k
        BY <1>1, <1>8, <3>2
      <4>. QED BY <1>4, <1>6, <3>2, <4>1 DEF HeadOf
    <3>. QED BY <3>1, <3>2
  <2>4. m.entries[s] = Len(c)
    <3>1. PICK x : x = Len(q) - 1
      OBVIOUS
    <3>2. x \in Nat /\ x <= 65499
      BY <1>1, <1>8, <3>1
    <3>3. x % 65536 = x
      BY <3>2
    <3>4. (Len(q) - 1) % 65536 = Len(q) - 1
      BY <3>1, <3>3
    <3>. QED BY <1>4, <1>6, <3>4
  <2>. QED BY <2>1, <2>2, <2>3, <2>4 DEF SpokeRow
<1>11. ASSUME NEW r \in Spokes, r # s PROVE SpokeRow(m, rows[r], r)
  <2>1. SpokeRow(l, rows[r], r) /\ rows[r] \in Seq(Timers)
    BY DEF Wheel
  <2>2. ASSUME NEW i \in 1 .. Len(rows[r])
        PROVE  /\ m.next[rows[r][i]] = l.next[rows[r][i]] /\ m.prev[rows[r][i]] = l.prev[rows[r][i]]
               /\ m.match[rows[r][i]] = l.match[rows[r][i]]
    <3> DEFINE x == rows[r][i]
    <3>1. x \in Timers /\ x # NULL
      BY <2>1, Sizes
    <3>2. \A j \in 1 .. Len(q) : x # q[j]
      BY <1>11, RowsApart DEF q
    <3>3. x # p /\ (k # 1 => x # b) /\ x # n
      <4>1. k # 1 => b = q[k - 1] /\ k - 1 \in 1 .. Len(q)
        BY <1>1, <1>3, <1>8
      <4>2. n = NULL \/ (n = q[k + 1] /\ k + 1 \in 1 .. Len(q))
        BY <1>1, <1>3, <1>8
      <4>. HIDE DEF x
      <4>. QED BY <1>8, <3>1, <3>2, <4>1, <4>2
    <3>. HIDE DEF x
    <3>4. m.next[x] = l.next[x] /\ m.prev[x] = l.prev[x] /\ m.match[x] = l.match[x]
      BY <1>5, <1>6, <3>1, <3>3
    <3>. QED BY <3>4 DEF x
  <2>3. m.first[r] = l.first[r] /\ m.entries[r] = l.entries[r]
    BY <1>6, <1>11
  <2>. QED BY <2>1, <2>2, <2>3, RowStays
<1>12. Wheel(m, new)
  <2>1. new \in [Spokes -> Seq(Timers)]
    BY <1>1, <1>4
  <2>2. ASSUME NEW r \in Spokes PROVE SpokeRow(m, new[r], r)
    <3>1. new[r] = IF r = s THEN c ELSE rows[r]
      BY <1>1
    <3>. QED BY <1>10, <1>11, <3>1
  <2>. HIDE DEF new
  <2>. QED BY <1>5, <1>7, <2>1, <2>2 DEF Wheel
<1>13. ASSUME NEW x \in Timers, \A i \in 1 .. Len(q) : q[i] # x PROVE m.next[x] = l.next[x]
  <2>1. k # 1 => b = q[k - 1] /\ k - 1 \in 1 .. Len(q)
    BY <1>1, <1>3, <1>8
  <2>2. x # p /\ (k # 1 => x # b)
    BY <1>8, <1>13, <2>1
  <2>. QED BY <1>6, <2>2
<1>. QED BY <1>5, <1>12, <1>13 DEF CutOff, c, m, p, q

(* OSTmr_Link() puts a timer that is on no spoke before the others.        *)
LEMMA LinkWheel ==
  ASSUME NEW l, NEW m, NEW rows, NEW p \in Timers, NEW d, NEW s,
         Wheel(l, rows), LinkedTo(l, m, p, d, s), s = Spoke(d),
         \A r \in Spokes : p \notin Members(rows[r])
  PROVE  Wheel(m, [rows EXCEPT ![s] = Push(p, rows[s])])
<1> DEFINE q == rows[s]
           c == Push(p, q)
           old == l.first[s]
           new == [rows EXCEPT ![s] = c]
<1>1. /\ l \in ListsType /\ l.fault = FALSE /\ rows \in [Spokes -> Seq(Timers)] /\ s \in Spokes
      /\ SpokeRow(l, q, s) /\ q \in Seq(Timers) /\ Len(q) \in Nat
  <2>1. s \in Spokes
    BY DEF LinkedTo
  <2>2. SpokeRow(l, q, s) /\ rows \in [Spokes -> Seq(Timers)]
    BY <2>1 DEF Wheel
  <2>3. q \in Seq(Timers)
    BY <2>1, <2>2
  <2>. QED BY <2>1, <2>2, <2>3 DEF Wheel
<1>2. /\ Chain(q, l.next)
      /\ \A i \in 1 .. Len(q) : l.prev[q[i]] = IF i = 1 THEN NULL ELSE q[i - 1]
      /\ \A i \in 1 .. Len(q) : Spoke(l.match[q[i]]) = s
      /\ old = HeadOf(q) /\ l.entries[s] = Len(q)
  BY <1>1 DEF SpokeRow
<1>3. /\ c \in Seq(Timers) /\ Len(c) = Len(q) + 1
      /\ \A i \in 1 .. Len(q) + 1 : c[i] = IF i = 1 THEN p ELSE q[i - 1]
  BY <1>1, PushRow
<1>4. /\ m \in ListsType
      /\ m.match = [x \in Timers |-> IF x = p THEN d ELSE l.match[x]]
      /\ m.fault = l.fault
      /\ m.first = [r \in Spokes |-> IF r = s THEN p ELSE l.first[r]]
      /\ m.next = [x \in Timers |-> IF x = p THEN old ELSE l.next[x]]
      /\ m.prev = [x \in Timers |-> IF x = p THEN NULL ELSE IF x = old THEN p ELSE l.prev[x]]
      /\ m.entries = [r \in Spokes |-> IF r = s THEN (IF old = NULL THEN 1 ELSE l.entries[r] + 1)
                                       ELSE l.entries[r]]
  BY DEF LinkedTo
<1>5. \A i \in 1 .. Len(q) : q[i] \in Timers /\ q[i] # p /\ q[i] # NULL
  BY <1>1, Sizes DEF Members
<1>6. /\ old = NULL <=> Len(q) = 0
      /\ \A i \in 1 .. Len(q) : q[i] = old <=> i = 1
  <2>1. \A i, j \in 1 .. Len(q) : q[i] = q[j] => i = j
    BY <1>2 DEF Chain
  <2>2. Len(q) # 0 => 1 \in 1 .. Len(q) /\ old = q[1]
    BY <1>1, <1>2 DEF HeadOf
  <2>3. Len(q) = 0 => old = NULL
    BY <1>2 DEF HeadOf
  <2>. QED BY <1>1, <1>5, <2>1, <2>2, <2>3
<1>. HIDE DEF q, c, old
<1>7. SpokeRow(m, c, s)
  <2>1. Chain(c, m.next)
    <3>1. PICK next2 : next2 = m.next
      OBVIOUS
    <3>2. PICK next : next = l.next
      OBVIOUS
    <3>3. \A i \in 1 .. Len(q) : next2[q[i]] = next[q[i]]
      BY <1>4, <1>5, <3>1, <3>2
    <3>4. next2[p] = HeadOf(q) /\ Chain(q, next)
      BY <1>2, <1>4, <3>1, <3>2
    <3>5. p \notin Members(q)
      BY <1>1 DEF q
    <3>6. Chain(Push(p, q), next2)
      BY <3>3, <3>4, <3>5, PushChain
    <3>. QED BY <3>1, <3>6 DEF c
  <2>2. ASSUME NEW i \in 1 .. Len(c)
        PROVE  m.prev[c[i]] = (IF i = 1 THEN NULL ELSE c[i - 1]) /\ Spoke(m.match[c[i]]) = s
    <3>1. CASE i = 1
      <4>1. c[i] = p
        BY <1>3, <3>1
      <4>. QED BY <1>4, <3>1, <4>1
    <3>2. CASE i # 1
      <4> DEFINE j == i - 1
      <4>1. j \in 1 .. Len(q) /\ c[i] = q[j] /\ (j = 1 <=> i = 2)
        BY <1>1, <1>3, <3>2
      <4>2. c[j] = IF j = 1 THEN p ELSE q[j - 1]
        BY <1>1, <1>3, <4>1
      <4>. HIDE DEF j
      <4>3. m.prev[q[j]] = c[j]
        BY <1>2, <1>4, <1>5, <1>6, <4>1, <4>2
      <4>4. Spoke(m.match[q[j]]) = s
        BY <1>2, <1>4, <1>5, <4>1
      <4>. QED BY <3>2, <4>1, <4>3, <4>4 DEF j
    <3>. QED BY <3>1, <3>2
  <2>3. m.first[s] = HeadOf(c)
    <3>1. Len(c) # 0 /\ 1 \in 1 .. Len(q) + 1
      BY <1>1, <1>3
    <3>. QED BY <1>1, <1>3, <1>4, <3>1 DEF HeadOf
  <2>4. m.entries[s] = Len(c)
    BY <1>1, <1>2, <1>3, <1>4, <1>6
  <2>. QED BY <2>1, <2>2, <2>3, <2>4 DEF SpokeRow
<1>8. ASSUME NEW r \in Spokes, r # s PROVE SpokeRow(m, rows[r], r)
  <2>1. SpokeRow(l, rows[r], r) /\ rows[r] \in Seq(Timers)
    BY DEF Wheel
  <2>2. ASSUME NEW i \in 1 .. Len(rows[r])
        PROVE  /\ m.next[rows[r][i]] = l.next[rows[r][i]] /\ m.prev[rows[r][i]] = l.prev[rows[r][i]]
               /\ m.match[rows[r][i]] = l.match[rows[r][i]]
    <3> DEFINE x == rows[r][i]
    <3>1. x \in Timers /\ x # NULL /\ x # p
      BY <2>1, Sizes DEF Members
    <3>2. \A j \in 1 .. Len(q) : x # q[j]
      BY <1>1, <1>8, RowsApart DEF q
    <3>3. x # old
      <4>1. old = NULL \/ (old = q[1] /\ 1 \in 1 .. Len(q))
        BY <1>1, <1>2 DEF HeadOf
      <4>. HIDE DEF x
      <4>. QED BY <3>1, <3>2, <4>1
    <3>. HIDE DEF x
    <3>4. m.next[x] = l.next[x] /\ m.prev[x] = l.prev[x] /\ m.match[x] = l.match[x]
      BY <1>4, <3>1, <3>3
    <3>. QED BY <3>4 DEF x
  <2>3. m.first[r] = l.first[r] /\ m.entries[r] = l.entries[r]
    BY <1>4, <1>8
  <2>. QED BY <2>1, <2>2, <2>3, RowStays
<1>. QED
  <2>1. new \in [Spokes -> Seq(Timers)]
    BY <1>1, <1>3
  <2>2. ASSUME NEW r \in Spokes PROVE SpokeRow(m, new[r], r)
    <3>1. new[r] = IF r = s THEN c ELSE rows[r]
      BY <1>1
    <3>. QED BY <1>7, <1>8, <3>1
  <2>3. new = [rows EXCEPT ![s] = Push(p, rows[s])]
    BY DEF c, q
  <2>. HIDE DEF new
  <2>4. Wheel(m, new)
    BY <1>1, <1>4, <2>1, <2>2 DEF Wheel
  <2>. QED BY <2>3, <2>4
-----------------------------------------------------------------------------
(* The walk at the given time, which looks at x next, has passed by no     *)
(* member of the row q that is due; with x null, none is left.             *)
Covers(match, q, time, x) ==
  \/ x = NULL /\ \A i \in 1 .. Len(q) : match[q[i]] # time
  \/ \E i \in 1 .. Len(q) : x = q[i] /\ \A j \in 1 .. Len(q) : j < i => match[q[j]] # time

(* The wheel has the running timers and the list at free the unused ones.  *)
Shape(l, rows, F, free, running, unused) ==
  /\ Wheel(l, rows)
  /\ running = {p \in Timers : \E s \in Spokes : p \in Members(rows[s])}
  /\ Chain(F, l.next) /\ free = HeadOf(F)
  /\ unused = Members(F) /\ running \cap unused = {}

Well(l, free, running, unused, time, x) ==
  \E rows \in [Spokes -> Seq(Timers)], F \in Seq(Timers) :
    /\ Shape(l, rows, F, free, running, unused)
    /\ Covers(l.match, rows[Spoke(time)], time, x)

(* A timer that is not looked at next may leave the spoke of the walk.     *)
LEMMA CoversCut ==
  ASSUME NEW match, NEW q \in Seq(Timers), NEW k \in 1 .. Len(q), NEW time, NEW x,
         Covers(match, q, time, x), x # q[k]
  PROVE  Covers(match, Cut(q, k), time, x)
<1> DEFINE c == Cut(q, k)
           n == Len(q)
<1>1. /\ n \in Nat /\ Len(c) = n - 1 /\ k \in 1 .. n
      /\ \A i \in 1 .. n - 1 : c[i] = IF i < k THEN q[i] ELSE q[i + 1]
  BY CutRow
<1>2. CASE x = NULL /\ \A i \in 1 .. n : match[q[i]] # time
  <2>1. \A i \in 1 .. n - 1 : match[c[i]] # time
    <3>1. ASSUME NEW i \in 1 .. n - 1 PROVE match[c[i]] # time
      <4>1. i \in 1 .. n /\ i + 1 \in 1 .. n
        BY <1>1
      <4>. QED BY <1>1, <1>2, <4>1
    <3>. QED BY <3>1
  <2>. QED BY <1>1, <1>2, <2>1 DEF Covers
<1>3. ASSUME NEW i \in 1 .. n, x = q[i], \A j \in 1 .. n : j < i => match[q[j]] # time
      PROVE  Covers(match, c, time, x)
  <2>1. i # k
    BY <1>3
  <2>2. PICK a : a = IF i < k THEN i ELSE i - 1
    OBVIOUS
  <2>. HIDE DEF c, n
  <2>3. a \in 1 .. n - 1 /\ (a < k <=> i < k)
    BY <1>1, <2>1, <2>2
  <2>4. c[a] = q[i]
    <3>1. CASE i < k
      BY <1>1, <2>2, <2>3, <3>1
    <3>2. CASE ~(i < k)
      <4>1. a + 1 = i
        BY <1>1, <2>2, <3>2
      <4>. QED BY <1>1, <2>3, <3>2, <4>1
    <3>. QED BY <3>1, <3>2
  <2>5. ASSUME NEW j \in 1 .. n - 1, j < a PROVE match[c[j]] # time
    <3>1. CASE j < k
      <4>1. j \in 1 .. n /\ j < i
        BY <1>1, <2>2, <2>5
      <4>. QED BY <1>1, <1>3, <3>1, <4>1
    <3>2. CASE ~(j < k)
      <4> DEFINE b == j + 1
      <4>1. b \in 1 .. n /\ b < i
        BY <1>1, <2>2, <2>5, <3>2
      <4>2. c[j] = q[b]
        BY <1>1, <3>2
      <4>. HIDE DEF b
      <4>. QED BY <1>3, <4>1, <4>2
    <3>. QED BY <3>1, <3>2
  <2>6. x = c[a] /\ a \in 1 .. Len(c) /\ \A j \in 1 .. Len(c) : j < a => match[c[j]] # time
    BY <1>1, <1>3, <2>3, <2>4, <2>5
  <2>. QED BY <2>6 DEF Covers
<1>. QED BY <1>2, <1>3 DEF Covers

(* The walk takes the k-th timer off its row, and goes on behind it.       *)
LEMMA CoversFire ==
  ASSUME NEW match, NEW next, NEW q, NEW k \in 1 .. Len(q), NEW time,
         Chain(q, next), Covers(match, q, time, q[k])
  PROVE  Covers(match, Cut(q, k), time, next[q[k]])
<1> DEFINE c == Cut(q, k)
           n == Len(q)
<1>1. /\ n \in Nat /\ Len(c) = n - 1 /\ k \in 1 .. n
      /\ \A i \in 1 .. n - 1 : c[i] = IF i < k THEN q[i] ELSE q[i + 1]
  BY CutRow DEF Chain
<1>2. /\ \A i, j \in 1 .. n : q[i] = q[j] => i = j
      /\ \A i \in 1 .. n : next[q[i]] = IF i = n THEN NULL ELSE q[i + 1]
      /\ \A i \in 1 .. n : q[i] # NULL
  BY Sizes DEF Chain
<1>3. \A j \in 1 .. n : j < k => match[q[j]] # time
  <2>1. PICK i \in 1 .. n : q[k] = q[i] /\ \A j \in 1 .. n : j < i => match[q[j]] # time
    BY <1>2 DEF Covers
  <2>. QED BY <1>2, <2>1
<1> HIDE DEF c, n
<1>4. \A j \in 1 .. n - 1 : j < k => match[c[j]] # time
  <2>1. ASSUME NEW j \in 1 .. n - 1, j < k PROVE match[c[j]] # time
    <3>1. j \in 1 .. n
      BY <1>1
    <3>. QED BY <1>1, <1>3, <2>1, <3>1
  <2>. QED BY <2>1
<1>5. CASE k = n
  <2>1. next[q[k]] = NULL
    BY <1>1, <1>2, <1>5
  <2>2. \A j \in 1 .. n - 1 : j < k
    BY <1>1, <1>5
  <2>. QED BY <1>1, <1>4, <2>1, <2>2 DEF Covers, c
<1>6. CASE k # n
  <2>1. k \in 1 .. n - 1 /\ ~(k < k)
    BY <1>1, <1>6
  <2>2. next[q[k]] = c[k]
    BY <1>1, <1>2, <1>6, <2>1
  <2>. QED BY <1>1, <1>4, <2>1, <2>2 DEF Covers, c
<1>. QED BY <1>5, <1>6

(* The walk passes by a timer that is not due.                             *)
LEMMA CoversSkip ==
  ASSUME NEW match, NEW next, NEW q, NEW x, x # NULL, NEW time,
         Chain(q, next), Covers(match, q, time, x), match[x] # time
  PROVE  Covers(match, q, time, next[x])
<1>1. PICK k \in 1 .. Len(q) : x = q[k] /\ \A j \in 1 .. Len(q) : j < k => match[q[j]] # time
  BY DEF Covers
<1>2. Len(q) \in Nat /\ next[q[k]] = IF k = Len(q) THEN NULL ELSE q[k + 1]
  BY DEF Chain
<1>3. CASE k = Len(q)
  <2>1. \A j \in 1 .. Len(q) : j < k \/ j = k
    BY <1>2, <1>3
  <2>. QED BY <1>1, <1>2, <1>3, <2>1 DEF Covers
<1>4. CASE k # Len(q)
  <2>1. k + 1 \in 1 .. Len(q) /\ \A j \in 1 .. Len(q) : j < k + 1 => j < k \/ j = k
    BY <1>2, <1>4
  <2>. QED BY <1>1, <1>2, <1>4, <2>1 DEF Covers
<1>. QED BY <1>3, <1>4

(* A timer that is not due may join the spoke of the walk.                 *)
LEMMA CoversPush ==
  ASSUME NEW match, NEW match2, NEW q \in Seq(Timers), NEW p \in Timers, NEW time, NEW x,
         Covers(match, q, time, x), match2[p] # time,
         \A i \in 1 .. Len(q) : match2[q[i]] = match[q[i]]
  PROVE  Covers(match2, Push(p, q), time, x)
<1> DEFINE c == Push(p, q)
           n == Len(q)
<1>1. /\ n \in Nat /\ Len(c) = n + 1
      /\ \A i \in 1 .. n + 1 : c[i] = IF i = 1 THEN p ELSE q[i - 1]
  BY PushRow
<1>2. CASE x = NULL /\ \A i \in 1 .. n : match[q[i]] # time
  <2>1. ASSUME NEW i \in 1 .. n + 1 PROVE match2[c[i]] # time
    <3> HIDE DEF c, n
    <3>1. CASE i = 1
      <4>1. c[i] = p
        BY <1>1, <3>1
      <4>. QED BY <4>1
    <3>2. CASE i # 1
      <4>1. i - 1 \in 1 .. n
        BY <1>1, <3>2
      <4>2. c[i] = q[i - 1]
        BY <1>1, <3>2
      <4>3. match2[q[i - 1]] = match[q[i - 1]] /\ match[q[i - 1]] # time
        BY <1>2, <4>1 DEF n
      <4>. QED BY <4>2, <4>3
    <3>. QED BY <3>1, <3>2
  <2>. QED BY <1>1, <1>2, <2>1 DEF Covers
<1>3. ASSUME NEW i \in 1 .. n, x = q[i], \A j \in 1 .. n : j < i => match[q[j]] # time
      PROVE  Covers(match2, c, time, x)
  <2> DEFINE a == i + 1
  <2>. HIDE DEF c, n
  <2>1. a \in 1 .. n + 1 /\ c[a] = q[i]
    <3>1. a \in 1 .. n + 1 /\ a # 1 /\ a - 1 = i
      BY <1>1
    <3>2. c[a] = q[a - 1]
      BY <1>1, <3>1
    <3>. QED BY <3>1, <3>2
  <2>2. ASSUME NEW j \in 1 .. n + 1, j < a PROVE match2[c[j]] # time
    <3>1. CASE j = 1
      BY <1>1, <3>1
    <3>2. CASE j # 1
      <4> DEFINE b == j - 1
      <4>1. b \in 1 .. n /\ b < i /\ c[j] = q[b]
        BY <1>1, <2>2, <3>2
      <4>. HIDE DEF b
      <4>2. match2[q[b]] = match[q[b]]
        BY <4>1 DEF n
      <4>. QED BY <1>3, <4>1, <4>2
    <3>. QED BY <3>1, <3>2
  <2>. HIDE DEF a
  <2>. QED BY <1>1, <1>3, <2>1, <2>2 DEF Covers
<1>. QED BY <1>2, <1>3 DEF Covers

(* Nothing changes when the members keep their match values.               *)
LEMMA CoversStays ==
  ASSUME NEW match, NEW match2, NEW q, NEW time, NEW x, Covers(match, q, time, x),
         \A i \in 1 .. Len(q) : match2[q[i]] = match[q[i]]
  PROVE  Covers(match2, q, time, x)
  BY DEF Covers

(* The members of the shorter and of the longer row.                       *)
LEMMA MembersCut ==
  ASSUME NEW q, NEW next, Chain(q, next), NEW k \in 1 .. Len(q)
  PROVE  Members(Cut(q, k)) = Members(q) \ {q[k]}
<1> DEFINE c == Cut(q, k)
           n == Len(q)
<1>1. /\ n \in Nat /\ Len(c) = n - 1 /\ k \in 1 .. n
      /\ \A i \in 1 .. n - 1 : c[i] = IF i < k THEN q[i] ELSE q[i + 1]
      /\ \A i, j \in 1 .. n : q[i] = q[j] => i = j
  BY CutRow DEF Chain
<1> HIDE DEF c, n
<1>2. ASSUME NEW i \in 1 .. n - 1 PROVE \E j \in 1 .. n : c[i] = q[j] /\ j # k
  <2>1. CASE i < k
    BY <1>1, <2>1
  <2>2. CASE ~(i < k)
    <3>1. i + 1 \in 1 .. n /\ i + 1 # k
      BY <1>1, <2>2
    <3>. QED BY <1>1, <2>2, <3>1
  <2>. QED BY <2>1, <2>2
<1>3. ASSUME NEW j \in 1 .. n, j # k PROVE \E i \in 1 .. n - 1 : c[i] = q[j]
  <2>1. CASE j < k
    <3>1. j \in 1 .. n - 1
      BY <1>1, <2>1
    <3>. QED BY <1>1, <2>1, <3>1
  <2>2. CASE ~(j < k)
    <3>1. j - 1 \in 1 .. n - 1 /\ ~(j - 1 < k) /\ j - 1 + 1 = j
      BY <1>1, <1>3, <2>2
    <3>. QED BY <1>1, <3>1
  <2>. QED BY <2>1, <2>2
<1>4. Members(c) = {c[i] : i \in 1 .. n - 1} /\ Members(q) = {q[i] : i \in 1 .. n}
  BY <1>1 DEF Members, n
<1>5. \A i \in 1 .. n - 1 : \E j \in 1 .. n : c[i] = q[j] /\ q[j] # q[k]
  BY <1>1, <1>2
<1>6. \A j \in 1 .. n : q[j] # q[k] => \E i \in 1 .. n - 1 : c[i] = q[j]
  BY <1>3
<1>7. ASSUME NEW x \in Members(c) PROVE x \in Members(q) \ {q[k]}
  BY <1>4, <1>5
<1>8. ASSUME NEW x \in Members(q) \ {q[k]} PROVE x \in Members(c)
  BY <1>4, <1>6
<1>. QED BY <1>7, <1>8 DEF c

LEMMA MembersPush ==
  ASSUME NEW q \in Seq(Timers), NEW p \in Timers
  PROVE  Members(Push(p, q)) = Members(q) \cup {p}
<1> DEFINE c == Push(p, q)
           n == Len(q)
<1>1. /\ n \in Nat /\ Len(c) = n + 1
      /\ \A i \in 1 .. n + 1 : c[i] = IF i = 1 THEN p ELSE q[i - 1]
  BY PushRow
<1> HIDE DEF c, n
<1>2. \A i \in 1 .. n + 1 : i # 1 => i - 1 \in 1 .. n
  BY <1>1
<1>3. ASSUME NEW j \in 1 .. n PROVE j + 1 \in 1 .. n + 1 /\ c[j + 1] = q[j]
  <2>1. j + 1 \in 1 .. n + 1 /\ j + 1 # 1 /\ j + 1 - 1 = j
    BY <1>1
  <2>. QED BY <1>1, <2>1
<1>4. Members(c) = {c[i] : i \in 1 .. n + 1} /\ Members(q) = {q[i] : i \in 1 .. n}
  BY <1>1 DEF Members, n
<1>5. 1 \in 1 .. n + 1 /\ c[1] = p
  BY <1>1
<1>6. \A i \in 1 .. n + 1 : c[i] = p \/ \E j \in 1 .. n : c[i] = q[j]
  BY <1>1, <1>2
<1>7. \A j \in 1 .. n : \E i \in 1 .. n + 1 : c[i] = q[j]
  BY <1>3
<1>. QED BY <1>4, <1>5, <1>6, <1>7 DEF c

(* With the free list beside it, the wheel loses a running timer.          *)
LEMMA ShapeUnlink ==
  ASSUME NEW l, NEW rows, NEW F, NEW free, NEW running, NEW unused,
         Shape(l, rows, F, free, running, unused), NEW s \in Spokes, NEW k \in 1 .. Len(rows[s])
  PROVE  Shape(OSTmr_Unlink(l, rows[s][k]), [rows EXCEPT ![s] = Cut(rows[s], k)], F, free,
               running \ {rows[s][k]}, unused)
<1> DEFINE q == rows[s]
           p == q[k]
           m == OSTmr_Unlink(l, p)
           new == [rows EXCEPT ![s] = Cut(q, k)]
<1>1. /\ Wheel(l, rows) /\ rows \in [Spokes -> Seq(Timers)]
      /\ running = {x \in Timers : \E r \in Spokes : x \in Members(rows[r])}
      /\ Chain(F, l.next) /\ free = HeadOf(F) /\ unused = Members(F) /\ running \cap unused = {}
  BY DEF Shape, Wheel
<1>2. /\ Wheel(m, new)
      /\ \A x \in Timers : (\A i \in 1 .. Len(q) : q[i] # x) => m.next[x] = l.next[x]
  <2>1. Wheel(l, rows)
    BY <1>1
  <2>2. CutOff(l, m, rows, s, k)
    BY <2>1, UnlinkWheel
  <2>. HIDE DEF m
  <2>. QED BY <2>2 DEF CutOff
<1>3. Chain(q, l.next) /\ q \in Seq(Timers)
  BY <1>1 DEF Wheel, SpokeRow
<1>4. Members(Cut(q, k)) = Members(q) \ {p}
  <2>1. PICK next : next = l.next
    OBVIOUS
  <2>2. Chain(q, next)
    BY <1>3, <2>1
  <2>. HIDE DEF q
  <2>. QED BY <2>2, MembersCut DEF q
<1>5. \A r \in Spokes : r # s => p \notin Members(rows[r])
  BY <1>1, RowsApart DEF Members
<1>. HIDE DEF m, p, q
<1>6. \A r \in Spokes : Members(new[r]) = Members(rows[r]) \ {p}
  <2>1. \A r \in Spokes : new[r] = IF r = s THEN Cut(q, k) ELSE rows[r]
    BY <1>1
  <2>. HIDE DEF new
  <2>. QED BY <1>4, <1>5, <2>1 DEF q
<1>7. running \ {p} = {x \in Timers : \E r \in Spokes : x \in Members(new[r])}
  <2>. HIDE DEF new
  <2>. QED BY <1>1, <1>6
<1>8. ASSUME NEW i \in 1 .. Len(F) PROVE m.next[F[i]] = l.next[F[i]]
  <2>1. F[i] \in Timers /\ F[i] \in unused
    BY <1>1 DEF Chain, Members
  <2>2. \A j \in 1 .. Len(q) : q[j] \in running
    BY <1>1, <1>3 DEF Members, q
  <2>3. \A j \in 1 .. Len(q) : q[j] # F[i]
    BY <1>1, <2>1, <2>2
  <2>. QED BY <1>2, <2>1, <2>3
<1>9. Chain(F, m.next)
  <2>1. /\ F \in Seq(Timers)
        /\ \A i, j \in 1 .. Len(F) : F[i] = F[j] => i = j
        /\ \A i \in 1 .. Len(F) : l.next[F[i]] = IF i = Len(F) THEN NULL ELSE F[i + 1]
    BY <1>1 DEF Chain
  <2>. QED BY <1>8, <2>1 DEF Chain
<1>. HIDE DEF new
<1>10. Shape(m, new, F, free, running \ {p}, unused)
  BY <1>1, <1>2, <1>7, <1>9 DEF Shape
<1>. QED BY <1>10 DEF new, m, p, q

(* With the free list beside it, the wheel gains one.                      *)
LEMMA ShapeLink ==
  ASSUME NEW l, NEW m, NEW rows, NEW F, NEW free, NEW running, NEW unused,
         Shape(l, rows, F, free, running, unused), NEW p \in Timers, NEW d, NEW s,
         LinkedTo(l, m, p, d, s), s = Spoke(d), p \notin running \cup unused
  PROVE  Shape(m, [rows EXCEPT ![s] = Push(p, rows[s])], F, free, running \cup {p}, unused)
<1> DEFINE new == [rows EXCEPT ![s] = Push(p, rows[s])]
<1>1. /\ Wheel(l, rows) /\ rows \in [Spokes -> Seq(Timers)] /\ s \in Spokes
      /\ running = {x \in Timers : \E r \in Spokes : x \in Members(rows[r])}
      /\ Chain(F, l.next) /\ free = HeadOf(F) /\ unused = Members(F) /\ running \cap unused = {}
      /\ rows[s] \in Seq(Timers)
  BY DEF Shape, Wheel, LinkedTo
<1>2. Wheel(m, new)
  <2>1. \A r \in Spokes : p \notin Members(rows[r])
    BY <1>1
  <2>. QED BY <1>1, <2>1, LinkWheel
<1>3. \A r \in Spokes : Members(new[r]) = Members(rows[r]) \cup (IF r = s THEN {p} ELSE {})
  <2>1. Members(Push(p, rows[s])) = Members(rows[s]) \cup {p}
    BY <1>1, MembersPush
  <2>2. \A r \in Spokes : new[r] = IF r = s THEN Push(p, rows[s]) ELSE rows[r]
    BY <1>1
  <2>. HIDE DEF new
  <2>. QED BY <2>1, <2>2
<1>4. running \cup {p} = {x \in Timers : \E r \in Spokes : x \in Members(new[r])}
  <2>. HIDE DEF new
  <2>. QED BY <1>1, <1>3
<1>5. Chain(F, m.next)
  <2>1. /\ F \in Seq(Timers)
        /\ \A i, j \in 1 .. Len(F) : F[i] = F[j] => i = j
        /\ \A i \in 1 .. Len(F) : l.next[F[i]] = IF i = Len(F) THEN NULL ELSE F[i + 1]
    BY <1>1 DEF Chain
  <2>2. m.next = [x \in Timers |-> IF x = p THEN l.first[s] ELSE l.next[x]]
    BY DEF LinkedTo
  <2>3. \A i \in 1 .. Len(F) : F[i] \in Timers /\ F[i] # p
    BY <1>1, <2>1 DEF Members
  <2>4. \A i \in 1 .. Len(F) : m.next[F[i]] = l.next[F[i]]
    BY <2>2, <2>3
  <2>. QED BY <2>1, <2>4 DEF Chain
<1>. HIDE DEF new
<1>6. Shape(m, new, F, free, running \cup {p}, unused)
  BY <1>1, <1>2, <1>4, <1>5 DEF Shape
<1>. QED BY <1>6 DEF new
-----------------------------------------------------------------------------
(* What a service does to a wheel with rows, without the rows.             *)
LEMMA WellTyped ==
  ASSUME NEW l, NEW free, NEW running, NEW unused, NEW time, NEW x,
         Well(l, free, running, unused, time, x)
  PROVE  /\ l \in ListsType /\ l.fault = FALSE /\ free \in Ptr
         /\ running \subseteq Timers /\ unused \subseteq Timers /\ running \cap unused = {}
         /\ free = NULL <=> unused = {}
         /\ free # NULL => free \in unused
<1>1. PICK rows \in [Spokes -> Seq(Timers)], F \in Seq(Timers) : Shape(l, rows, F, free, running, unused)
  BY DEF Well
<1>2. /\ l \in ListsType /\ l.fault = FALSE /\ free = HeadOf(F) /\ unused = Members(F)
      /\ running \subseteq Timers /\ running \cap unused = {}
  BY <1>1 DEF Shape, Wheel
<1>3. CASE Len(F) = 0
  BY <1>2, <1>3 DEF HeadOf, Members, Ptr
<1>4. CASE Len(F) # 0
  <2>1. 1 \in 1 .. Len(F) /\ \A i \in 1 .. Len(F) : F[i] \in Timers
    BY <1>4
  <2>2. free = F[1] /\ free \in Timers /\ free \in unused /\ unused \subseteq Timers
    BY <1>2, <1>4, <2>1 DEF HeadOf, Members
  <2>. QED BY <1>2, <2>2, Sizes DEF Ptr
<1>. QED BY <1>3, <1>4

(* OSTmrFreeList is an unused timer, or null.                              *)
LEMMA FreeIsUnused ==
  ASSUME NEW l, NEW free, NEW running, NEW unused, NEW time, NEW x,
         Well(l, free, running, unused, time, x), free # NULL
  PROVE  free \in unused
<1>1. PICK rows \in [Spokes -> Seq(Timers)], F \in Seq(Timers) : Shape(l, rows, F, free, running, unused)
  BY DEF Well
<1>2. free = HeadOf(F) /\ unused = Members(F)
  BY <1>1 DEF Shape
<1>3. Len(F) # 0 /\ 1 \in 1 .. Len(F)
  BY <1>2 DEF HeadOf
<1>. QED BY <1>2, <1>3 DEF HeadOf, Members

(* A running timer stops, other than the one the walk looks at.            *)
LEMMA WellUnlink ==
  ASSUME NEW l, NEW free, NEW running, NEW unused, NEW time, NEW x,
         Well(l, free, running, unused, time, x), NEW p \in running, x # p
  PROVE  Well(OSTmr_Unlink(l, p), free, running \ {p}, unused, time, x)
<1>1. PICK rows \in [Spokes -> Seq(Timers)], F \in Seq(Timers) :
        /\ Shape(l, rows, F, free, running, unused)
        /\ Covers(l.match, rows[Spoke(time)], time, x)
  BY DEF Well
<1>2. PICK s \in Spokes : p \in Members(rows[s])
  BY <1>1 DEF Shape
<1>3. PICK k \in 1 .. Len(rows[s]) : p = rows[s][k]
  BY <1>2 DEF Members
<1> DEFINE m == OSTmr_Unlink(l, p)
           new == [rows EXCEPT ![s] = Cut(rows[s], k)]
<1>4. Shape(m, new, F, free, running \ {p}, unused)
  BY <1>1, <1>3, ShapeUnlink
<1>5. m.match = l.match
  <2>1. Wheel(l, rows)
    BY <1>1 DEF Shape
  <2>2. CutOff(l, m, rows, s, k)
    BY <1>3, <2>1, UnlinkWheel
  <2>. HIDE DEF m
  <2>. QED BY <2>2 DEF CutOff
<1>6. rows[s] \in Seq(Timers) /\ Cut(rows[s], k) \in Seq(Timers) /\ new \in [Spokes -> Seq(Timers)]
  <2>1. rows[s] \in Seq(Timers)
    OBVIOUS
  <2>2. Cut(rows[s], k) \in Seq(Timers)
    BY <2>1, CutRow
  <2>. QED BY <2>1, <2>2
<1>7. Covers(m.match, new[Spoke(time)], time, x)
  <2>1. CASE Spoke(time) = s
    <3>1. new[Spoke(time)] = Cut(rows[s], k)
      BY <2>1
    <3>2. PICK match : match = l.match
      OBVIOUS
    <3>3. Covers(match, rows[s], time, x) /\ x # rows[s][k]
      BY <1>1, <1>3, <2>1, <3>2
    <3>4. Covers(match, Cut(rows[s], k), time, x)
      BY <1>6, <3>3, CoversCut
    <3>. HIDE DEF m, new
    <3>. QED BY <1>5, <3>1, <3>2, <3>4
  <2>2. CASE Spoke(time) # s
    <3>1. new[Spoke(time)] = rows[Spoke(time)]
      BY <2>2
    <3>. HIDE DEF m, new
    <3>. QED BY <1>1, <1>5, <3>1
  <2>. QED BY <2>1, <2>2
<1>. HIDE DEF m, new
<1>8. Well(m, free, running \ {p}, unused, time, x)
  BY <1>4, <1>6, <1>7 DEF Well
<1>. QED BY <1>8 DEF m

(* The walk unlinks the timer it looks at and goes on with the next.       *)
LEMMA WellFire ==
  ASSUME NEW l, NEW free, NEW running, NEW unused, NEW time \in Ticks, NEW p \in Timers,
         Well(l, free, running, unused, time, p)
  PROVE  p \in running /\ Well(OSTmr_Unlink(l, p), free, running \ {p}, unused, time, l.next[p])
<1> DEFINE s == Spoke(time)
<1>1. PICK rows \in [Spokes -> Seq(Timers)], F \in Seq(Timers) :
        /\ Shape(l, rows, F, free, running, unused)
        /\ Covers(l.match, rows[s], time, p)
  BY DEF Well
<1>2. s \in Spokes
  BY SpokeTyped
<1>3. PICK k \in 1 .. Len(rows[s]) : p = rows[s][k]
  BY <1>1, Sizes DEF Covers
<1>. HIDE DEF s
<1> DEFINE m == OSTmr_Unlink(l, p)
           new == [rows EXCEPT ![s] = Cut(rows[s], k)]
<1>4. p \in running
  BY <1>1, <1>2, <1>3 DEF Shape, Members
<1>5. Shape(m, new, F, free, running \ {p}, unused)
  BY <1>1, <1>2, <1>3, ShapeUnlink
<1>6. m.match = l.match /\ Chain(rows[s], l.next)
  <2>1. Wheel(l, rows)
    BY <1>1 DEF Shape
  <2>2. CutOff(l, m, rows, s, k)
    BY <1>2, <1>3, <2>1, UnlinkWheel
  <2>3. Chain(rows[s], l.next)
    BY <1>2, <2>1 DEF Wheel, SpokeRow
  <2>. HIDE DEF m
  <2>. QED BY <2>2, <2>3 DEF CutOff
<1>7. rows[s] \in Seq(Timers) /\ new \in [Spokes -> Seq(Timers)]
  <2>1. rows[s] \in Seq(Timers)
    BY <1>2
  <2>2. Cut(rows[s], k) \in Seq(Timers)
    BY <2>1, CutRow
  <2>. QED BY <2>1, <2>2
<1>8. Covers(m.match, new[s], time, l.next[p])
  <2>1. new[s] = Cut(rows[s], k)
    BY <1>2
  <2>2. PICK match : match = l.match
    OBVIOUS
  <2>3. PICK next : next = l.next
    OBVIOUS
  <2>4. Covers(match, rows[s], time, rows[s][k]) /\ Chain(rows[s], next)
    BY <1>1, <1>3, <1>6, <2>2, <2>3
  <2>5. Covers(match, Cut(rows[s], k), time, next[rows[s][k]])
    BY <2>4, CoversFire
  <2>. HIDE DEF m, new
  <2>. QED BY <1>3, <1>6, <2>1, <2>2, <2>3, <2>5
<1>. HIDE DEF m, new
<1>9. Well(m, free, running \ {p}, unused, time, l.next[p])
  BY <1>5, <1>7, <1>8 DEF Well, s
<1>. QED BY <1>4, <1>9 DEF m

(* The walk leaves a timer that is not due.                                *)
LEMMA WellSkip ==
  ASSUME NEW l, NEW free, NEW running, NEW unused, NEW time \in Ticks, NEW p \in Timers,
         Well(l, free, running, unused, time, p), l.match[p] # time
  PROVE  Well(l, free, running, unused, time, l.next[p])
<1>1. PICK rows \in [Spokes -> Seq(Timers)], F \in Seq(Timers) :
        /\ Shape(l, rows, F, free, running, unused)
        /\ Covers(l.match, rows[Spoke(time)], time, p)
  BY DEF Well
<1>2. Chain(rows[Spoke(time)], l.next)
  BY <1>1, SpokeTyped DEF Shape, Wheel, SpokeRow
<1>3. PICK match : match = l.match
  OBVIOUS
<1>4. PICK next : next = l.next
  OBVIOUS
<1>5. PICK q : q = rows[Spoke(time)]
  OBVIOUS
<1>6. Chain(q, next) /\ Covers(match, q, time, p) /\ match[p] # time /\ p # NULL
  BY <1>1, <1>2, <1>3, <1>4, <1>5, Sizes
<1>7. Covers(match, q, time, next[p])
  BY <1>6, CoversSkip
<1>. QED BY <1>1, <1>3, <1>4, <1>5, <1>7 DEF Well

(* The walk begins at the spoke of the time that comes next.               *)
LEMMA WellTick ==
  ASSUME NEW l, NEW free, NEW running, NEW unused, NEW time, NEW x, NEW time2 \in Ticks,
         Well(l, free, running, unused, time, x)
  PROVE  Well(l, free, running, unused, time2, l.first[Spoke(time2)])
<1>1. PICK rows \in [Spokes -> Seq(Timers)], F \in Seq(Timers) :
        Shape(l, rows, F, free, running, unused)
  BY DEF Well
<1> DEFINE q == rows[Spoke(time2)]
<1>2. l.first[Spoke(time2)] = HeadOf(q) /\ q \in Seq(Timers)
  BY <1>1, SpokeTyped DEF Shape, Wheel, SpokeRow
<1>. HIDE DEF q
<1>3. Covers(l.match, q, time2, HeadOf(q))
  <2>1. CASE Len(q) = 0
    BY <2>1 DEF Covers, HeadOf
  <2>2. CASE Len(q) # 0
    <3>1. 1 \in 1 .. Len(q) /\ \A j \in 1 .. Len(q) : ~(j < 1)
      BY <1>2, <2>2
    <3>. QED BY <2>2, <3>1 DEF Covers, HeadOf
  <2>. QED BY <2>1, <2>2
<1>. QED BY <1>1, <1>2, <1>3 DEF Well, q

(* A timer that is not due at this tick starts.                            *)
LEMMA WellLink ==
  ASSUME NEW l, NEW free, NEW running, NEW unused, NEW time \in Ticks, NEW x,
         Well(l, free, running, unused, time, x),
         NEW p \in Timers, p \notin running \cup unused, NEW m, NEW d, d # time,
         LinkedTo(l, m, p, d, Spoke(d))
  PROVE  Well(m, free, running \cup {p}, unused, time, x)
<1>1. PICK rows \in [Spokes -> Seq(Timers)], F \in Seq(Timers) :
        /\ Shape(l, rows, F, free, running, unused)
        /\ Covers(l.match, rows[Spoke(time)], time, x)
  BY DEF Well
<1>2. PICK s : s = Spoke(d)
  OBVIOUS
<1> DEFINE new == [rows EXCEPT ![s] = Push(p, rows[s])]
<1>3. Shape(m, new, F, free, running \cup {p}, unused)
  BY <1>1, <1>2, ShapeLink
<1>4. /\ s \in Spokes /\ m.match = [y \in Timers |-> IF y = p THEN d ELSE l.match[y]]
  BY <1>2 DEF LinkedTo
<1>5. rows[s] \in Seq(Timers) /\ new \in [Spokes -> Seq(Timers)]
  <2>1. rows[s] \in Seq(Timers)
    BY <1>4
  <2>2. Push(p, rows[s]) \in Seq(Timers)
    BY <2>1, PushRow
  <2>. QED BY <2>1, <2>2
<1>6. \A r \in Spokes : \A i \in 1 .. Len(rows[r]) : m.match[rows[r][i]] = l.match[rows[r][i]]
  <2>1. \A r \in Spokes : \A i \in 1 .. Len(rows[r]) : rows[r][i] \in Timers /\ rows[r][i] # p
    BY <1>1 DEF Shape, Members
  <2>. QED BY <1>4, <2>1
<1>7. Covers(m.match, new[Spoke(time)], time, x)
  <2>1. PICK match : match = l.match
    OBVIOUS
  <2>2. PICK match2 : match2 = m.match
    OBVIOUS
  <2>3. PICK r \in Spokes : r = Spoke(time)
    BY SpokeTyped
  <2>4. /\ Covers(match, rows[r], time, x) /\ match2[p] # time
        /\ \A i \in 1 .. Len(rows[r]) : match2[rows[r][i]] = match[rows[r][i]]
    BY <1>1, <1>4, <1>6, <2>1, <2>2, <2>3
  <2>5. CASE r = s
    <3>1. Covers(match2, Push(p, rows[s]), time, x)
      BY <1>5, <2>4, <2>5, CoversPush
    <3>2. new[r] = Push(p, rows[s])
      BY <2>5
    <3>. HIDE DEF new
    <3>. QED BY <2>2, <2>3, <3>1, <3>2
  <2>6. CASE r # s
    <3>1. Covers(match2, rows[r], time, x)
      BY <2>4, CoversStays
    <3>2. new[r] = rows[r]
      BY <2>6
    <3>. HIDE DEF new
    <3>. QED BY <2>2, <2>3, <3>1, <3>2
  <2>. QED BY <2>5, <2>6
<1>. HIDE DEF new
<1>. QED BY <1>3, <1>5, <1>7 DEF Well

(* The lists l and m differ in the links and the match value of p only.    *)
Aside(l, m, p) ==
  /\ m \in ListsType
  /\ m.first = l.first /\ m.entries = l.entries /\ m.fault = l.fault
  /\ \A q \in Timers \ {p} : m.next[q] = l.next[q] /\ m.prev[q] = l.prev[q] /\ m.match[q] = l.match[q]

(* The wheel does not change with a timer that is on no spoke.             *)
LEMMA WheelAside ==
  ASSUME NEW l, NEW m, NEW p, NEW rows, Wheel(l, rows), Aside(l, m, p),
         \A s \in Spokes : p \notin Members(rows[s])
  PROVE  /\ Wheel(m, rows)
         /\ \A s \in Spokes : \A i \in 1 .. Len(rows[s]) : m.match[rows[s][i]] = l.match[rows[s][i]]
<1>1. ASSUME NEW s \in Spokes, NEW i \in 1 .. Len(rows[s])
      PROVE  /\ m.next[rows[s][i]] = l.next[rows[s][i]] /\ m.prev[rows[s][i]] = l.prev[rows[s][i]]
             /\ m.match[rows[s][i]] = l.match[rows[s][i]]
  <2>1. rows[s][i] \in Timers \ {p}
    BY DEF Wheel, Members
  <2>. QED BY <2>1 DEF Aside
<1>2. ASSUME NEW s \in Spokes PROVE SpokeRow(m, rows[s], s)
  BY <1>1, RowStays DEF Wheel, Aside
<1>. QED BY <1>1, <1>2 DEF Wheel, Aside

(* OSTmr_Free() puts a timer before the free list.                         *)
LEMMA WellFree ==
  ASSUME NEW l, NEW free, NEW running, NEW unused, NEW time \in Ticks, NEW x,
         Well(l, free, running, unused, time, x),
         NEW p \in Timers, p \notin running \cup unused, NEW m, Aside(l, m, p), m.next[p] = free
  PROVE  Well(m, p, running, unused \cup {p}, time, x)
<1>1. PICK rows \in [Spokes -> Seq(Timers)], F \in Seq(Timers) :
        /\ Shape(l, rows, F, free, running, unused)
        /\ Covers(l.match, rows[Spoke(time)], time, x)
  BY DEF Well
<1>2. /\ Wheel(l, rows) /\ running = {y \in Timers : \E s \in Spokes : y \in Members(rows[s])}
      /\ Chain(F, l.next) /\ free = HeadOf(F)
      /\ unused = Members(F) /\ running \cap unused = {}
  BY <1>1 DEF Shape
<1>3. /\ Wheel(m, rows)
      /\ \A s \in Spokes : \A i \in 1 .. Len(rows[s]) : m.match[rows[s][i]] = l.match[rows[s][i]]
  BY <1>2, WheelAside
<1>4. Chain(Push(p, F), m.next)
  <2>1. PICK next : next = l.next
    OBVIOUS
  <2>2. PICK next2 : next2 = m.next
    OBVIOUS
  <2>3. \A i \in 1 .. Len(F) : F[i] \in Timers /\ F[i] # p
    BY <1>2 DEF Members
  <2>4. /\ Chain(F, next) /\ p \notin Members(F) /\ next2[p] = HeadOf(F)
        /\ \A i \in 1 .. Len(F) : next2[F[i]] = next[F[i]]
    BY <1>2, <2>1, <2>2, <2>3 DEF Aside
  <2>5. Chain(Push(p, F), next2)
    BY <2>4, PushChain
  <2>. QED BY <2>2, <2>5
<1>5. HeadOf(Push(p, F)) = p /\ Members(Push(p, F)) = unused \cup {p} /\ Push(p, F) \in Seq(Timers)
  <2>1. /\ Push(p, F) \in Seq(Timers) /\ Len(Push(p, F)) = Len(F) + 1 /\ Len(F) \in Nat
        /\ \A i \in 1 .. Len(F) + 1 : Push(p, F)[i] = IF i = 1 THEN p ELSE F[i - 1]
    BY PushRow
  <2>2. Push(p, F)[1] = p /\ Len(Push(p, F)) # 0
    BY <2>1
  <2>. QED BY <1>2, <2>1, <2>2, MembersPush DEF HeadOf
<1>6. Shape(m, rows, Push(p, F), p, running, unused \cup {p})
  <2>1. running \cap (unused \cup {p}) = {}
    BY <1>2
  <2>. QED BY <1>2, <1>3, <1>4, <1>5, <2>1 DEF Shape
<1>7. Covers(m.match, rows[Spoke(time)], time, x)
  BY <1>1, <1>3, SpokeTyped, CoversStays
<1>. QED BY <1>5, <1>6, <1>7 DEF Well

(* OSTmr_Alloc() takes the head of the free list.                          *)
LEMMA WellTake ==
  ASSUME NEW l, NEW free, NEW running, NEW unused, NEW time \in Ticks, NEW x,
         Well(l, free, running, unused, time, x), free # NULL, NEW m, Aside(l, m, free)
  PROVE  Well(m, l.next[free], running, unused \ {free}, time, x)
<1>1. PICK rows \in [Spokes -> Seq(Timers)], F \in Seq(Timers) :
        /\ Shape(l, rows, F, free, running, unused)
        /\ Covers(l.match, rows[Spoke(time)], time, x)
  BY DEF Well
<1>2. /\ Wheel(l, rows) /\ running = {y \in Timers : \E s \in Spokes : y \in Members(rows[s])}
      /\ Chain(F, l.next) /\ free = HeadOf(F)
      /\ unused = Members(F) /\ running \cap unused = {}
  BY <1>1 DEF Shape
<1>3. Len(F) \in Nat /\ Len(F) # 0 /\ 1 \in 1 .. Len(F) /\ free = F[1] /\ free \in unused
  <2>1. Len(F) # 0 /\ free = F[1]
    BY <1>2 DEF HeadOf
  <2>. QED BY <1>2, <2>1 DEF Members
<1>4. /\ Wheel(m, rows)
      /\ \A s \in Spokes : \A i \in 1 .. Len(rows[s]) : m.match[rows[s][i]] = l.match[rows[s][i]]
  <2>1. \A s \in Spokes : free \notin Members(rows[s])
    <3>1. free \in Timers /\ free \notin running
      BY <1>2, <1>3
    <3>. QED BY <1>2, <3>1
  <2>. QED BY <1>2, <2>1, WheelAside
<1> DEFINE c == Cut(F, 1)
<1>5. Chain(c, m.next)
  <2>1. PICK next : next = l.next
    OBVIOUS
  <2>2. PICK next2 : next2 = m.next
    OBVIOUS
  <2>3. \A i \in 1 .. Len(F) : i # 1 => F[i] \in Timers \ {free}
    BY <1>2, <1>3 DEF Chain
  <2>4. /\ Chain(F, next)
        /\ \A i \in 1 .. Len(F) : i # 1 /\ i + 1 # 1 => next2[F[i]] = next[F[i]]
    BY <1>2, <2>1, <2>2, <2>3 DEF Aside
  <2>5. Chain(c, next2)
    <3>1. Skips(F, 1, next, next2)
      BY <2>4 DEF Skips
    <3>. QED BY <1>3, <2>4, <3>1, CutChain
  <2>. QED BY <2>2, <2>5
<1>6. HeadOf(c) = l.next[free]
  <2>1. l.next[free] = IF Len(F) = 1 THEN NULL ELSE F[1 + 1]
    BY <1>2, <1>3 DEF Chain
  <2>2. /\ Len(c) = Len(F) - 1
        /\ \A i \in 1 .. Len(F) - 1 : c[i] = IF i < 1 THEN F[i] ELSE F[i + 1]
    BY <1>3, CutRow
  <2>. HIDE DEF c
  <2>3. CASE Len(F) = 1
    BY <2>1, <2>2, <2>3 DEF HeadOf
  <2>4. CASE Len(F) # 1
    <3>1. PICK n : n = Len(F) - 1
      OBVIOUS
    <3>2. 1 \in 1 .. n /\ n # 0
      BY <1>3, <2>4, <3>1
    <3>3. ~(1 < 1)
      OBVIOUS
    <3>4. Len(c) = n /\ c[1] = F[1 + 1]
      BY <2>2, <3>1, <3>2, <3>3
    <3>. QED BY <2>1, <2>4, <3>2, <3>4 DEF HeadOf
  <2>. QED BY <2>3, <2>4
<1>7. Members(c) = unused \ {free} /\ c \in Seq(Timers)
  <2>1. PICK next : next = l.next
    OBVIOUS
  <2>2. Chain(F, next)
    BY <1>2, <2>1
  <2>. QED BY <1>2, <1>3, <2>2, MembersCut, CutRow
<1>. HIDE DEF c
<1>8. Shape(m, rows, c, l.next[free], running, unused \ {free})
  <2>1. running \cap (unused \ {free}) = {}
    BY <1>2
  <2>. QED BY <1>2, <1>4, <1>5, <1>6, <1>7, <2>1 DEF Shape
<1>9. Covers(m.match, rows[Spoke(time)], time, x)
  BY <1>1, <1>4, SpokeTyped, CoversStays
<1>. QED BY <1>7, <1>8, <1>9 DEF Well
-----------------------------------------------------------------------------
(* The timers themselves, and where the timer task is.                     *)
Lasts(opt, dly, period) == IF opt = "PERIODIC" THEN period # 0 ELSE dly # 0

Typed ==
  /\ OSTmrState \in [Timers -> States]
  /\ OSTmrOpt \in [Timers -> Opts \cup {"NONE"}]
  /\ OSTmrDly \in [Timers -> Ticks] /\ OSTmrPeriod \in [Timers -> Ticks]
  /\ \A p \in Timers : OSTmrState[p] # "UNUSED" =>
       OSTmrOpt[p] \in Opts /\ Lasts(OSTmrOpt[p], OSTmrDly[p], OSTmrPeriod[p])
  /\ OSTmrTime \in Ticks /\ OSTmrSignalCnt \in Nat
  /\ at \in {"pend", "walk", "callback"} /\ ptmr \in Ptr /\ ptmr_next \in Ptr
  /\ at # "pend" => ptmr # NULL

InState(st) == {p \in Timers : OSTmrState[p] = st}

(* The timer the walk looks at next.                                       *)
Here == CASE at = "walk" -> ptmr [] at = "callback" -> ptmr_next [] OTHER -> NULL

WellPlaced ==
  Well(Lists, OSTmrFreeList, InState("RUNNING"), InState("UNUSED"), OSTmrTime, Here)

IInv == Typed /\ WellPlaced

(* The lists as one record.                                                *)
LEMMA ListsBecome ==
  ASSUME NEW l \in ListsType, BecomeLists(l)
  PROVE  Lists' = l
<1>1. l = [next |-> l.next, prev |-> l.prev, first |-> l.first, entries |-> l.entries,
           match |-> l.match, fault |-> l.fault]
  BY DEF ListsType
<1>. QED BY <1>1 DEF BecomeLists, Lists

LEMMA ListsFields ==
  /\ Lists.next = OSTmrNext /\ Lists.prev = OSTmrPrev /\ Lists.first = OSTmrFirst
  /\ Lists.entries = OSTmrEntries /\ Lists.match = OSTmrMatch /\ Lists.fault = fault
  BY DEF Lists

(* One timer changes its state.                                            *)
LEMMA StateSets ==
  ASSUME NEW p \in Timers, NEW s1 \in States, OSTmrState \in [Timers -> States],
         OSTmrState' = [OSTmrState EXCEPT ![p] = s1]
  PROVE  /\ OSTmrState' \in [Timers -> States]
         /\ InState("RUNNING")' = IF s1 = "RUNNING" THEN InState("RUNNING") \cup {p}
                                                    ELSE InState("RUNNING") \ {p}
         /\ InState("UNUSED")' = IF s1 = "UNUSED" THEN InState("UNUSED") \cup {p}
                                                  ELSE InState("UNUSED") \ {p}
  BY DEF InState

(* OSTmrCreate() takes a timer off the free list.                          *)
LEMMA CreateSafe ==
  ASSUME IInv, NEW set \in Settings, OSTmrCreate(set), UNCHANGED <<clock, task>>
  PROVE  IInv'
<1> DEFINE p == OSTmrFreeList
<1>1. /\ ValidTimes(set) /\ p # NULL /\ Typed /\ WellPlaced
      /\ OSTmrFreeList' = OSTmrNext[p]
      /\ OSTmrNext' = [OSTmrNext EXCEPT ![p] = NULL]
      /\ OSTmrPrev' = [OSTmrPrev EXCEPT ![p] = NULL]
      /\ OSTmrState' = [OSTmrState EXCEPT ![p] = "STOPPED"]
      /\ OSTmrOpt' = [OSTmrOpt EXCEPT ![p] = set.opt]
      /\ OSTmrDly' = [OSTmrDly EXCEPT ![p] = set.dly]
      /\ OSTmrPeriod' = [OSTmrPeriod EXCEPT ![p] = set.period]
      /\ UNCHANGED <<OSTmrFirst, OSTmrEntries, OSTmrMatch, fault>>
  BY DEF OSTmrCreate, IInv
<1>2. Lists \in ListsType /\ p \in InState("UNUSED") /\ p \in Timers
  BY <1>1, WellTyped DEF WellPlaced
<1>3. UNCHANGED <<OSTmrTime, OSTmrSignalCnt, at, ptmr, ptmr_next, Here>>
  BY DEF clock, task, Here
<1>. HIDE DEF p
<1>4. Aside(Lists, Lists', p)
  <2>1. /\ OSTmrNext \in [Timers -> Ptr] /\ OSTmrPrev \in [Timers -> Ptr]
        /\ OSTmrFirst \in [Spokes -> Ptr] /\ OSTmrEntries \in [Spokes -> Nat]
        /\ OSTmrMatch \in [Timers -> Ticks] /\ fault \in BOOLEAN
    BY <1>2, ListsFields DEF ListsType
  <2>2. OSTmrNext' \in [Timers -> Ptr] /\ OSTmrPrev' \in [Timers -> Ptr]
    BY <1>1, <1>2, <2>1 DEF Ptr
  <2>3. Lists' \in ListsType
    BY <1>1, <2>1, <2>2 DEF Lists, ListsType
  <2>4. /\ Lists'.first = Lists.first /\ Lists'.entries = Lists.entries /\ Lists'.fault = Lists.fault
        /\ Lists'.match = Lists.match
    BY <1>1 DEF Lists
  <2>5. ASSUME NEW q \in Timers \ {p}
        PROVE  Lists'.next[q] = Lists.next[q] /\ Lists'.prev[q] = Lists.prev[q]
    <3>1. OSTmrNext'[q] = OSTmrNext[q] /\ OSTmrPrev'[q] = OSTmrPrev[q]
      BY <1>1, <2>1
    <3>. QED BY <3>1 DEF Lists
  <2>. QED BY <2>3, <2>4, <2>5 DEF Aside
<1>5. WellPlaced'
  <2>1. /\ InState("RUNNING")' = InState("RUNNING")
        /\ InState("UNUSED")' = InState("UNUSED") \ {p}
    <3>1. /\ OSTmrState \in [Timers -> States] /\ "STOPPED" \in States
          /\ OSTmrState' = [OSTmrState EXCEPT ![p] = "STOPPED"]
      BY <1>1 DEF Typed, States
    <3>2. /\ InState("RUNNING")' = InState("RUNNING") \ {p}
          /\ InState("UNUSED")' = InState("UNUSED") \ {p}
      BY <1>2, <3>1, StateSets
    <3>3. p \notin InState("RUNNING")
      BY <1>2 DEF InState
    <3>. QED BY <3>2, <3>3
  <2>2. PICK l : l = Lists
    OBVIOUS
  <2>3. PICK m : m = Lists'
    OBVIOUS
  <2>4. PICK u : u = OSTmrFreeList /\ u # NULL
    BY <1>1 DEF p
  <2>5. PICK run, unu : run = InState("RUNNING") /\ unu = InState("UNUSED")
    OBVIOUS
  <2>6. PICK time \in Ticks, x \in {Here} : time = OSTmrTime
    BY <1>1 DEF Typed
  <2>7. Well(l, u, run, unu, time, x) /\ Aside(l, m, u)
    BY <1>1, <1>4, <2>2, <2>3, <2>4, <2>5, <2>6 DEF WellPlaced, p
  <2>8. Well(m, l.next[u], run, unu \ {u}, time, x)
    BY <2>4, <2>7, WellTake
  <2>9. l.next[u] = OSTmrFreeList'
    BY <1>1, <2>2, <2>4, ListsFields DEF p
  <2>. QED BY <1>3, <2>1, <2>3, <2>4, <2>5, <2>6, <2>8, <2>9 DEF WellPlaced, p
<1>6. Typed'
  <2>1. set.opt \in Opts /\ set.dly \in Ticks /\ set.period \in Ticks
    BY Sizes
  <2>2. Lasts(set.opt, set.dly, set.period)
    BY <1>1 DEF ValidTimes, Lasts
  <2>3. /\ OSTmrState' \in [Timers -> States]
        /\ OSTmrOpt' \in [Timers -> Opts \cup {"NONE"}]
        /\ OSTmrDly' \in [Timers -> Ticks] /\ OSTmrPeriod' \in [Timers -> Ticks]
    BY <1>1, <1>2, <2>1 DEF Typed, States
  <2>4. ASSUME NEW q \in Timers, OSTmrState'[q] # "UNUSED"
        PROVE  OSTmrOpt'[q] \in Opts /\ Lasts(OSTmrOpt'[q], OSTmrDly'[q], OSTmrPeriod'[q])
    <3>1. CASE q = p
      <4>1. OSTmrOpt'[q] = set.opt /\ OSTmrDly'[q] = set.dly /\ OSTmrPeriod'[q] = set.period
        BY <1>1, <1>2, <3>1 DEF Typed
      <4>. QED BY <2>1, <2>2, <4>1
    <3>2. CASE q # p
      <4>1. /\ OSTmrOpt'[q] = OSTmrOpt[q] /\ OSTmrDly'[q] = OSTmrDly[q]
            /\ OSTmrPeriod'[q] = OSTmrPeriod[q] /\ OSTmrState'[q] = OSTmrState[q]
        BY <1>1, <1>2, <3>2 DEF Typed
      <4>. QED BY <1>1, <2>4, <4>1 DEF Typed
    <3>. QED BY <3>1, <3>2
  <2>. QED BY <1>1, <1>3, <2>3, <2>4 DEF Typed
<1>. QED BY <1>5, <1>6 DEF IInv
(* The lists when the services have taken p off its spoke.                 *)
Off(p) == IF OSTmrState[p] = "RUNNING" THEN OSTmr_Unlink(Lists, p) ELSE Lists

(* A timer that runs is unlinked, if the walk does not look at it.         *)
LEMMA OffWell ==
  ASSUME IInv, NEW p \in Timers, p # Here
  PROVE  /\ Well(Off(p), OSTmrFreeList, InState("RUNNING") \ {p}, InState("UNUSED"), OSTmrTime, Here)
         /\ Off(p) \in ListsType
<1>1. Well(Off(p), OSTmrFreeList, InState("RUNNING") \ {p}, InState("UNUSED"), OSTmrTime, Here)
  <2>1. PICK l : l = Lists
    OBVIOUS
  <2>2. PICK free, run, unu : free = OSTmrFreeList /\ run = InState("RUNNING") /\ unu = InState("UNUSED")
    OBVIOUS
  <2>3. PICK time, x : time = OSTmrTime /\ x = Here
    OBVIOUS
  <2>4. Well(l, free, run, unu, time, x) /\ x # p
    BY <2>1, <2>2, <2>3 DEF IInv, WellPlaced
  <2>5. CASE OSTmrState[p] = "RUNNING"
    <3>1. p \in run
      BY <2>2, <2>5 DEF InState
    <3>2. Well(OSTmr_Unlink(l, p), free, run \ {p}, unu, time, x)
      BY <2>4, <3>1, WellUnlink
    <3>. QED BY <2>1, <2>2, <2>3, <2>5, <3>2 DEF Off
  <2>6. CASE OSTmrState[p] # "RUNNING"
    <3>1. run \ {p} = run
      BY <2>2, <2>6 DEF InState
    <3>. QED BY <2>1, <2>2, <2>3, <2>4, <2>6, <3>1 DEF Off
  <2>. QED BY <2>5, <2>6
<1>. QED BY <1>1, WellTyped

(* OSTmrDel() unlinks a running timer and frees it.                        *)
LEMMA DelSafe ==
  ASSUME IInv, NEW p \in Timers, p # Here, OSTmrDel(p), UNCHANGED <<clock, task>>
  PROVE  IInv'
<1>1. PICK l : l = Off(p)
  OBVIOUS
<1>2. PICK m : m = [l EXCEPT !.next[p] = OSTmrFreeList, !.prev[p] = NULL, !.match[p] = 0]
  OBVIOUS
<1>3. PICK free : free = OSTmrFreeList
  OBVIOUS
<1>4. /\ BecomeLists(m) /\ OSTmrState[p] # "UNUSED"
      /\ OSTmrFreeList' = p
      /\ OSTmrState' = [OSTmrState EXCEPT ![p] = "UNUSED"]
      /\ OSTmrOpt' = [OSTmrOpt EXCEPT ![p] = "NONE"]
      /\ OSTmrPeriod' = [OSTmrPeriod EXCEPT ![p] = 0]
      /\ UNCHANGED OSTmrDly
  BY <1>1, <1>2 DEF OSTmrDel, OSTmr_Free, Off
<1>5. UNCHANGED <<OSTmrTime, OSTmrSignalCnt, at, ptmr, ptmr_next, Here>>
  BY DEF clock, task, Here
<1>6. /\ l \in ListsType
      /\ Well(l, free, InState("RUNNING") \ {p}, InState("UNUSED"), OSTmrTime, Here)
  BY <1>1, <1>3, OffWell
<1>7. free \in Ptr
  BY <1>6, WellTyped
<1>8. Aside(l, m, p) /\ m.next[p] = free
  <2>1. /\ l = [next |-> l.next, prev |-> l.prev, first |-> l.first, entries |-> l.entries,
                match |-> l.match, fault |-> l.fault]
        /\ l.next \in [Timers -> Ptr] /\ l.prev \in [Timers -> Ptr] /\ l.match \in [Timers -> Ticks]
        /\ l.first \in [Spokes -> Ptr] /\ l.entries \in [Spokes -> Nat] /\ l.fault \in BOOLEAN
    BY <1>6 DEF ListsType
  <2>2. PICK next : next = [l.next EXCEPT ![p] = free]
    OBVIOUS
  <2>3. PICK prev : prev = [l.prev EXCEPT ![p] = NULL]
    OBVIOUS
  <2>4. PICK match : match = [l.match EXCEPT ![p] = 0]
    OBVIOUS
  <2>5. m = [l EXCEPT !.next = next, !.prev = prev, !.match = match]
    BY <1>2, <1>3, <2>1, <2>2, <2>3, <2>4
  <2>6. m = [next |-> next, prev |-> prev, first |-> l.first, entries |-> l.entries,
             match |-> match, fault |-> l.fault]
    BY <2>1, <2>5
  <2>7. next \in [Timers -> Ptr] /\ prev \in [Timers -> Ptr] /\ match \in [Timers -> Ticks]
    <3>1. 0 \in Ticks
      BY Sizes DEF Ticks
    <3>. QED BY <1>7, <2>1, <2>2, <2>3, <2>4, <3>1 DEF Ptr
  <2>8. m \in ListsType
    BY <2>1, <2>6, <2>7 DEF ListsType
  <2>9. ASSUME NEW q \in Timers \ {p} PROVE next[q] = l.next[q] /\ prev[q] = l.prev[q] /\ match[q] = l.match[q]
    BY <2>1, <2>2, <2>3, <2>4
  <2>10. next[p] = free
    BY <2>1, <2>2
  <2>. QED BY <2>6, <2>8, <2>9, <2>10 DEF Aside
<1>9. WellPlaced'
  <2>1. PICK run, unu : run = InState("RUNNING") /\ unu = InState("UNUSED")
    OBVIOUS
  <2>2. PICK time \in Ticks, x \in {Here} : time = OSTmrTime
    BY DEF IInv, Typed
  <2>3. Well(l, free, run \ {p}, unu, time, x) /\ p \notin (run \ {p}) \cup unu
    BY <1>4, <1>6, <2>1, <2>2 DEF InState
  <2>4. PICK off : off = run \ {p}
    OBVIOUS
  <2>5. Well(l, free, off, unu, time, x) /\ p \notin off \cup unu
    BY <2>3, <2>4
  <2>6. Well(m, p, off, unu \cup {p}, time, x)
    BY <1>8, <2>5, WellFree
  <2>7. Lists' = m
    BY <1>4, <1>8, ListsBecome DEF Aside
  <2>8. /\ InState("RUNNING")' = run \ {p}
        /\ InState("UNUSED")' = unu \cup {p}
    <3>1. OSTmrState \in [Timers -> States] /\ "UNUSED" \in States
      BY DEF IInv, Typed, States
    <3>. QED BY <1>4, <2>1, <3>1, StateSets
  <2>. QED BY <1>4, <1>5, <2>2, <2>4, <2>6, <2>7, <2>8 DEF WellPlaced
<1>10. Typed'
  <2>1. Typed /\ 0 \in Ticks
    BY Sizes DEF IInv, Ticks
  <2>2. /\ OSTmrState' \in [Timers -> States]
        /\ OSTmrOpt' \in [Timers -> Opts \cup {"NONE"}]
        /\ OSTmrDly' \in [Timers -> Ticks] /\ OSTmrPeriod' \in [Timers -> Ticks]
    BY <1>4, <2>1 DEF Typed, States
  <2>3. ASSUME NEW q \in Timers, OSTmrState'[q] # "UNUSED"
        PROVE  OSTmrOpt'[q] \in Opts /\ Lasts(OSTmrOpt'[q], OSTmrDly'[q], OSTmrPeriod'[q])
    <3>1. q # p
      BY <1>4, <2>1, <2>3 DEF Typed
    <3>2. /\ OSTmrOpt'[q] = OSTmrOpt[q] /\ OSTmrDly'[q] = OSTmrDly[q]
          /\ OSTmrPeriod'[q] = OSTmrPeriod[q] /\ OSTmrState'[q] = OSTmrState[q]
      BY <1>4, <2>1, <3>1 DEF Typed
    <3>. QED BY <2>1, <2>3, <3>2 DEF Typed
  <2>. QED BY <1>5, <2>1, <2>2, <2>3 DEF Typed
<1>. QED BY <1>9, <1>10 DEF IInv

(* OSTmrStop() unlinks a running timer.                                    *)
LEMMA StopSafe ==
  ASSUME IInv, NEW p \in Timers, p # Here, OSTmrStop(p), UNCHANGED <<clock, task>>
  PROVE  IInv'
<1>1. /\ BecomeLists(Off(p)) /\ OSTmrState[p] = "RUNNING"
      /\ OSTmrState' = [OSTmrState EXCEPT ![p] = "STOPPED"]
      /\ UNCHANGED <<OSTmrOpt, OSTmrDly, OSTmrPeriod, OSTmrFreeList>>
  BY DEF OSTmrStop, Off
<1>2. UNCHANGED <<OSTmrTime, OSTmrSignalCnt, at, ptmr, ptmr_next, Here>>
  BY DEF clock, task, Here
<1>3. /\ Off(p) \in ListsType
      /\ Well(Off(p), OSTmrFreeList, InState("RUNNING") \ {p}, InState("UNUSED"), OSTmrTime, Here)
  BY OffWell
<1>4. Lists' = Off(p)
  BY <1>1, <1>3, ListsBecome
<1>5. /\ OSTmrState' \in [Timers -> States]
      /\ InState("RUNNING")' = InState("RUNNING") \ {p}
      /\ InState("UNUSED")' = InState("UNUSED")
  <2>1. OSTmrState \in [Timers -> States] /\ "STOPPED" \in States
    BY DEF IInv, Typed, States
  <2>2. p \notin InState("UNUSED")
    BY <1>1 DEF InState
  <2>3. /\ OSTmrState' \in [Timers -> States]
        /\ InState("RUNNING")' = InState("RUNNING") \ {p}
        /\ InState("UNUSED")' = InState("UNUSED") \ {p}
    BY <1>1, <2>1, StateSets
  <2>. QED BY <2>2, <2>3
<1>6. WellPlaced'
  BY <1>1, <1>2, <1>3, <1>4, <1>5 DEF WellPlaced
<1>7. Typed'
  <2>1. \A q \in Timers : OSTmrState'[q] # "UNUSED" => OSTmrState[q] # "UNUSED"
    BY <1>1 DEF IInv, Typed
  <2>. QED BY <1>1, <1>2, <1>5, <2>1 DEF IInv, Typed
<1>. QED BY <1>6, <1>7 DEF IInv

(* A number in the range of the clock is its own remainder.                *)
LEMMA Fits ==
  ASSUME NEW n \in Nat, NEW k \in Nat, k < n
  PROVE  k % n = k
  OBVIOUS

(* A difference below zero wraps back to the number it came from.          *)
LEMMA WrapsBack ==
  ASSUME NEW n \in Nat, NEW k \in Nat, k < n
  PROVE  (k - n) % n = k
<1>1. n \in Nat /\ n > 0 /\ k - n \in Int
  OBVIOUS
<1>2. k - n = n * (-1) + k
  BY <1>1
<1>. QED BY <1>1, <1>2

(* A delay that a timer can have is over at another tick than now.         *)
LEMMA LaterTick ==
  ASSUME NEW ticks \in Ticks, ticks # 0, NEW time \in Ticks
  PROVE  /\ (ticks + time) % TimeModulus \in Ticks /\ (ticks + time) % TimeModulus # time
         /\ (((ticks + time) % TimeModulus) - time) % TimeModulus = ticks
<1>1. TimeModulus \in Nat /\ TimeModulus >= 1
  BY Sizes
<1>2. ticks \in Nat /\ ticks < TimeModulus /\ time \in Nat /\ time < TimeModulus
  BY <1>1 DEF Ticks
<1>3. CASE ticks + time < TimeModulus
  <2>1. (ticks + time) % TimeModulus = ticks + time
    BY <1>1, <1>2, <1>3
  <2>2. ticks + time - time = ticks /\ ticks % TimeModulus = ticks
    BY <1>1, <1>2
  <2>. QED BY <1>1, <1>2, <1>3, <2>1, <2>2 DEF Ticks
<1>4. CASE ticks + time >= TimeModulus
  <2> DEFINE r == ticks + time - TimeModulus
  <2>1. r \in Nat /\ r < TimeModulus /\ r # time /\ ticks + time = TimeModulus + r
        /\ r - time = ticks - TimeModulus
    BY <1>1, <1>2, <1>4
  <2>. HIDE DEF r
  <2>2. (TimeModulus + r) % TimeModulus = r
    BY <1>1, <2>1
  <2>3. (ticks - TimeModulus) % TimeModulus = ticks
    BY <1>1, <1>2, WrapsBack
  <2>. QED BY <1>1, <2>1, <2>2, <2>3 DEF Ticks
<1>. QED BY <1>1, <1>2, <1>3, <1>4

(* OSTmrStart() links a timer, and a running one after it is unlinked.     *)
LEMMA StartSafe ==
  ASSUME IInv, NEW p \in Timers, p # Here, OSTmrStart(p), UNCHANGED <<clock, task>>
  PROVE  IInv'
<1>1. PICK l : l = Off(p)
  OBVIOUS
<1>2. PICK ticks, time : ticks = FirstDelay(p) /\ time = OSTmrTime
  OBVIOUS
<1>3. PICK m : m = OSTmr_Link(l, p, ticks, time)
  OBVIOUS
<1>4. /\ BecomeLists(m) /\ OSTmrState[p] # "UNUSED"
      /\ OSTmrState' = [OSTmrState EXCEPT ![p] = "RUNNING"]
      /\ UNCHANGED <<OSTmrOpt, OSTmrDly, OSTmrPeriod, OSTmrFreeList>>
  BY <1>1, <1>2, <1>3 DEF OSTmrStart, Off
<1>5. UNCHANGED <<OSTmrTime, OSTmrSignalCnt, at, ptmr, ptmr_next, Here>>
  BY DEF clock, task, Here
<1>6. ticks \in Ticks /\ ticks # 0 /\ time \in Ticks
  <2>1. OSTmrDly[p] \in Ticks /\ OSTmrPeriod[p] \in Ticks /\ OSTmrTime \in Ticks
    BY DEF IInv, Typed
  <2>2. Lasts(OSTmrOpt[p], OSTmrDly[p], OSTmrPeriod[p])
    BY <1>4 DEF IInv, Typed
  <2>. QED BY <1>2, <2>1, <2>2 DEF FirstDelay, Lasts
<1>7. /\ l \in ListsType
      /\ Well(l, OSTmrFreeList, InState("RUNNING") \ {p}, InState("UNUSED"), time, Here)
  BY <1>1, <1>2, OffWell
<1>8. PICK d : d = (ticks + time) % TimeModulus
  OBVIOUS
<1>9. LinkedTo(l, m, p, d, Spoke(d)) /\ d # time
  <2>1. ticks \in Nat /\ time \in Nat
    BY <1>6, Sizes DEF Ticks
  <2>. QED BY <1>3, <1>6, <1>7, <1>8, <2>1, LinkFields, LaterTick
<1>10. Lists' = m
  BY <1>4, <1>9, ListsBecome DEF LinkedTo
<1>11. /\ OSTmrState' \in [Timers -> States]
       /\ InState("RUNNING")' = InState("RUNNING") \cup {p}
       /\ InState("UNUSED")' = InState("UNUSED") \ {p}
  <2>1. OSTmrState \in [Timers -> States] /\ "RUNNING" \in States
    BY DEF IInv, Typed, States
  <2>. QED BY <1>4, <2>1, StateSets
<1>12. WellPlaced'
  <2>1. PICK off, unu : off = InState("RUNNING") \ {p} /\ unu = InState("UNUSED")
    OBVIOUS
  <2>2. PICK free, x : free = OSTmrFreeList /\ x = Here
    OBVIOUS
  <2>3. p \notin unu /\ p \notin off
    BY <1>4, <2>1 DEF InState
  <2>4. Well(l, free, off, unu, time, x) /\ p \notin off \cup unu
    BY <1>7, <2>1, <2>2, <2>3
  <2>5. Well(m, free, off \cup {p}, unu, time, x)
    BY <1>6, <1>9, <2>4, WellLink
  <2>6. InState("RUNNING")' = off \cup {p} /\ InState("UNUSED")' = unu
    BY <1>11, <2>1, <2>3
  <2>. QED BY <1>2, <1>4, <1>5, <1>10, <2>2, <2>5, <2>6 DEF WellPlaced
<1>13. Typed'
  <2>1. \A q \in Timers : OSTmrState'[q] # "UNUSED" => OSTmrState[q] # "UNUSED"
    BY <1>4 DEF IInv, Typed
  <2>. QED BY <1>4, <1>5, <1>11, <2>1 DEF IInv, Typed
<1>. QED BY <1>12, <1>13 DEF IInv

-----------------------------------------------------------------------------
(* The timer task.                                                         *)
LEMMA SignalledSafe ==
  ASSUME IInv, TmrTaskSignalled
  PROVE  IInv'
<1>1. /\ at = "pend" /\ OSTmrSignalCnt > 0
      /\ OSTmrSignalCnt' = OSTmrSignalCnt - 1
      /\ OSTmrTime' = (OSTmrTime + 1) % TimeModulus
      /\ ptmr' = OSTmrFirst[Spoke(OSTmrTime')]
      /\ at' = IF ptmr' = NULL THEN "pend" ELSE "walk"
      /\ UNCHANGED <<tmrs, links, ptmr_next, OSTmrFreeList, fault>>
  BY DEF TmrTaskSignalled, WalkFrom
<1>2. /\ UNCHANGED <<OSTmrState, OSTmrOpt, OSTmrDly, OSTmrPeriod, Lists>>
      /\ InState("RUNNING")' = InState("RUNNING") /\ InState("UNUSED")' = InState("UNUSED")
  BY <1>1 DEF tmrs, links, Lists, InState
<1>3. OSTmrTime' \in Ticks
  <2>1. OSTmrTime + 1 \in Nat /\ TimeModulus \in Nat /\ TimeModulus >= 1
    BY Sizes DEF IInv, Typed, Ticks
  <2>2. PICK n \in Nat : n = OSTmrTime + 1
    BY <2>1
  <2>3. n % TimeModulus \in 0 .. TimeModulus - 1
    BY <2>1
  <2>. QED BY <1>1, <2>2, <2>3 DEF Ticks
<1>4. Here' = ptmr'
  BY <1>1 DEF Here
<1>5. WellPlaced'
  <2>1. PICK l, free, run, unu : l = Lists /\ free = OSTmrFreeList
                                 /\ run = InState("RUNNING") /\ unu = InState("UNUSED")
    OBVIOUS
  <2>2. PICK time, x : time = OSTmrTime /\ x = Here
    OBVIOUS
  <2>3. PICK time2 \in Ticks : time2 = OSTmrTime'
    BY <1>3
  <2>4. Well(l, free, run, unu, time, x)
    BY <2>1, <2>2 DEF IInv, WellPlaced
  <2>5. Well(l, free, run, unu, time2, l.first[Spoke(time2)])
    BY <2>4, WellTick
  <2>6. l.first[Spoke(time2)] = Here'
    BY <1>1, <1>4, <2>1, <2>3, ListsFields
  <2>. QED BY <1>1, <1>2, <2>1, <2>3, <2>5, <2>6 DEF WellPlaced
<1>6. Typed'
  <2>1. Lists \in ListsType
    BY WellTyped DEF IInv, WellPlaced
  <2>2. OSTmrFirst \in [Spokes -> Ptr]
    BY <2>1, ListsFields DEF ListsType
  <2>3. ptmr' \in Ptr
    BY <1>1, <1>3, <2>2, SpokeTyped
  <2>. QED BY <1>1, <1>2, <1>3, <2>3 DEF IInv, Typed
<1>. QED BY <1>5, <1>6 DEF IInv

(* The walk passes a timer by.                                             *)
LEMMA SkipSafe ==
  ASSUME IInv, at = "walk", Skip(ptmr), UNCHANGED <<clock, OSTmrFreeList>>
  PROVE  IInv'
<1>1. /\ OSTmrMatch[ptmr] # OSTmrTime
      /\ ptmr' = OSTmrNext[ptmr]
      /\ ptmr_next' = OSTmrNext[ptmr]
      /\ at' = IF ptmr' = NULL THEN "pend" ELSE "walk"
      /\ UNCHANGED <<tmrs, links, fault>>
  BY DEF Skip, WalkFrom, Expired
<1>2. /\ UNCHANGED <<OSTmrState, OSTmrOpt, OSTmrDly, OSTmrPeriod, Lists, OSTmrTime, OSTmrSignalCnt, OSTmrFreeList>>
      /\ InState("RUNNING")' = InState("RUNNING") /\ InState("UNUSED")' = InState("UNUSED")
  BY <1>1 DEF tmrs, links, Lists, InState, clock
<1>3. Here = ptmr /\ Here' = ptmr' /\ ptmr \in Timers /\ OSTmrTime \in Ticks
  <2>1. ptmr \in Timers
    BY DEF IInv, Typed, Ptr
  <2>. QED BY <1>1, <2>1 DEF Here, IInv, Typed
<1>4. WellPlaced'
  <2>1. PICK l, free, run, unu : l = Lists /\ free = OSTmrFreeList
                                 /\ run = InState("RUNNING") /\ unu = InState("UNUSED")
    OBVIOUS
  <2>2. PICK time \in Ticks, p \in Timers : time = OSTmrTime /\ p = ptmr
    BY <1>3
  <2>3. Well(l, free, run, unu, time, p) /\ l.match[p] # time
    BY <1>1, <1>3, <2>1, <2>2, ListsFields DEF IInv, WellPlaced
  <2>4. Well(l, free, run, unu, time, l.next[p])
    BY <2>3, WellSkip
  <2>5. l.next[p] = Here'
    BY <1>1, <1>3, <2>1, <2>2, ListsFields
  <2>. QED BY <1>2, <2>1, <2>2, <2>4, <2>5 DEF WellPlaced
<1>5. Typed'
  <2>1. Lists \in ListsType
    BY WellTyped DEF IInv, WellPlaced
  <2>2. OSTmrNext \in [Timers -> Ptr]
    BY <2>1, ListsFields DEF ListsType
  <2>3. ptmr' \in Ptr /\ ptmr_next' \in Ptr
    BY <1>1, <1>3, <2>2
  <2>. QED BY <1>1, <1>2, <2>3 DEF IInv, Typed
<1>. QED BY <1>4, <1>5 DEF IInv

(* A call-back returns, and the walk goes on or ends.                      *)
LEMMA AdvanceSafe ==
  ASSUME IInv, TmrTaskAdvance
  PROVE  IInv'
<1>1. /\ at = "callback" /\ ptmr' = ptmr_next
      /\ at' = IF ptmr' = NULL THEN "pend" ELSE "walk"
      /\ UNCHANGED <<tmrs, links, clock, ptmr_next, OSTmrFreeList, fault>>
  BY DEF TmrTaskAdvance, WalkFrom
<1>2. /\ UNCHANGED <<OSTmrState, OSTmrOpt, OSTmrDly, OSTmrPeriod, Lists, OSTmrTime, OSTmrSignalCnt, OSTmrFreeList>>
      /\ InState("RUNNING")' = InState("RUNNING") /\ InState("UNUSED")' = InState("UNUSED")
  BY <1>1 DEF tmrs, links, Lists, InState, clock
<1>3. Here' = Here
  BY <1>1 DEF Here
<1>4. WellPlaced'
  BY <1>2, <1>3 DEF IInv, WellPlaced
<1>5. Typed'
  BY <1>1, <1>2 DEF IInv, Typed
<1>. QED BY <1>4, <1>5 DEF IInv

(* The walk fires a timer, and links a periodic one again.                 *)
LEMMA FireSafe ==
  ASSUME IInv, at = "walk", Fire(ptmr), UNCHANGED <<clock, OSTmrFreeList>>
  PROVE  IInv' /\ OSTmrState[ptmr] = "RUNNING"
<1>1. PICK p \in Timers, time \in Ticks : p = ptmr /\ time = OSTmrTime
  BY DEF IInv, Typed, Ptr
<1>2. PICK l : l = OSTmr_Unlink(Lists, p)
  OBVIOUS
<1>3. /\ at' = "callback" /\ ptmr_next' = OSTmrNext[p] /\ ptmr' = p
      /\ UNCHANGED <<OSTmrOpt, OSTmrDly, OSTmrPeriod, OSTmrTime, OSTmrSignalCnt, OSTmrFreeList>>
      /\ IF OSTmrOpt[p] = "PERIODIC"
           THEN /\ BecomeLists(OSTmr_Link(l, p, OSTmrPeriod[p], OSTmrTime))
                /\ OSTmrState' = [OSTmrState EXCEPT ![p] = "RUNNING"]
           ELSE /\ BecomeLists(l)
                /\ OSTmrState' = [OSTmrState EXCEPT ![p] = "COMPLETED"]
  BY <1>1, <1>2 DEF Fire, clock
<1>4. Here = p /\ Here' = OSTmrNext[p]
  BY <1>1, <1>3 DEF Here
<1>5. PICK free, run, unu : free = OSTmrFreeList /\ run = InState("RUNNING") /\ unu = InState("UNUSED")
  OBVIOUS
<1>6. p \in run /\ Well(l, free, run \ {p}, unu, time, Here') /\ l \in ListsType /\ Lists \in ListsType
  <2>1. PICK l0 : l0 = Lists
    OBVIOUS
  <2>2. Well(l0, free, run, unu, time, p)
    BY <1>1, <1>4, <1>5, <2>1 DEF IInv, WellPlaced
  <2>3. p \in run /\ Well(OSTmr_Unlink(l0, p), free, run \ {p}, unu, time, l0.next[p]) /\ l0 \in ListsType
    BY <2>2, WellFire, WellTyped
  <2>4. l0.next[p] = Here'
    BY <1>4, <2>1, ListsFields
  <2>5. Well(l, free, run \ {p}, unu, time, Here')
    BY <1>2, <2>1, <2>3, <2>4
  <2>. QED BY <2>1, <2>3, <2>5, WellTyped
<1>7. OSTmrState[p] = "RUNNING" /\ p \notin unu
  BY <1>5, <1>6 DEF InState
<1>8. OSTmrState \in [Timers -> States] /\ "RUNNING" \in States /\ "COMPLETED" \in States
  BY DEF IInv, Typed, States
<1>9. OSTmrState' \in [Timers -> States] /\ WellPlaced'
  <2>1. CASE OSTmrOpt[p] = "PERIODIC"
    <3>1. PICK ticks, m : ticks = OSTmrPeriod[p] /\ m = OSTmr_Link(l, p, ticks, time)
      OBVIOUS
    <3>2. ticks \in Ticks /\ ticks # 0
      BY <1>7, <2>1, <3>1 DEF IInv, Typed, Lasts
    <3>3. PICK d : d = (ticks + time) % TimeModulus
      OBVIOUS
    <3>4. LinkedTo(l, m, p, d, Spoke(d)) /\ d # time
      <4>1. ticks \in Nat /\ time \in Nat
        BY <3>2, Sizes DEF Ticks
      <4>. QED BY <1>6, <3>1, <3>2, <3>3, <4>1, LinkFields, LaterTick
    <3>5. Lists' = m
      <4>1. BecomeLists(m)
        BY <1>1, <1>3, <2>1, <3>1
      <4>. QED BY <3>4, <4>1, ListsBecome DEF LinkedTo
    <3>6. PICK off, x : off = run \ {p} /\ x = Here'
      OBVIOUS
    <3>7. Well(l, free, off, unu, time, x) /\ p \notin off \cup unu
      BY <1>6, <1>7, <3>6
    <3>8. Well(m, free, off \cup {p}, unu, time, x)
      BY <3>4, <3>7, WellLink
    <3>9. /\ OSTmrState' \in [Timers -> States]
          /\ InState("RUNNING")' = InState("RUNNING") \cup {p}
          /\ InState("UNUSED")' = InState("UNUSED") \ {p}
      BY <1>3, <1>8, <2>1, StateSets
    <3>10. InState("RUNNING")' = off \cup {p} /\ InState("UNUSED")' = unu
      BY <1>5, <1>7, <3>6, <3>9
    <3>. QED BY <1>1, <1>3, <1>5, <3>5, <3>6, <3>8, <3>9, <3>10 DEF WellPlaced
  <2>2. CASE OSTmrOpt[p] # "PERIODIC"
    <3>1. Lists' = l
      BY <1>3, <1>6, <2>2, ListsBecome
    <3>2. /\ OSTmrState' \in [Timers -> States]
          /\ InState("RUNNING")' = InState("RUNNING") \ {p}
          /\ InState("UNUSED")' = InState("UNUSED") \ {p}
      BY <1>3, <1>8, <2>2, StateSets
    <3>3. InState("RUNNING")' = run \ {p} /\ InState("UNUSED")' = unu
      BY <1>5, <1>7, <3>2
    <3>. QED BY <1>1, <1>3, <1>5, <1>6, <3>1, <3>2, <3>3 DEF WellPlaced
  <2>. QED BY <2>1, <2>2
<1>10. Typed'
  <2>1. \A q \in Timers : OSTmrState'[q] # "UNUSED" => OSTmrState[q] # "UNUSED"
    BY <1>3, <1>7, <1>8
  <2>2. ptmr_next' \in Ptr /\ ptmr' \in Ptr /\ ptmr' # NULL
    <3>1. OSTmrNext \in [Timers -> Ptr]
      BY <1>6, ListsFields DEF ListsType
    <3>. QED BY <1>3, <3>1, Sizes DEF Ptr
  <2>. QED BY <1>3, <1>9, <2>1, <2>2 DEF IInv, Typed
<1>. QED BY <1>1, <1>7, <1>9, <1>10 DEF IInv
-----------------------------------------------------------------------------

(* OSTmr_Init() leaves an empty wheel and all timers on the free list.     *)
LEMMA InitSafe == Init => IInv
<1> SUFFICES ASSUME Init PROVE IInv
  OBVIOUS
<1> DEFINE n == Len(OSTmrTbl)
           rows == [s \in Spokes |-> << >>]
<1>1. /\ n \in Nat /\ n >= 2 /\ DOMAIN OSTmrTbl = 1 .. n /\ OSTmrTbl \in Seq(Timers)
      /\ \A i \in 1 .. n : OSTmrTbl[i] \in Timers /\ OSTmrTbl[i] # NULL
      /\ \A i, j \in 1 .. n : OSTmrTbl[i] = OSTmrTbl[j] => i = j
      /\ Timers = {OSTmrTbl[i] : i \in 1 .. n} /\ 0 \in Ticks
  BY Sizes DEF Timers, Ticks
<1>2. /\ OSTmrFreeList = OSTmrTbl[1]
      /\ OSTmrNext = [p \in Timers |->
                        LET i == CHOOSE i \in DOMAIN OSTmrTbl : OSTmrTbl[i] = p
                        IN  IF i = n THEN NULL ELSE OSTmrTbl[i + 1]]
      /\ OSTmrPrev = [p \in Timers |-> NULL]
      /\ OSTmrFirst = [s \in Spokes |-> NULL]
      /\ OSTmrEntries = [s \in Spokes |-> 0]
      /\ OSTmrState = [p \in Timers |-> "UNUSED"]
      /\ OSTmrOpt = [p \in Timers |-> "NONE"]
      /\ OSTmrDly = [p \in Timers |-> 0]
      /\ OSTmrPeriod = [p \in Timers |-> 0]
      /\ OSTmrMatch = [p \in Timers |-> 0]
      /\ OSTmrTime = 0 /\ OSTmrSignalCnt = 0
      /\ ptmr = NULL /\ ptmr_next = NULL /\ at = "pend"
      /\ fault = FALSE
  BY DEF Init, OSTmr_Init
<1>. HIDE DEF n
<1>3. ASSUME NEW j \in 1 .. n
      PROVE  OSTmrNext[OSTmrTbl[j]] = IF j = n THEN NULL ELSE OSTmrTbl[j + 1]
  <2> DEFINE k == CHOOSE i \in DOMAIN OSTmrTbl : OSTmrTbl[i] = OSTmrTbl[j]
  <2>1. OSTmrNext[OSTmrTbl[j]] = IF k = n THEN NULL ELSE OSTmrTbl[k + 1]
    BY <1>1, <1>2
  <2>2. k \in 1 .. n /\ OSTmrTbl[k] = OSTmrTbl[j]
    BY <1>1
  <2>. HIDE DEF k
  <2>3. k = j
    BY <1>1, <2>2
  <2>. QED BY <2>1, <2>3
<1>4. Chain(OSTmrTbl, OSTmrNext)
  BY <1>1, <1>3 DEF Chain, n
<1>5. OSTmrNext \in [Timers -> Ptr]
  <2>1. ASSUME NEW p \in Timers PROVE OSTmrNext[p] \in Ptr
    <3>1. PICK j \in 1 .. n : p = OSTmrTbl[j]
      BY <1>1
    <3>2. j # n => j + 1 \in 1 .. n
      BY <1>1
    <3>. QED BY <1>1, <1>3, <3>1, <3>2 DEF Ptr
  <2>2. OSTmrNext = [p \in Timers |-> OSTmrNext[p]]
    BY <1>2
  <2>. QED BY <2>1, <2>2
<1>6. Lists \in ListsType
  BY <1>1, <1>2, <1>5 DEF Lists, ListsType, Ptr
<1>7. rows \in [Spokes -> Seq(Timers)] /\ \A s \in Spokes : rows[s] = << >> /\ Len(rows[s]) = 0
  OBVIOUS
<1>. HIDE DEF rows
<1>8. Wheel(Lists, rows)
  <2>1. ASSUME NEW s \in Spokes PROVE SpokeRow(Lists, rows[s], s)
    <3>1. rows[s] \in Seq(Timers) /\ Len(rows[s]) = 0
      BY <1>7
    <3>2. Lists.first[s] = NULL /\ Lists.entries[s] = 0
      BY <1>2, ListsFields
    <3>. QED BY <3>1, <3>2 DEF SpokeRow, Chain, HeadOf
  <2>. QED BY <1>2, <1>6, <1>7, <2>1, ListsFields DEF Wheel
<1>9. Shape(Lists, rows, OSTmrTbl, OSTmrFreeList, InState("RUNNING"), InState("UNUSED"))
  <2>1. InState("RUNNING") = {} /\ InState("UNUSED") = Timers
    BY <1>2 DEF InState
  <2>2. \A s \in Spokes : Members(rows[s]) = {}
    BY <1>7 DEF Members
  <2>3. Members(OSTmrTbl) = Timers
    BY <1>1 DEF Members, n
  <2>4. OSTmrFreeList = HeadOf(OSTmrTbl)
    BY <1>1, <1>2 DEF HeadOf, n
  <2>. QED BY <1>4, <1>8, <2>1, <2>2, <2>3, <2>4, ListsFields DEF Shape
<1>10. Covers(Lists.match, rows[Spoke(OSTmrTime)], OSTmrTime, Here)
  <2>1. Len(rows[Spoke(OSTmrTime)]) = 0 /\ Here = NULL
    BY <1>1, <1>2, <1>7, SpokeTyped DEF Here
  <2>. QED BY <2>1 DEF Covers
<1>11. WellPlaced
  BY <1>1, <1>7, <1>9, <1>10 DEF WellPlaced, Well
<1>12. Typed
  BY <1>1, <1>2 DEF Typed, States, Ptr
<1>. QED BY <1>11, <1>12 DEF IInv

(* Any service, of a task or of a call-back.                               *)
LEMMA ServiceSafe ==
  ASSUME IInv, NEW p \in Timers, p # Here, ServiceOn(p), UNCHANGED <<clock, task>>
  PROVE  IInv'
  BY DelSafe, StartSafe, StopSafe DEF ServiceOn

(* Any step, if no call-back touches the timer the walk goes on with.      *)
LEMMA NextSafe ==
  ASSUME ~CallbacksTouchNext, IInv, [Next]_tmrVars
  PROVE  IInv'
<1>1. CASE TaskService
  <2>1. \A p \in Timers : p # Here
    BY <1>1, Sizes DEF TaskService, Here
  <2>. QED BY <1>1, <2>1, CreateSafe, ServiceSafe DEF TaskService
<1>2. CASE CallbackService
  <2>1. at = "callback" /\ UNCHANGED <<clock, task>>
    BY <1>2 DEF CallbackService
  <2>2. Here = ptmr_next
    BY <2>1 DEF Here
  <2>3. \/ \E set \in Settings : OSTmrCreate(set)
        \/ \E p \in Timers : ServiceOn(p) /\ p # Here
    BY <1>2, <2>2 DEF CallbackService
  <2>. QED BY <2>1, <2>3, CreateSafe, ServiceSafe
<1>3. CASE TmrTask
  <2>1. CASE TmrTaskStep
    BY <2>1, SkipSafe, FireSafe DEF TmrTaskStep
  <2>. QED BY <1>3, <2>1, SignalledSafe, AdvanceSafe DEF TmrTask
<1>4. CASE OSTmrSignal
  <2>1. /\ UNCHANGED <<tmrs, links, task, OSTmrTime, OSTmrFreeList, fault>>
        /\ OSTmrSignalCnt' = OSTmrSignalCnt + 1
    BY <1>4 DEF OSTmrSignal
  <2>2. UNCHANGED <<Lists, Here, OSTmrState, OSTmrOpt, OSTmrDly, OSTmrPeriod, ptmr, ptmr_next, at>>
    BY <2>1 DEF Lists, Here, tmrs, links, task
  <2>3. InState("RUNNING")' = InState("RUNNING") /\ InState("UNUSED")' = InState("UNUSED")
    BY <2>2 DEF InState
  <2>. QED BY <2>1, <2>2, <2>3 DEF IInv, Typed, WellPlaced
<1>5. CASE UNCHANGED tmrVars
  <2>1. UNCHANGED <<Lists, Here, OSTmrFreeList, OSTmrState, OSTmrOpt, OSTmrDly, OSTmrPeriod, ptmr, ptmr_next, at,
                    OSTmrTime, OSTmrSignalCnt>>
    BY <1>5 DEF tmrVars, Lists, Here, tmrs, links, task, clock
  <2>2. InState("RUNNING")' = InState("RUNNING") /\ InState("UNUSED")' = InState("UNUSED")
    BY <2>1 DEF InState
  <2>. QED BY <2>1, <2>2 DEF IInv, Typed, WellPlaced
<1>. QED BY <1>1, <1>2, <1>3, <1>4, <1>5 DEF Next

(* OSTmr_Task() and the services, called by tasks and call-backs, keep the *)
(* rows of the spokes and of the free list, and no walk passes by a timer  *)
(* that is due, when no call-back touches the timer its walk goes on with. *)
THEOREM TmrInvariance == ~CallbacksTouchNext /\ Spec => []IInv
<1>1. ASSUME ~CallbacksTouchNext PROVE Spec => []IInv
  <2>1. IInv /\ [Next]_tmrVars => IInv'
    BY <1>1, NextSafe
  <2>. QED BY <2>1, InitSafe, PTL DEF Spec
<1>. QED BY <1>1
-----------------------------------------------------------------------------

(* Rows are what WheelExact asks of the lists.                             *)
LEMMA WheelFromInv == IInv => WheelExact
<1> SUFFICES ASSUME IInv PROVE WheelExact
  OBVIOUS
<1>1. PICK rows \in [Spokes -> Seq(Timers)], F \in Seq(Timers) :
        /\ Shape(Lists, rows, F, OSTmrFreeList, InState("RUNNING"), InState("UNUSED"))
        /\ Covers(Lists.match, rows[Spoke(OSTmrTime)], OSTmrTime, Here)
  BY DEF IInv, WellPlaced, Well
<1>2. /\ Wheel(Lists, rows) /\ fault = FALSE
      /\ InState("RUNNING") = {p \in Timers : \E s \in Spokes : p \in Members(rows[s])}
      /\ Chain(F, OSTmrNext) /\ OSTmrFreeList = HeadOf(F)
      /\ InState("UNUSED") = Members(F)
  BY <1>1, ListsFields DEF Shape, Wheel
<1>3. ASSUME NEW s \in Spokes
      PROVE  /\ Chain(rows[s], OSTmrNext)
             /\ \A i \in 1 .. Len(rows[s]) : /\ OSTmrPrev[rows[s][i]] = IF i = 1 THEN NULL ELSE rows[s][i - 1]
                                             /\ Spoke(OSTmrMatch[rows[s][i]]) = s
                                             /\ rows[s][i] \in Timers
             /\ OSTmrFirst[s] = HeadOf(rows[s])
             /\ OSTmrEntries[s] = Len(rows[s])
  BY <1>2, ListsFields DEF Wheel, SpokeRow
<1>4. ASSUME NEW s \in Spokes PROVE Running(s) = Members(rows[s])
  <2>1. ASSUME NEW p \in Members(rows[s]) PROVE p \in Running(s)
    <3>1. p \in Timers /\ Spoke(OSTmrMatch[p]) = s
      BY <1>3 DEF Members
    <3>. QED BY <1>2, <3>1 DEF Running, InState
  <2>2. ASSUME NEW p \in Running(s) PROVE p \in Members(rows[s])
    <3>1. PICK r \in Spokes : p \in Members(rows[r])
      BY <1>2 DEF Running, InState
    <3>2. Spoke(OSTmrMatch[p]) = r /\ Spoke(OSTmrMatch[p]) = s
      BY <1>3, <3>1 DEF Members, Running
    <3>. QED BY <3>1, <3>2
  <2>. QED BY <2>1, <2>2
<1>5. ASSUME NEW s \in Spokes
      PROVE  /\ ListFrom(OSTmrFirst[s]) = Running(s)
             /\ OSTmrEntries[s] = Cardinality(Running(s))
             /\ OSTmrFirst[s] # NULL => OSTmrPrev[OSTmrFirst[s]] = NULL
  <2>1. PICK q : q = rows[s]
    OBVIOUS
  <2>2. Chain(q, OSTmrNext) /\ OSTmrFirst[s] = HeadOf(q) /\ OSTmrEntries[s] = Len(q) /\ Running(s) = Members(q)
    BY <1>3, <1>4, <2>1
  <2>3. ListFrom(HeadOf(q)) = Members(q)
    BY <2>2, ListOfChain
  <2>4. Cardinality(Members(q)) = Len(q)
    <3>1. PICK next : next = OSTmrNext
      OBVIOUS
    <3>2. Chain(q, next)
      BY <2>2, <3>1
    <3>. QED BY <3>2, ChainCounts
  <2>5. HeadOf(q) # NULL => OSTmrPrev[HeadOf(q)] = NULL
    <3>1. Len(q) # 0 => 1 \in 1 .. Len(q)
      BY <2>2 DEF Chain
    <3>. QED BY <1>3, <2>1, <3>1 DEF HeadOf
  <2>. QED BY <2>2, <2>3, <2>4, <2>5
<1>6. ASSUME NEW p \in Timers, OSTmrState[p] = "RUNNING", OSTmrNext[p] # NULL
      PROVE  OSTmrPrev[OSTmrNext[p]] = p
  <2>1. PICK s \in Spokes : p \in Members(rows[s])
    BY <1>2, <1>6 DEF InState
  <2>2. PICK i \in 1 .. Len(rows[s]) : p = rows[s][i]
    BY <2>1 DEF Members
  <2>3. PICK q : q = rows[s]
    OBVIOUS
  <2>4. /\ Len(q) \in Nat /\ i \in 1 .. Len(q) /\ p = q[i]
        /\ OSTmrNext[q[i]] = IF i = Len(q) THEN NULL ELSE q[i + 1]
        /\ \A j \in 1 .. Len(q) : OSTmrPrev[q[j]] = IF j = 1 THEN NULL ELSE q[j - 1]
    BY <1>3, <2>2, <2>3 DEF Chain
  <2>5. i + 1 \in 1 .. Len(q) /\ i + 1 # 1 /\ i + 1 - 1 = i /\ OSTmrNext[p] = q[i + 1]
    BY <1>6, <2>4
  <2>. QED BY <2>4, <2>5
<1>7. ListFrom(OSTmrFreeList) = {p \in Timers : OSTmrState[p] = "UNUSED"}
  <2>1. ListFrom(HeadOf(F)) = Members(F)
    BY <1>2, ListOfChain
  <2>. QED BY <1>2, <2>1 DEF InState
<1>. QED BY <1>2, <1>5, <1>6, <1>7 DEF WheelExact

(* At every moment each running timer is on the spoke of its match value   *)
(* and each unused one on the free list, the counts and the links of the   *)
(* lists are right, and OSTmr_Unlink() never writes through null.          *)
THEOREM WheelCorrect == ~CallbacksTouchNext /\ Spec => []WheelExact
<1>1. IInv => WheelExact
  BY WheelFromInv
<1>. QED BY <1>1, TmrInvariance, PTL

(* The part of a row that begins at its k-th member.                       *)
Rest(q, k) == [i \in 1 .. Len(q) - k + 1 |-> q[i + k - 1]]

(* From any member on, a row is a row.                                     *)
LEMMA RestChain ==
  ASSUME NEW q, NEW next, Chain(q, next), NEW k \in 1 .. Len(q)
  PROVE  /\ Chain(Rest(q, k), next) /\ HeadOf(Rest(q, k)) = q[k]
         /\ \A i \in 1 .. Len(q) : i >= k => q[i] \in Members(Rest(q, k))
<1> DEFINE c == Rest(q, k)
           n == Len(q)
           m == n - k + 1
<1>1. /\ n \in Nat /\ k \in 1 .. n /\ m \in Nat /\ m # 0
      /\ \A i \in 1 .. n : q[i] \in Timers
      /\ \A i, j \in 1 .. n : q[i] = q[j] => i = j
      /\ \A i \in 1 .. n : next[q[i]] = IF i = n THEN NULL ELSE q[i + 1]
  BY DEF Chain
<1>2. c = [i \in 1 .. m |-> q[i + k - 1]]
  BY DEF Rest
<1>3. \A i \in 1 .. m : i + k - 1 \in 1 .. n
  BY <1>1
<1>. HIDE DEF c, n
<1>4. c \in Seq(Timers) /\ Len(c) = m /\ \A i \in 1 .. m : c[i] = q[i + k - 1]
  <2>. HIDE DEF m
  <2>1. \A i \in 1 .. m : q[i + k - 1] \in Timers
    BY <1>1, <1>3
  <2>. QED BY <1>1, <1>2, <2>1
<1>5. ASSUME NEW i \in 1 .. m, NEW j \in 1 .. m, c[i] = c[j] PROVE i = j
  <2>1. i + k - 1 = j + k - 1
    BY <1>1, <1>3, <1>4, <1>5
  <2>. QED BY <1>1, <2>1
<1>6. ASSUME NEW i \in 1 .. m PROVE next[c[i]] = IF i = m THEN NULL ELSE c[i + 1]
  <2>1. PICK j : j = i + k - 1
    OBVIOUS
  <2>2. j \in 1 .. n /\ c[i] = q[j] /\ (j = n <=> i = m)
    BY <1>1, <1>3, <1>4, <2>1
  <2>3. i # m => i + 1 \in 1 .. m /\ i + 1 + k - 1 = j + 1
    <3>1. i + 1 + k - 1 = j + 1
      BY <1>1, <2>1
    <3>2. i # m => i + 1 \in 1 .. m
      <4>. HIDE DEF m
      <4>. QED BY <1>1
    <3>. QED BY <3>1, <3>2
  <2>4. i # m => c[i + 1] = q[j + 1]
    BY <1>4, <2>3
  <2>5. next[q[j]] = IF j = n THEN NULL ELSE q[j + 1]
    BY <1>1, <2>2
  <2>. QED BY <2>2, <2>4, <2>5
<1>7. HeadOf(c) = q[k]
  <2>1. 1 \in 1 .. m /\ 1 + k - 1 = k
    BY <1>1
  <2>. QED BY <1>1, <1>4, <2>1 DEF HeadOf
<1>8. ASSUME NEW i \in 1 .. n, i >= k PROVE q[i] \in Members(c)
  <2>1. PICK a : a = i - k + 1
    OBVIOUS
  <2>2. a \in 1 .. m /\ a + k - 1 = i
    BY <1>1, <1>8, <2>1
  <2>3. c[a] = q[i]
    BY <1>4, <2>2
  <2>. QED BY <1>4, <2>2, <2>3 DEF Members
<1>9. Chain(c, next)
  BY <1>4, <1>5, <1>6 DEF Chain
<1>. QED BY <1>7, <1>8, <1>9 DEF c, n

(* A due timer that still runs is in the rest of the row of the walk.      *)
LEMMA NoneFromInv == IInv => NoTimerPassed
<1> SUFFICES ASSUME IInv, NEW p \in Timers, OSTmrState[p] = "RUNNING", OSTmrRemainGet(p) = 0
             PROVE  p \in Ahead
  BY DEF NoTimerPassed
<1>1. PICK rows \in [Spokes -> Seq(Timers)], F \in Seq(Timers) :
        /\ Shape(Lists, rows, F, OSTmrFreeList, InState("RUNNING"), InState("UNUSED"))
        /\ Covers(Lists.match, rows[Spoke(OSTmrTime)], OSTmrTime, Here)
  BY DEF IInv, WellPlaced, Well
<1>2. /\ Wheel(Lists, rows)
      /\ InState("RUNNING") = {x \in Timers : \E s \in Spokes : x \in Members(rows[s])}
      /\ Lists \in ListsType
  BY <1>1 DEF Shape, Wheel
<1>3. OSTmrMatch \in [Timers -> Ticks] /\ OSTmrTime \in Ticks
  BY <1>2, ListsFields DEF ListsType, IInv, Typed
<1>4. OSTmrMatch[p] = OSTmrTime
  <2>1. PICK a \in Ticks, b \in Ticks : a = OSTmrMatch[p] /\ b = OSTmrTime
    BY <1>3
  <2>2. (a - b) % TimeModulus = 0
    BY <2>1 DEF OSTmrRemainGet
  <2>3. a = b
    <3>1. TimeModulus \in Nat /\ TimeModulus >= 1 /\ a \in Nat /\ b \in Nat /\ a < TimeModulus /\ b < TimeModulus
      BY Sizes DEF Ticks
    <3>2. a - b < TimeModulus /\ a - b > - TimeModulus
      BY <3>1
    <3>3. CASE a >= b
      <4>1. PICK c : c = a - b
        OBVIOUS
      <4>2. c \in Nat /\ c < TimeModulus
        BY <3>1, <3>3, <4>1
      <4>3. c % TimeModulus = c
        BY <3>1, <4>2, Fits
      <4>. QED BY <2>2, <3>1, <4>1, <4>3
    <3>4. CASE a < b
      <4>1. PICK c : c = a - b + TimeModulus
        OBVIOUS
      <4>2. c \in Nat /\ c < TimeModulus /\ c # 0 /\ a - b = c - TimeModulus
        BY <3>1, <3>4, <4>1
      <4>3. (c - TimeModulus) % TimeModulus = c
        BY <3>1, <4>2, WrapsBack
      <4>. QED BY <2>2, <4>2, <4>3
    <3>. QED BY <3>1, <3>3, <3>4
  <2>. QED BY <2>1, <2>3
<1>5. PICK q : q = rows[Spoke(OSTmrTime)]
  OBVIOUS
<1>6. Chain(q, OSTmrNext) /\ q \in Seq(Timers)
  BY <1>2, <1>3, <1>5, SpokeTyped, ListsFields DEF Wheel, SpokeRow
<1>7. PICK k \in 1 .. Len(q) : p = q[k]
  <2>1. PICK s \in Spokes : p \in Members(rows[s])
    BY <1>2 DEF InState
  <2>2. Spoke(OSTmrMatch[p]) = s
    BY <1>2, <2>1, ListsFields DEF Wheel, SpokeRow, Members
  <2>. QED BY <1>4, <1>5, <2>1, <2>2 DEF Members
<1>8. Covers(OSTmrMatch, q, OSTmrTime, Here)
  BY <1>1, <1>5, ListsFields
<1>9. PICK j \in 1 .. Len(q) : Here = q[j] /\ \A i \in 1 .. Len(q) : i < j => OSTmrMatch[q[i]] # OSTmrTime
  BY <1>4, <1>7, <1>8 DEF Covers
<1>10. k >= j
  BY <1>4, <1>6, <1>7, <1>9
<1>11. p \in ListFrom(Here)
  <2>1. PICK next : next = OSTmrNext
    OBVIOUS
  <2>2. Chain(Rest(q, j), next) /\ HeadOf(Rest(q, j)) = q[j] /\ q[k] \in Members(Rest(q, j))
    BY <1>6, <1>10, <2>1, RestChain
  <2>3. ListFrom(HeadOf(Rest(q, j))) = Members(Rest(q, j))
    BY <2>1, <2>2, ListOfChain
  <2>. QED BY <1>7, <1>9, <2>2, <2>3
<1>12. Here # NULL
  BY <1>6, <1>9, Sizes
<1>. QED BY <1>11, <1>12 DEF Ahead, Here, IInv, Typed

(* "Process each timer that expires": a running timer whose time has come  *)
(* is one the walk of OSTmr_Task() has still to look at.                   *)
THEOREM NoneIsPassed == ~CallbacksTouchNext /\ Spec => []NoTimerPassed
<1>1. IInv => NoTimerPassed
  BY NoneFromInv
<1>. QED BY <1>1, TmrInvariance, PTL
-----------------------------------------------------------------------------
(* The timers that TmrAbs sees.                                            *)
ModeName(st) == CASE st = "UNUSED" -> "unused" [] st = "RUNNING" -> "running" [] OTHER -> "idle"

Mode == [p \in Timers |-> ModeName(OSTmrState[p])]
Setting ==
  [p \in Timers |->
     IF OSTmrState[p] = "UNUSED" THEN [opt |-> "NONE"]
     ELSE [opt |-> OSTmrOpt[p], dly |-> OSTmrDly[p], period |-> OSTmrPeriod[p]]]
Ringing == IF at = "callback" THEN ptmr ELSE NULL
Left == [p \in Timers |-> IF OSTmrState[p] = "RUNNING" THEN OSTmrRemainGet(p) ELSE 0]

Quiet == \A p \in Timers : ~(Mode[p] = "running" /\ Left[p] = 0)
Open == Quiet \/ Ringing # NULL

LEMMA ModeSets ==
  ASSUME NEW p \in Timers, NEW st \in States, OSTmrState \in [Timers -> States],
         OSTmrState' = [OSTmrState EXCEPT ![p] = st]
  PROVE  Mode' = [Mode EXCEPT ![p] = ModeName(st)]
<1>1. \A q \in Timers : OSTmrState'[q] = IF q = p THEN st ELSE OSTmrState[q]
  OBVIOUS
<1>2. Mode' = [q \in Timers |-> ModeName(OSTmrState'[q])]
  BY DEF Mode, ModeName
<1>3. [Mode EXCEPT ![p] = ModeName(st)] = [q \in Timers |-> IF q = p THEN ModeName(st) ELSE ModeName(OSTmrState[q])]
  BY DEF Mode
<1>4. \A q \in Timers : ModeName(OSTmrState'[q]) = IF q = p THEN ModeName(st) ELSE ModeName(OSTmrState[q])
  BY <1>1
<1>. QED BY <1>2, <1>3, <1>4

LEMMA LeftIs ==
  Left = [p \in Timers |-> IF OSTmrState[p] = "RUNNING" THEN (OSTmrMatch[p] - OSTmrTime) % TimeModulus ELSE 0]
  BY DEF Left, OSTmrRemainGet

LEMMA LeftSets ==
  ASSUME NEW p \in Timers, NEW st \in States, OSTmrState \in [Timers -> States],
         OSTmrState' = [OSTmrState EXCEPT ![p] = st], OSTmrTime' = OSTmrTime,
         \A q \in Timers \ {p} : OSTmrMatch'[q] = OSTmrMatch[q]
  PROVE  Left' = [Left EXCEPT ![p] = IF st = "RUNNING" THEN (OSTmrMatch'[p] - OSTmrTime) % TimeModulus ELSE 0]
<1>1. \A q \in Timers : OSTmrState'[q] = IF q = p THEN st ELSE OSTmrState[q]
  OBVIOUS
<1>2. Left' = [q \in Timers |-> IF OSTmrState'[q] = "RUNNING" THEN (OSTmrMatch'[q] - OSTmrTime') % TimeModulus ELSE 0]
  BY DEF Left, OSTmrRemainGet
<1>. QED BY <1>1, <1>2, LeftIs

LEMMA SettingSets ==
  ASSUME NEW p \in Timers, NEW st \in States, OSTmrState \in [Timers -> States],
         OSTmrState' = [OSTmrState EXCEPT ![p] = st],
         \A q \in Timers \ {p} : /\ OSTmrOpt'[q] = OSTmrOpt[q] /\ OSTmrDly'[q] = OSTmrDly[q]
                                 /\ OSTmrPeriod'[q] = OSTmrPeriod[q]
  PROVE  Setting' = [Setting EXCEPT ![p] = IF st = "UNUSED" THEN [opt |-> "NONE"]
                       ELSE [opt |-> OSTmrOpt'[p], dly |-> OSTmrDly'[p], period |-> OSTmrPeriod'[p]]]
<1>1. \A q \in Timers : OSTmrState'[q] = IF q = p THEN st ELSE OSTmrState[q]
  OBVIOUS
<1>. QED BY <1>1 DEF Setting

-----------------------------------------------------------------------------
(* The steps of TmrAbs, told of these.                                     *)
LEMMA AbsCreate ==
  ASSUME NEW p \in Timers, NEW set \in Settings, Open, Ringing' = Ringing, Mode[p] = "unused",
         Mode' = [Mode EXCEPT ![p] = "idle"], Left' = [Left EXCEPT ![p] = 0],
         Setting' = [Setting EXCEPT ![p] = set]
  PROVE  Abs!AbsNext
<1>1. Abs!Create(p, set)
  BY DEF Abs!Create, Abs!Service, Abs!Due, Abs!Change, Mode, ModeName, Left, Setting, Ringing, Open, Quiet
<1>. QED BY <1>1 DEF Abs!AbsNext

(* A step that changes the modes and the ticks left as AbsStart does.      *)
LEMMA AbsStart ==
  ASSUME NEW p \in Timers, Open, Ringing' = Ringing, Mode[p] # "unused",
         Mode' = [Mode EXCEPT ![p] = "running"],
         Left' = [Left EXCEPT ![p] = IF Setting[p].dly = 0 THEN Setting[p].period ELSE Setting[p].dly],
         Setting' = Setting
  PROVE  Abs!AbsNext
<1>1. Abs!Start(p)
  BY DEF Abs!Start, Abs!Service, Abs!Due, Abs!Change, Mode, ModeName, Left, Setting, Ringing, Open, Quiet
<1>. QED BY <1>1 DEF Abs!AbsNext

LEMMA AbsStop ==
  ASSUME NEW p \in Timers, Open, Ringing' = Ringing, Mode[p] = "running",
         Mode' = [Mode EXCEPT ![p] = "idle"], Left' = [Left EXCEPT ![p] = 0],
         Setting' = Setting
  PROVE  Abs!AbsNext
<1>1. Abs!Stop(p)
  BY DEF Abs!Stop, Abs!Service, Abs!Due, Abs!Change, Mode, ModeName, Left, Setting, Ringing, Open, Quiet
<1>. QED BY <1>1 DEF Abs!AbsNext

LEMMA AbsDelete ==
  ASSUME NEW p \in Timers, Open, Ringing' = Ringing, Mode[p] # "unused",
         Mode' = [Mode EXCEPT ![p] = "unused"], Left' = [Left EXCEPT ![p] = 0],
         Setting' = [Setting EXCEPT ![p] = [opt |-> "NONE"]]
  PROVE  Abs!AbsNext
<1>1. Abs!Delete(p)
  BY DEF Abs!Delete, Abs!Service, Abs!Due, Abs!Change, Mode, ModeName, Left, Setting, Ringing, Open, Quiet
<1>. QED BY <1>1 DEF Abs!AbsNext

LEMMA AbsTick ==
  ASSUME Quiet, Ringing = NULL, Ringing' = NULL, Mode' = Mode, Setting' = Setting,
         Left' = [p \in Timers |-> IF Mode[p] = "running" THEN Left[p] - 1 ELSE Left[p]]
  PROVE  Abs!AbsNext
<1>1. Abs!Tick
  BY DEF Abs!Tick, Abs!Due, Mode, ModeName, Left, Setting, Ringing, Quiet
<1>. QED BY <1>1 DEF Abs!AbsNext

LEMMA AbsFire ==
  ASSUME NEW p \in Timers, Mode[p] = "running", Left[p] = 0, Ringing = NULL, Ringing' = p, Setting' = Setting,
         Mode' = [Mode EXCEPT ![p] = IF Setting[p].opt = "PERIODIC" THEN "running" ELSE "idle"],
         Left' = [Left EXCEPT ![p] = IF Setting[p].opt = "PERIODIC" THEN Setting[p].period ELSE 0]
  PROVE  Abs!AbsNext
<1>1. Abs!Fire(p)
  BY DEF Abs!Fire, Abs!Due, Abs!Change, Mode, ModeName, Left, Setting, Ringing
<1>. QED BY <1>1 DEF Abs!AbsNext

LEMMA AbsReturn ==
  ASSUME Ringing # NULL, Ringing' = NULL, UNCHANGED <<Mode, Setting, Left>>
  PROVE  Abs!AbsNext
<1>1. Abs!Return
  BY DEF Abs!Return, Mode, ModeName, Left, Setting, Ringing
<1>. QED BY <1>1 DEF Abs!AbsNext

LEMMA AbsStutter ==
  ASSUME UNCHANGED <<Mode, Setting, Left, Ringing>>
  PROVE  UNCHANGED Abs!absVars
  BY DEF Abs!absVars, Mode, ModeName, Left, Setting, Ringing
-----------------------------------------------------------------------------
(* The services are steps of TmrAbs.                                       *)
LEMMA OpenOften ==
  ASSUME IInv, at \in {"pend", "callback"}
  PROVE  Open
<1>1. CASE at = "callback"
  BY <1>1 DEF Open, Ringing, IInv, Typed
<1>2. CASE at = "pend"
  <2>1. NoTimerPassed /\ Ahead = {}
    BY <1>2, NoneFromInv DEF Ahead
  <2>2. ASSUME NEW p \in Timers, Mode[p] = "running", Left[p] = 0 PROVE FALSE
    <3>1. OSTmrState[p] = "RUNNING"
      BY <2>2 DEF Mode, ModeName
    <3>2. OSTmrRemainGet(p) = 0
      BY <2>2, <3>1 DEF Left
    <3>. QED BY <2>1, <3>1, <3>2 DEF NoTimerPassed
  <2>. QED BY <2>2 DEF Open, Quiet
<1>. QED BY <1>1, <1>2

(* No timer rings, or the same one does.                                   *)
LEMMA RingingStays ==
  ASSUME UNCHANGED task
  PROVE  Ringing' = Ringing
  BY DEF task, Ringing

(* Unlinking changes no match value.                                       *)
LEMMA OffMatch ==
  ASSUME IInv, NEW p \in Timers
  PROVE  Off(p).match = OSTmrMatch /\ Off(p) \in ListsType
<1>1. Lists \in ListsType
  BY WellTyped DEF IInv, WellPlaced
<1>2. PICK l : l = Lists
  OBVIOUS
<1>3. UnlinkedTo(l, OSTmr_Unlink(l, p), p, Spoke(l.match[p]))
  BY <1>1, <1>2, UnlinkFields
<1>4. OSTmr_Unlink(l, p).match = l.match /\ OSTmr_Unlink(l, p) \in ListsType
  BY <1>3 DEF UnlinkedTo
<1>. QED BY <1>1, <1>2, <1>4, ListsFields DEF Off

(* OSTmrCreate() makes a timer.                                            *)
LEMMA CreateSim ==
  ASSUME IInv, Open, NEW set \in Settings, OSTmrCreate(set), UNCHANGED <<clock, task>>
  PROVE  Abs!AbsNext
<1>1. PICK p : p = OSTmrFreeList /\ p # NULL
  BY DEF OSTmrCreate
<1>2. /\ OSTmrState' = [OSTmrState EXCEPT ![p] = "STOPPED"]
      /\ OSTmrOpt' = [OSTmrOpt EXCEPT ![p] = set.opt]
      /\ OSTmrDly' = [OSTmrDly EXCEPT ![p] = set.dly]
      /\ OSTmrPeriod' = [OSTmrPeriod EXCEPT ![p] = set.period]
      /\ OSTmrMatch' = OSTmrMatch /\ OSTmrTime' = OSTmrTime
  BY <1>1 DEF OSTmrCreate, clock
<1>3. p \in Timers /\ OSTmrState[p] = "UNUSED"
  <2>1. p \in InState("UNUSED")
    <3>1. PICK l, run, unu : l = Lists /\ run = InState("RUNNING") /\ unu = InState("UNUSED")
      OBVIOUS
    <3>0. PICK time, x : time = OSTmrTime /\ x = Here
      OBVIOUS
    <3>2. Well(l, p, run, unu, time, x)
      BY <1>1, <3>0, <3>1 DEF IInv, WellPlaced
    <3>3. p \in unu
      BY <1>1, <3>2, FreeIsUnused
    <3>. QED BY <3>1, <3>3
  <2>. QED BY <2>1 DEF InState
<1>4. /\ OSTmrState \in [Timers -> States] /\ "STOPPED" \in States
      /\ OSTmrOpt \in [Timers -> Opts \cup {"NONE"}]
      /\ OSTmrDly \in [Timers -> Ticks] /\ OSTmrPeriod \in [Timers -> Ticks]
  BY DEF IInv, Typed, States
<1>5. Mode' = [Mode EXCEPT ![p] = "idle"]
  <2>1. Mode' = [Mode EXCEPT ![p] = ModeName("STOPPED")]
    BY <1>2, <1>3, <1>4, ModeSets
  <2>. QED BY <2>1 DEF ModeName
<1>6. Left' = [Left EXCEPT ![p] = 0]
  <2>1. PICK st \in States : st = "STOPPED"
    BY <1>4
  <2>2. Left' = [Left EXCEPT ![p] = IF st = "RUNNING" THEN (OSTmrMatch'[p] - OSTmrTime) % TimeModulus ELSE 0]
    BY <1>2, <1>3, <1>4, <2>1, LeftSets
  <2>. QED BY <2>1, <2>2
<1>7. Setting' = [Setting EXCEPT ![p] = set]
  <2>1. PICK st \in States : st = "STOPPED"
    BY <1>4
  <2>2. \A q \in Timers \ {p} : /\ OSTmrOpt'[q] = OSTmrOpt[q] /\ OSTmrDly'[q] = OSTmrDly[q]
                                /\ OSTmrPeriod'[q] = OSTmrPeriod[q]
    BY <1>2, <1>4
  <2>3. Setting' = [Setting EXCEPT ![p] = IF st = "UNUSED" THEN [opt |-> "NONE"]
                      ELSE [opt |-> OSTmrOpt'[p], dly |-> OSTmrDly'[p], period |-> OSTmrPeriod'[p]]]
    BY <1>2, <1>3, <1>4, <2>1, <2>2, SettingSets
  <2>4. OSTmrOpt'[p] = set.opt /\ OSTmrDly'[p] = set.dly /\ OSTmrPeriod'[p] = set.period
    BY <1>2, <1>3, <1>4
  <2>5. set = [opt |-> set.opt, dly |-> set.dly, period |-> set.period]
    <3>1. set \in [opt : Opts, dly : Ticks, period : Ticks]
      BY Sizes
    <3>. QED BY <3>1
  <2>. QED BY <2>1, <2>3, <2>4, <2>5
<1>8. Mode[p] = "unused"
  BY <1>3 DEF Mode, ModeName
<1>. QED BY <1>3, <1>5, <1>6, <1>7, <1>8, RingingStays, AbsCreate

(* OSTmrDel() deletes one.                                                 *)
LEMMA DelSim ==
  ASSUME IInv, Open, NEW p \in Timers, OSTmrDel(p), UNCHANGED <<clock, task>>
  PROVE  Abs!AbsNext
<1>1. PICK l : l = Off(p)
  OBVIOUS
<1>2. PICK m : m = [l EXCEPT !.next[p] = OSTmrFreeList, !.prev[p] = NULL, !.match[p] = 0]
  OBVIOUS
<1>3. /\ BecomeLists(m) /\ OSTmrState[p] # "UNUSED"
      /\ OSTmrState' = [OSTmrState EXCEPT ![p] = "UNUSED"]
      /\ OSTmrOpt' = [OSTmrOpt EXCEPT ![p] = "NONE"]
      /\ OSTmrPeriod' = [OSTmrPeriod EXCEPT ![p] = 0]
      /\ OSTmrDly' = OSTmrDly /\ OSTmrTime' = OSTmrTime
  BY <1>1, <1>2 DEF OSTmrDel, OSTmr_Free, Off, clock
<1>4. \A q \in Timers \ {p} : OSTmrMatch'[q] = OSTmrMatch[q]
  <2>1. l \in ListsType /\ l.match = OSTmrMatch
    BY <1>1, OffMatch
  <2>2. m.match = [l.match EXCEPT ![p] = 0]
    BY <1>2, <2>1 DEF ListsType
  <2>3. OSTmrMatch' = m.match
    BY <1>3 DEF BecomeLists
  <2>4. l.match \in [Timers -> Ticks]
    BY <2>1 DEF ListsType
  <2>. QED BY <2>1, <2>2, <2>3, <2>4
<1>5. /\ OSTmrState \in [Timers -> States] /\ "UNUSED" \in States
      /\ OSTmrOpt \in [Timers -> Opts \cup {"NONE"}]
      /\ OSTmrDly \in [Timers -> Ticks] /\ OSTmrPeriod \in [Timers -> Ticks]
  BY DEF IInv, Typed, States
<1>6. PICK st \in States : st = "UNUSED"
  BY <1>5
<1>7. Mode' = [Mode EXCEPT ![p] = "unused"]
  <2>1. Mode' = [Mode EXCEPT ![p] = ModeName(st)]
    BY <1>3, <1>5, <1>6, ModeSets
  <2>. QED BY <1>6, <2>1 DEF ModeName
<1>8. Left' = [Left EXCEPT ![p] = 0]
  <2>1. Left' = [Left EXCEPT ![p] = IF st = "RUNNING" THEN (OSTmrMatch'[p] - OSTmrTime) % TimeModulus ELSE 0]
    BY <1>3, <1>4, <1>5, <1>6, LeftSets
  <2>. QED BY <1>6, <2>1
<1>9. Setting' = [Setting EXCEPT ![p] = [opt |-> "NONE"]]
  <2>1. \A q \in Timers \ {p} : /\ OSTmrOpt'[q] = OSTmrOpt[q] /\ OSTmrDly'[q] = OSTmrDly[q]
                                /\ OSTmrPeriod'[q] = OSTmrPeriod[q]
    BY <1>3, <1>5
  <2>2. Setting' = [Setting EXCEPT ![p] = IF st = "UNUSED" THEN [opt |-> "NONE"]
                      ELSE [opt |-> OSTmrOpt'[p], dly |-> OSTmrDly'[p], period |-> OSTmrPeriod'[p]]]
    BY <1>3, <1>5, <1>6, <2>1, SettingSets
  <2>. QED BY <1>6, <2>2
<1>10. Mode[p] # "unused"
  BY <1>3 DEF Mode, ModeName
<1>. QED BY <1>7, <1>8, <1>9, <1>10, RingingStays, AbsDelete

(* OSTmrStop() stops one.                                                  *)
LEMMA StopSim ==
  ASSUME IInv, Open, NEW p \in Timers, OSTmrStop(p), UNCHANGED <<clock, task>>
  PROVE  Abs!AbsNext
<1>1. /\ BecomeLists(Off(p)) /\ OSTmrState[p] = "RUNNING"
      /\ OSTmrState' = [OSTmrState EXCEPT ![p] = "STOPPED"]
      /\ UNCHANGED <<OSTmrOpt, OSTmrDly, OSTmrPeriod, OSTmrTime>>
  BY DEF OSTmrStop, Off, clock
<1>2. OSTmrMatch' = OSTmrMatch
  BY <1>1, OffMatch DEF BecomeLists
<1>3. OSTmrState \in [Timers -> States] /\ "STOPPED" \in States
  BY DEF IInv, Typed, States
<1>4. PICK st \in States : st = "STOPPED"
  BY <1>3
<1>5. Mode' = [Mode EXCEPT ![p] = "idle"]
  <2>1. Mode' = [Mode EXCEPT ![p] = ModeName(st)]
    BY <1>1, <1>3, <1>4, ModeSets
  <2>. QED BY <1>4, <2>1 DEF ModeName
<1>6. Left' = [Left EXCEPT ![p] = 0]
  <2>1. Left' = [Left EXCEPT ![p] = IF st = "RUNNING" THEN (OSTmrMatch'[p] - OSTmrTime) % TimeModulus ELSE 0]
    BY <1>1, <1>2, <1>3, <1>4, LeftSets
  <2>. QED BY <1>4, <2>1
<1>7. Setting' = Setting
  <2>1. \A q \in Timers : OSTmrState'[q] = "UNUSED" <=> OSTmrState[q] = "UNUSED"
    BY <1>1, <1>3
  <2>. QED BY <1>1, <2>1 DEF Setting
<1>8. Mode[p] = "running"
  BY <1>1 DEF Mode, ModeName
<1>. QED BY <1>5, <1>6, <1>7, <1>8, RingingStays, AbsStop

(* Linked now, a timer has the ticks left it was linked with.              *)
LEMMA LinkLeft ==
  ASSUME IInv, NEW p \in Timers, NEW l \in ListsType, l.match = OSTmrMatch,
         NEW ticks \in Ticks, ticks # 0, BecomeLists(OSTmr_Link(l, p, ticks, OSTmrTime))
  PROVE  /\ (OSTmrMatch'[p] - OSTmrTime) % TimeModulus = ticks
         /\ \A q \in Timers \ {p} : OSTmrMatch'[q] = OSTmrMatch[q]
<1>1. PICK time \in Ticks : time = OSTmrTime
  BY DEF IInv, Typed
<1>2. PICK d : d = (ticks + time) % TimeModulus
  OBVIOUS
<1>3. PICK m : m = OSTmr_Link(l, p, ticks, time)
  OBVIOUS
<1>4. ticks \in Nat /\ time \in Nat
  BY Sizes DEF Ticks
<1>5. LinkedTo(l, m, p, d, Spoke(d))
  BY <1>2, <1>3, <1>4, LinkFields
<1>6. OSTmrMatch' = [q \in Timers |-> IF q = p THEN d ELSE OSTmrMatch[q]]
  BY <1>1, <1>3, <1>5 DEF LinkedTo, BecomeLists
<1>7. (d - time) % TimeModulus = ticks
  BY <1>2, LaterTick
<1>. QED BY <1>1, <1>6, <1>7

(* OSTmrStart() starts one with its delay or period.                       *)
LEMMA StartSim ==
  ASSUME IInv, Open, NEW p \in Timers, OSTmrStart(p), UNCHANGED <<clock, task>>
  PROVE  Abs!AbsNext
<1>1. PICK l : l = Off(p)
  OBVIOUS
<1>2. PICK ticks : ticks = FirstDelay(p)
  OBVIOUS
<1>3. /\ BecomeLists(OSTmr_Link(l, p, ticks, OSTmrTime)) /\ OSTmrState[p] # "UNUSED"
      /\ OSTmrState' = [OSTmrState EXCEPT ![p] = "RUNNING"]
      /\ UNCHANGED <<OSTmrOpt, OSTmrDly, OSTmrPeriod, OSTmrTime>>
  BY <1>1, <1>2 DEF OSTmrStart, Off, clock
<1>4. ticks \in Ticks /\ ticks # 0
  <2>1. OSTmrDly[p] \in Ticks /\ OSTmrPeriod[p] \in Ticks
    BY DEF IInv, Typed
  <2>2. Lasts(OSTmrOpt[p], OSTmrDly[p], OSTmrPeriod[p])
    BY <1>3 DEF IInv, Typed
  <2>. QED BY <1>2, <2>1, <2>2 DEF FirstDelay, Lasts
<1>5. /\ (OSTmrMatch'[p] - OSTmrTime) % TimeModulus = ticks
      /\ \A q \in Timers \ {p} : OSTmrMatch'[q] = OSTmrMatch[q]
  <2>1. l \in ListsType /\ l.match = OSTmrMatch
    BY <1>1, OffMatch
  <2>. QED BY <1>3, <1>4, <2>1, LinkLeft
<1>6. OSTmrState \in [Timers -> States] /\ "RUNNING" \in States
  BY DEF IInv, Typed, States
<1>7. PICK st \in States : st = "RUNNING"
  BY <1>6
<1>8. Mode' = [Mode EXCEPT ![p] = "running"]
  <2>1. Mode' = [Mode EXCEPT ![p] = ModeName(st)]
    BY <1>3, <1>6, <1>7, ModeSets
  <2>. QED BY <1>7, <2>1 DEF ModeName
<1>9. Left' = [Left EXCEPT ![p] = ticks]
  <2>1. Left' = [Left EXCEPT ![p] = IF st = "RUNNING" THEN (OSTmrMatch'[p] - OSTmrTime) % TimeModulus ELSE 0]
    BY <1>3, <1>5, <1>6, <1>7, LeftSets
  <2>. QED BY <1>5, <1>7, <2>1
<1>10. Setting' = Setting
  <2>1. \A q \in Timers : OSTmrState'[q] = "UNUSED" <=> OSTmrState[q] = "UNUSED"
    BY <1>3, <1>6
  <2>. QED BY <1>3, <2>1 DEF Setting
<1>11. Mode[p] # "unused" /\ ticks = IF Setting[p].dly = 0 THEN Setting[p].period ELSE Setting[p].dly
  BY <1>2, <1>3 DEF Mode, ModeName, Setting, FirstDelay
<1>. QED BY <1>8, <1>9, <1>10, <1>11, RingingStays, AbsStart
-----------------------------------------------------------------------------
(* The timer task is the tick, the timers that fire and the returns.       *)
LEMMA TickTakesOne ==
  ASSUME NEW match \in Ticks, NEW time \in Ticks, (match - time) % TimeModulus # 0
  PROVE  (match - ((time + 1) % TimeModulus)) % TimeModulus = ((match - time) % TimeModulus) - 1
<1>1. /\ TimeModulus \in Nat /\ TimeModulus >= 1
      /\ match \in Nat /\ match < TimeModulus /\ time \in Nat /\ time < TimeModulus
  BY Sizes DEF Ticks
<1>2. CASE match > time
  <2>1. time + 1 \in Nat /\ time + 1 < TimeModulus
    BY <1>1, <1>2
  <2>2. (time + 1) % TimeModulus = time + 1
    BY <1>1, <2>1
  <2>3. PICK n \in Nat : n = match - time /\ n < TimeModulus /\ n >= 1
    BY <1>1, <1>2
  <2>4. n - 1 \in Nat /\ n - 1 < TimeModulus /\ match - (time + 1) = n - 1
    BY <1>1, <2>3
  <2>5. n % TimeModulus = n
    BY <1>1, <2>3
  <2>6. PICK k : k = n - 1
    OBVIOUS
  <2>7. k % TimeModulus = k
    BY <1>1, <2>4, <2>6
  <2>. QED BY <2>2, <2>3, <2>4, <2>5, <2>6, <2>7
<1>3. CASE match < time
  <2>1. PICK n \in Nat : n = match - time + TimeModulus /\ n < TimeModulus /\ n >= 1
    BY <1>1, <1>3
  <2>2. match - time = n - TimeModulus
    BY <1>1, <2>1
  <2>3. (match - time) % TimeModulus = n
    BY <1>1, <2>1, <2>2, WrapsBack
  <2>0. PICK k : k = n - 1
    OBVIOUS
  <2>4. k \in Nat /\ k < TimeModulus
    BY <1>1, <2>0, <2>1
  <2>5. CASE time + 1 < TimeModulus
    <3>1. time + 1 \in Nat
      BY <1>1
    <3>2. (time + 1) % TimeModulus = time + 1
      BY <1>1, <2>5, <3>1
    <3>3. match - (time + 1) = k - TimeModulus
      BY <1>1, <2>0, <2>1, <2>4
    <3>4. (k - TimeModulus) % TimeModulus = k
      BY <1>1, <2>4, WrapsBack
    <3>. QED BY <2>0, <2>3, <3>2, <3>3, <3>4
  <2>6. CASE time + 1 = TimeModulus
    <3>1. TimeModulus % TimeModulus = 0
      BY <1>1
    <3>2. (time + 1) % TimeModulus = 0
      BY <2>6, <3>1
    <3>3. match - 0 = k
      BY <1>1, <2>0, <2>1, <2>6
    <3>4. k % TimeModulus = k
      BY <1>1, <2>4
    <3>. QED BY <2>0, <2>3, <3>2, <3>3, <3>4
  <2>. QED BY <1>1, <2>5, <2>6
<1>4. CASE match = time
  <2>1. match - time = 0 /\ 0 % TimeModulus = 0
    BY <1>1, <1>4
  <2>. QED BY <2>1
<1>. QED BY <1>1, <1>2, <1>3, <1>4

(* A tick is the tick of TmrAbs: each running timer has one left less.     *)
LEMMA SignalledSim ==
  ASSUME IInv, TmrTaskSignalled
  PROVE  Abs!AbsNext
<1>1. /\ at = "pend" /\ OSTmrTime' = (OSTmrTime + 1) % TimeModulus
      /\ at' = IF ptmr' = NULL THEN "pend" ELSE "walk"
      /\ UNCHANGED <<OSTmrState, OSTmrOpt, OSTmrDly, OSTmrPeriod, OSTmrMatch>>
  BY DEF TmrTaskSignalled, WalkFrom, tmrs, links
<1>2. Ringing = NULL /\ Ringing' = NULL
  BY <1>1 DEF Ringing
<1>3. Quiet
  BY <1>1, <1>2, OpenOften DEF Open
<1>4. Mode' = Mode /\ Setting' = Setting
  BY <1>1 DEF Mode, Setting
<1>5. /\ OSTmrMatch \in [Timers -> Ticks] /\ OSTmrTime \in Ticks
  <2>1. Lists \in ListsType
    BY WellTyped DEF IInv, WellPlaced
  <2>. QED BY <2>1, ListsFields DEF ListsType, IInv, Typed
<1>6. Left' = [p \in Timers |-> IF Mode[p] = "running" THEN Left[p] - 1 ELSE Left[p]]
  <2>1. Left' = [p \in Timers |-> IF OSTmrState[p] = "RUNNING"
                                  THEN (OSTmrMatch[p] - ((OSTmrTime + 1) % TimeModulus)) % TimeModulus ELSE 0]
    BY <1>1 DEF Left, OSTmrRemainGet
  <2>2. ASSUME NEW p \in Timers, OSTmrState[p] = "RUNNING"
        PROVE  /\ Mode[p] = "running"
               /\ (OSTmrMatch[p] - ((OSTmrTime + 1) % TimeModulus)) % TimeModulus = Left[p] - 1
    <3>1. Left[p] = (OSTmrMatch[p] - OSTmrTime) % TimeModulus
      BY <2>2, LeftIs
    <3>2. Mode[p] = "running"
      BY <2>2 DEF Mode, ModeName
    <3>3. Left[p] # 0
      BY <1>3, <3>2 DEF Quiet
    <3>4. PICK a \in Ticks, b \in Ticks : a = OSTmrMatch[p] /\ b = OSTmrTime
      BY <1>5
    <3>5. (a - b) % TimeModulus # 0
      BY <3>1, <3>3, <3>4
    <3>6. (a - ((b + 1) % TimeModulus)) % TimeModulus = ((a - b) % TimeModulus) - 1
      BY <3>5, TickTakesOne
    <3>. QED BY <3>1, <3>2, <3>4, <3>6
  <2>3. ASSUME NEW p \in Timers, OSTmrState[p] # "RUNNING" PROVE Mode[p] # "running" /\ Left[p] = 0
    BY <2>3 DEF Mode, ModeName, Left
  <2>4. \A p \in Timers :
          (IF OSTmrState[p] = "RUNNING"
             THEN (OSTmrMatch[p] - ((OSTmrTime + 1) % TimeModulus)) % TimeModulus ELSE 0)
            = IF Mode[p] = "running" THEN Left[p] - 1 ELSE Left[p]
    BY <2>2, <2>3
  <2>. QED BY <2>1, <2>4, Zenon
<1>. QED BY <1>2, <1>3, <1>4, <1>6, AbsTick

(* The walk fires a timer with no tick left.                               *)
LEMMA FireSim ==
  ASSUME IInv, at = "walk", Fire(ptmr), UNCHANGED <<clock, OSTmrFreeList>>
  PROVE  Abs!AbsNext
<1>1. PICK p \in Timers : p = ptmr
  BY DEF IInv, Typed, Ptr
<1>2. PICK l : l = OSTmr_Unlink(Lists, p)
  OBVIOUS
<1>3. /\ OSTmrTime = OSTmrMatch[p] /\ at' = "callback" /\ ptmr' = p
      /\ UNCHANGED <<OSTmrOpt, OSTmrDly, OSTmrPeriod, OSTmrTime>>
      /\ IF OSTmrOpt[p] = "PERIODIC"
           THEN /\ BecomeLists(OSTmr_Link(l, p, OSTmrPeriod[p], OSTmrTime))
                /\ OSTmrState' = [OSTmrState EXCEPT ![p] = "RUNNING"]
           ELSE /\ BecomeLists(l)
                /\ OSTmrState' = [OSTmrState EXCEPT ![p] = "COMPLETED"]
  BY <1>1, <1>2 DEF Fire, Expired, clock
<1>4. OSTmrState[p] = "RUNNING"
  BY <1>1, FireSafe
<1>5. l \in ListsType /\ l.match = OSTmrMatch
  BY <1>2, <1>4, OffMatch DEF Off
<1>6. /\ OSTmrState \in [Timers -> States] /\ "RUNNING" \in States /\ "COMPLETED" \in States
      /\ Lasts(OSTmrOpt[p], OSTmrDly[p], OSTmrPeriod[p]) /\ OSTmrPeriod[p] \in Ticks
  BY <1>4 DEF IInv, Typed, States
<1>7. PICK st \in States : st = IF OSTmrOpt[p] = "PERIODIC" THEN "RUNNING" ELSE "COMPLETED"
  BY <1>6
<1>8. OSTmrState' = [OSTmrState EXCEPT ![p] = st]
  BY <1>3, <1>7
<1>9. PICK ticks : ticks = IF OSTmrOpt[p] = "PERIODIC" THEN OSTmrPeriod[p] ELSE 0
  OBVIOUS
<1>10. /\ \A q \in Timers \ {p} : OSTmrMatch'[q] = OSTmrMatch[q]
       /\ OSTmrOpt[p] = "PERIODIC" => (OSTmrMatch'[p] - OSTmrTime) % TimeModulus = OSTmrPeriod[p]
  <2>1. CASE OSTmrOpt[p] = "PERIODIC"
    <3>1. PICK n \in Ticks : n = OSTmrPeriod[p] /\ n # 0
      BY <1>6, <2>1 DEF Lasts
    <3>2. BecomeLists(OSTmr_Link(l, p, n, OSTmrTime))
      BY <1>3, <2>1, <3>1
    <3>. QED BY <1>5, <3>1, <3>2, LinkLeft
  <2>2. CASE OSTmrOpt[p] # "PERIODIC"
    BY <1>3, <1>5, <2>2 DEF BecomeLists
  <2>. QED BY <2>1, <2>2
<1>11. Mode' = [Mode EXCEPT ![p] = IF Setting[p].opt = "PERIODIC" THEN "running" ELSE "idle"]
  <2>1. Mode' = [Mode EXCEPT ![p] = ModeName(st)]
    BY <1>6, <1>8, ModeSets
  <2>2. Setting[p].opt = OSTmrOpt[p]
    BY <1>4 DEF Setting
  <2>3. ModeName(st) = IF Setting[p].opt = "PERIODIC" THEN "running" ELSE "idle"
    BY <1>7, <2>2 DEF ModeName
  <2>. QED BY <2>1, <2>3
<1>12. Left' = [Left EXCEPT ![p] = IF Setting[p].opt = "PERIODIC" THEN Setting[p].period ELSE 0]
  <2>1. Left' = [Left EXCEPT ![p] = IF st = "RUNNING" THEN (OSTmrMatch'[p] - OSTmrTime) % TimeModulus ELSE 0]
    BY <1>3, <1>6, <1>8, <1>10, LeftSets
  <2>2. Setting[p].opt = OSTmrOpt[p] /\ Setting[p].period = OSTmrPeriod[p]
    BY <1>4 DEF Setting
  <2>3. (IF st = "RUNNING" THEN (OSTmrMatch'[p] - OSTmrTime) % TimeModulus ELSE 0)
          = IF Setting[p].opt = "PERIODIC" THEN Setting[p].period ELSE 0
    BY <1>7, <1>10, <2>2
  <2>. QED BY <2>1, <2>3
<1>13. Setting' = Setting
  <2>1. \A q \in Timers : OSTmrState'[q] = "UNUSED" <=> OSTmrState[q] = "UNUSED"
    BY <1>4, <1>6, <1>7, <1>8
  <2>. QED BY <1>3, <2>1 DEF Setting
<1>14. Mode[p] = "running" /\ Left[p] = 0 /\ Ringing = NULL /\ Ringing' = p
  <2>1. OSTmrTime \in Int
    BY Sizes DEF IInv, Typed, Ticks
  <2>2. (OSTmrMatch[p] - OSTmrTime) % TimeModulus = 0
    BY <1>3, <2>1, Sizes
  <2>. QED BY <1>3, <1>4, <2>2, LeftIs DEF Mode, ModeName, Ringing
<1>. QED BY <1>11, <1>12, <1>13, <1>14, AbsFire

(* Any step is a step of TmrAbs, or changes nothing it sees.               *)
LEMMA NextSim ==
  ASSUME IInv, [Next]_tmrVars
  PROVE  [Abs!AbsNext]_(Abs!absVars)
<1>1. CASE TaskService
  <2>1. at = "pend" /\ UNCHANGED <<clock, task>> /\ Open
    BY <1>1, OpenOften DEF TaskService
  <2>. QED BY <1>1, <2>1, CreateSim, DelSim, StartSim, StopSim DEF TaskService, ServiceOn
<1>2. CASE CallbackService
  <2>1. at = "callback" /\ UNCHANGED <<clock, task>> /\ Open
    BY <1>2, OpenOften DEF CallbackService
  <2>. QED BY <1>2, <2>1, CreateSim, DelSim, StartSim, StopSim DEF CallbackService, ServiceOn
<1>3. CASE TmrTaskSignalled
  BY <1>3, SignalledSim
<1>4. CASE TmrTaskStep
  <2>1. CASE Fire(ptmr)
    BY <1>4, <2>1, FireSim DEF TmrTaskStep
  <2>2. CASE Skip(ptmr)
    <3>1. /\ UNCHANGED <<OSTmrState, OSTmrOpt, OSTmrDly, OSTmrPeriod, OSTmrMatch, OSTmrTime>>
          /\ at = "walk" /\ at' # "callback"
      BY <1>4, <2>2 DEF TmrTaskStep, Skip, WalkFrom, tmrs, links, clock
    <3>2. UNCHANGED <<Mode, Setting, Left, Ringing>>
      BY <3>1 DEF Mode, Setting, Left, OSTmrRemainGet, Ringing
    <3>. QED BY <3>2, AbsStutter
  <2>. QED BY <1>4, <2>1, <2>2 DEF TmrTaskStep
<1>5. CASE TmrTaskAdvance
  <2>1. /\ UNCHANGED <<OSTmrState, OSTmrOpt, OSTmrDly, OSTmrPeriod, OSTmrMatch, OSTmrTime>>
        /\ at = "callback" /\ at' # "callback"
    BY <1>5 DEF TmrTaskAdvance, WalkFrom, tmrs, links, clock
  <2>2. UNCHANGED <<Mode, Setting, Left>>
    BY <2>1 DEF Mode, Setting, Left, OSTmrRemainGet
  <2>3. Ringing # NULL /\ Ringing' = NULL
    BY <2>1 DEF Ringing, IInv, Typed
  <2>. QED BY <2>2, <2>3, AbsReturn
<1>6. CASE OSTmrSignal \/ UNCHANGED tmrVars
  <2>1. UNCHANGED <<OSTmrState, OSTmrOpt, OSTmrDly, OSTmrPeriod, OSTmrMatch, OSTmrTime, at, ptmr>>
    BY <1>6 DEF OSTmrSignal, tmrVars, tmrs, links, task, clock
  <2>2. UNCHANGED <<Mode, Setting, Left, Ringing>>
    BY <2>1 DEF Mode, Setting, Left, OSTmrRemainGet, Ringing
  <2>. QED BY <2>2, AbsStutter
<1>. QED BY <1>1, <1>2, <1>3, <1>4, <1>5, <1>6 DEF Next, TmrTask

(* Before the first tick no timer exists.                                  *)
LEMMA SimInit == Init => Abs!AbsInit
<1> SUFFICES ASSUME Init PROVE Abs!AbsInit
  OBVIOUS
<1>1. /\ \A p \in Timers : OSTmrState[p] = "UNUSED"
      /\ at = "pend"
  BY DEF Init, OSTmr_Init
<1>2. /\ Mode = [p \in Timers |-> "unused"]
      /\ Setting = [p \in Timers |-> [opt |-> "NONE"]]
      /\ Left = [p \in Timers |-> 0]
      /\ Ringing = NULL
  BY <1>1 DEF Mode, ModeName, Setting, Left, Ringing
<1>. QED BY <1>2 DEF Abs!AbsInit, Mode, ModeName, Setting, Left, Ringing

(* The wheel, its walk and the clock that wraps implement the timers of    *)
(* TmrAbs: a timer fires exactly as many ticks after its start as it was   *)
(* created with, and once.                                                 *)
THEOREM TimersImplemented == ~CallbacksTouchNext /\ Spec => ImplementsTimers
<1>1. IInv /\ [Next]_tmrVars => [Abs!AbsNext]_(Abs!absVars)
  BY NextSim
<1>. QED BY <1>1, SimInit, TmrInvariance, PTL DEF Spec, ImplementsTimers, Abs!AbsSpec

-----------------------------------------------------------------------------
(***************************************************************************)
(* The serial channel, for any line, any sizes of the queues and any       *)
(* longest packet: nothing is assumed of the bytes that arrive.            *)
(***************************************************************************)
(* The packet being received is as long as its length byte allows, and the *)
(* length byte is there once four bytes are.                               *)
Packets ==
  /\ \E S : cmd \in Seq(S)
  /\ Len(cmd) > 3 => cmd[4] \in 5 .. MAX_SAPACKET_LEN /\ Len(cmd) <= cmd[4]
  /\ touched \in 0 .. MAX_SAPACKET_LEN + 1

Received ==
  /\ \E S : rxfifo \in Seq(S)
  /\ Row(rxfifo) /\ Len(rxfifo) <= RxSize

Receiving == Packets /\ Received

(* A row stays one when a command is put at its end.                       *)
LEMMA RowGrows ==
  ASSUME NEW S, NEW q \in Seq(S), Row(q),
         NEW T, NEW r \in Seq(T), r # <<>>, r[1] = Len(r)
  PROVE  Row(q \o r)
<1>1. PICK cuts \in SUBSET (0 .. Len(q)) : CutAt(q, cuts)
  BY DEF Row
<1> DEFINE n == Len(q)  m == Len(r)  s == q \o r
<1>2. q \in Seq(S \cup T) /\ r \in Seq(S \cup T)
  BY SeqMonotonic
<1>3. n \in Nat /\ m \in Nat \ {0}
  BY EmptySeq, LenProperties
<1>4. /\ Len(s) = n + m
      /\ \A i \in 1 .. n : s[i] = q[i]
      /\ \A i \in 1 .. m : s[n + i] = r[i]
  <2>1. Len(s) = n + m /\ \A i \in 1 .. n + m : s[i] = IF i <= n THEN q[i] ELSE r[i - n]
    BY <1>2, ConcatProperties
  <2>2. ASSUME NEW i \in 1 .. m PROVE s[n + i] = r[i]
    BY <1>3, <2>1
  <2>. QED BY <1>3, <2>1, <2>2
<1> DEFINE more == cuts \cup {n + m}
<1>5. more \in SUBSET (0 .. Len(s)) /\ {0, Len(s)} \subseteq more
  <2>1. 0 .. n \subseteq 0 .. n + m /\ n + m \in 0 .. n + m
    BY <1>3
  <2>2. 0 \in cuts
    BY <1>1 DEF CutAt
  <2>. QED BY <1>1, <1>4, <2>1, <2>2
<1>6. ASSUME NEW c \in more, c < Len(s)
      PROVE  s[c + 1] \in 1 .. Len(s) - c /\ c + s[c + 1] \in more
  <2>1. c \in cuts /\ c \in 0 .. n
    BY <1>3, <1>4, <1>6
  <2>2. CASE c < n
    <3>1. s[c + 1] = q[c + 1]
      BY <1>3, <1>4, <2>1, <2>2
    <3>. QED BY <1>1, <2>1, <2>2, <3>1 DEF CutAt
  <2>3. CASE c = n
    <3>1. s[n + 1] = r[1]
      BY <1>3, <1>4
    <3>. QED BY <1>3, <2>3, <3>1
  <2>. QED BY <1>3, <2>1, <2>2, <2>3
<1>7. CutAt(s, more)
  BY <1>5, <1>6 DEF CutAt
<1>. QED BY <1>5, <1>7 DEF Row

(* ... and when its first command is taken away.                           *)
LEMMA RowShrinks ==
  ASSUME NEW S, NEW q \in Seq(S), Row(q), q # <<>>
  PROVE  /\ q[1] \in 1 .. Len(q)
         /\ Row(SubSeq(q, q[1] + 1, Len(q)))
<1>1. PICK cuts \in SUBSET (0 .. Len(q)) : CutAt(q, cuts)
  BY DEF Row
<1> DEFINE n == Len(q)  k == q[1]  s == SubSeq(q, k + 1, n)
<1>2. n \in Nat \ {0}
  BY EmptySeq, LenProperties
<1>3. k \in 1 .. n /\ k \in cuts
  <2>1. 0 \in cuts /\ 0 < n
    BY <1>1, <1>2 DEF CutAt
  <2>2. q[0 + 1] \in 1 .. n - 0 /\ 0 + q[0 + 1] \in cuts
    BY <1>1, <2>1 DEF CutAt
  <2>. QED BY <1>2, <2>2
<1> HIDE DEF k
<1> SUFFICES k \in 1 .. n /\ Row(s)
  BY DEF k
<1>4. k \in 1 .. n
  BY <1>3
<1>5. Len(s) = n - k /\ \A i \in 1 .. n - k : s[i] = q[k + i]
  <2>1. /\ k + 1 \in 1 .. n + 1 /\ n \in k .. n
    BY <1>2, <1>4
  <2>2. /\ Len(s) = IF k + 1 <= n THEN n - (k + 1) + 1 ELSE 0
        /\ \A i \in 1 .. n - (k + 1) + 1 : s[i] = q[k + 1 + i - 1]
    BY <1>2, <1>4, <2>1, SubSeqProperties
  <2>. QED BY <1>2, <1>4, <2>2
<1> DEFINE rest == {c \in 0 .. n - k : c + k \in cuts}
<1>6. rest \in SUBSET (0 .. Len(s)) /\ {0, Len(s)} \subseteq rest
  <2>1. 0 \in rest
    BY <1>2, <1>3, <1>4
  <2>2. n - k \in rest
    BY <1>1, <1>2, <1>4 DEF CutAt
  <2>. QED BY <1>5, <2>1, <2>2
<1>7. ASSUME NEW c \in rest, c < Len(s)
      PROVE  s[c + 1] \in 1 .. Len(s) - c /\ c + s[c + 1] \in rest
  <2>1. c + k \in cuts /\ c + k < n /\ c \in 0 .. n - k
    BY <1>2, <1>4, <1>5, <1>7
  <2>2. q[c + k + 1] \in 1 .. n - (c + k) /\ c + k + q[c + k + 1] \in cuts
    BY <1>1, <2>1 DEF CutAt
  <2>3. s[c + 1] = q[c + k + 1]
    <3>1. c + 1 \in 1 .. n - k /\ k + (c + 1) = c + k + 1
      BY <1>2, <1>4, <1>5, <2>1
    <3>2. s[c + 1] = q[k + (c + 1)]
      BY <1>5, <3>1
    <3>. QED BY <3>1, <3>2
  <2> DEFINE x == q[c + k + 1]
  <2>4. x \in 1 .. n - (c + k) /\ c + k + x \in cuts /\ s[c + 1] = x
    BY <2>2, <2>3
  <2> HIDE DEF x
  <2>5. c + x \in 0 .. n - k /\ (c + x) + k = c + k + x /\ x \in 1 .. (n - k) - c
    BY <1>2, <1>4, <2>1, <2>4
  <2>. QED BY <1>5, <2>4, <2>5
<1>8. CutAt(s, rest)
  BY <1>6, <1>7 DEF CutAt
<1>. QED BY <1>4, <1>6, <1>8 DEF Row

-----------------------------------------------------------------------------
(* What a packet carries fits, because the receiver looked for room for a  *)
(* whole packet.                                                           *)
LEMMA CommandPut ==
  ASSUME SAAssumption, Receiving, RoomForPacket, Len(cmd) > 3, Len(cmd) = cmd[4],
         rxfifo' = fifo_in(rxfifo, <<cmd[4] - 3>> \o SubSeq(cmd, 5, Len(cmd)), RxSize)
  PROVE  Received'
<1>1. PICK S : cmd \in Seq(S)
  BY DEF Receiving, Packets
<1>2. PICK T : rxfifo \in Seq(T)
  BY DEF Receiving, Received
<1> DEFINE n == cmd[4]  data == SubSeq(cmd, 5, Len(cmd))  r == <<n - 3>> \o data
<1>3. n \in 5 .. MAX_SAPACKET_LEN /\ Len(cmd) = n
  BY DEF Receiving, Packets
<1>4. n \in Nat /\ MAX_SAPACKET_LEN \in Nat /\ RxSize \in Nat /\ Len(rxfifo) \in Nat
  BY <1>2, <1>3, LenProperties DEF SAAssumption
<1>5. data \in Seq(S) /\ Len(data) = n - 4
  <2>1. 5 \in 1 .. n + 1 /\ n \in 4 .. n
    BY <1>3, <1>4
  <2>. QED BY <1>1, <1>3, <1>4, <2>1, SubSeqProperties
<1> DEFINE U == S \cup {n - 3}
<1>6. r \in Seq(U) /\ Len(r) = n - 3 /\ r[1] = n - 3
  <2>1. data \in Seq(U)
    BY <1>5, SeqMonotonic
  <2>2. <<n - 3>> \in Seq(U) /\ Len(<<n - 3>>) = 1 /\ <<n - 3>>[1] = n - 3
    OBVIOUS
  <2> HIDE DEF data, U
  <2>3. /\ r \in Seq(U) /\ Len(r) = 1 + Len(data)
        /\ \A i \in 1 .. 1 + Len(data) : r[i] = IF i <= 1 THEN <<n - 3>>[i] ELSE data[i - 1]
    BY <2>1, <2>2, ConcatProperties
  <2>4. 1 \in 1 .. 1 + Len(data) /\ 1 <= 1
    BY <1>3, <1>4, <1>5
  <2>. QED BY <1>3, <1>4, <1>5, <2>2, <2>3, <2>4
<1>7. SubSeq(r, 1, Min({Len(r), Unused(rxfifo, RxSize)})) = r
  <2>1. Len(r) <= Unused(rxfifo, RxSize) /\ Unused(rxfifo, RxSize) \in Int
    BY <1>3, <1>4, <1>6 DEF RoomForPacket, Unused
  <2>2. Len(r) \in Int
    BY <1>3, <1>4, <1>6
  <2> HIDE DEF r
  <2>3. Min({Len(r), Unused(rxfifo, RxSize)}) = Len(r)
    BY <2>1, <2>2 DEF Min
  <2>. QED BY <1>6, <2>3, SubSeqFull
<1>8. rxfifo' = rxfifo \o r
  BY <1>3, <1>7 DEF fifo_in
<1> HIDE DEF r, data, U
<1>9. Row(rxfifo') /\ rxfifo' \in Seq(T \cup U) /\ Len(rxfifo') = Len(rxfifo) + Len(r)
  <2>1. r # <<>> /\ r[1] = Len(r)
    <3>1. Len(r) # 0
      BY <1>3, <1>4, <1>6
    <3>. QED BY <1>6, <3>1, EmptySeq
  <2>2. Row(rxfifo \o r)
    BY <1>2, <1>6, <2>1, RowGrows DEF Receiving, Received
  <2>3. rxfifo \in Seq(T \cup U) /\ r \in Seq(T \cup U)
    BY <1>2, <1>6, SeqMonotonic
  <2>4. rxfifo \o r \in Seq(T \cup U) /\ Len(rxfifo \o r) = Len(rxfifo) + Len(r)
    BY <2>3, ConcatProperties
  <2> HIDE DEF n
  <2>. QED BY <1>8, <2>2, <2>4
<1>10. Len(rxfifo') <= RxSize
  BY <1>3, <1>4, <1>6, <1>9 DEF RoomForPacket, Unused
<1>. QED BY <1>9, <1>10 DEF Received

LEMMA CallbackStep ==
  ASSUME SAAssumption, Receiving, NEW ch, SA_callback(ch)
  PROVE  Receiving'
<1>1. PICK S : cmd \in Seq(S)
  BY DEF Receiving, Packets
<1>2. Len(cmd) \in Nat
  BY <1>1, LenProperties
<1>3. CASE UNCHANGED rxEnd
  BY <1>3 DEF rxEnd, Receiving, Packets, Received
<1>4. CASE Restart
  <2>1. cmd' = <<>> /\ cmd' \in Seq({}) /\ Len(cmd') = 0
    BY <1>4, EmptySeq DEF Restart
  <2>2. Packets'
    BY <1>4, <2>1 DEF Restart, Receiving, Packets
  <2>. QED BY <1>4, <2>2 DEF Restart, Receiving, Received
<1>5. CASE RoomForPacket /\ Len(cmd) > 3 /\ Len(cmd) = cmd[4] /\ Complete
  <2>1. cmd' = <<>> /\ cmd' \in Seq({}) /\ Len(cmd') = 0
    BY <1>5, EmptySeq DEF Complete
  <2>0. touched' \in 0 .. MAX_SAPACKET_LEN + 1
    <3>1. Len(cmd) \in 0 .. MAX_SAPACKET_LEN
      BY <1>2, <1>5 DEF Receiving, Packets
    <3>. QED BY <1>5, <3>1 DEF Complete, Touch, Receiving, Packets, SAAssumption
  <2>2. Packets'
    BY <2>0, <2>1 DEF Packets
  <2>3. CASE SA_is_valid_packet(cmd)
    <3>1. rxfifo' = fifo_in(rxfifo, <<cmd[4] - 3>> \o SubSeq(cmd, 5, Len(cmd)), RxSize)
      BY <1>5, <2>3 DEF Complete
    <3>2. Received'
      BY <1>5, <3>1, CommandPut
    <3>. QED BY <2>2, <3>2 DEF Receiving
  <2>4. CASE ~SA_is_valid_packet(cmd)
    BY <1>5, <2>2, <2>4 DEF Complete, Receiving, Received
  <2>. QED BY <2>3, <2>4
<1>6. CASE Store(ch) /\ (Len(cmd) = 3 => LengthOK(ch)) /\ (Len(cmd) > 3 => Len(cmd) # cmd[4])
  <2>1. cmd \in Seq(S \cup {ch}) /\ ch \in S \cup {ch}
    BY <1>1, SeqMonotonic
  <2>2. /\ cmd' \in Seq(S \cup {ch}) /\ Len(cmd') = Len(cmd) + 1
        /\ \A i \in 1 .. Len(cmd) : cmd'[i] = cmd[i]
        /\ cmd'[Len(cmd) + 1] = ch
    BY <1>6, <2>1, AppendProperties DEF Store
  <2>0. touched' \in 0 .. MAX_SAPACKET_LEN + 1
    <3>1. Len(cmd) \in 0 .. MAX_SAPACKET_LEN
      BY <1>2 DEF Receiving, Packets, SAAssumption
    <3>. QED BY <1>6, <3>1 DEF Store, Touch, Receiving, Packets, SAAssumption
  <2>3. Packets'
    <3>1. CASE Len(cmd) < 3
      BY <1>2, <2>0, <2>2, <3>1 DEF Packets
    <3>2. CASE Len(cmd) = 3
      BY <1>6, <2>0, <2>2, <3>2 DEF Packets, LengthOK
    <3>3. CASE Len(cmd) > 3
      <4>1. cmd'[4] = cmd[4] /\ cmd[4] \in 5 .. MAX_SAPACKET_LEN /\ Len(cmd) < cmd[4]
        BY <1>2, <1>6, <2>2, <3>3 DEF Receiving, Packets
      <4>. QED BY <1>2, <2>0, <2>2, <4>1 DEF Packets
    <3>4. ASSUME NEW n \in Nat PROVE n < 3 \/ n = 3 \/ n > 3
      OBVIOUS
    <3>. QED BY <1>2, <3>1, <3>2, <3>3, <3>4
  <2>. QED BY <1>6, <2>3 DEF Store, Receiving, Received
<1>. QED BY <1>2, <1>3, <1>4, <1>5, <1>6 DEF SA_callback, Discard, chanVars, rxEnd

LEMMA GetCMDStep ==
  ASSUME SAAssumption, Receiving, UART_GetCMD
  PROVE  Receiving'
<1>1. PICK S : rxfifo \in Seq(S)
  BY DEF Receiving, Received
<1> DEFINE k == rxfifo[1]
<1>2. k \in 1 .. Len(rxfifo) /\ Row(rxfifo')
  BY <1>1, RowShrinks DEF UART_GetCMD, HasCommand, Receiving, Received
<1>3. Len(rxfifo) \in Nat
  BY <1>1, LenProperties
<1>4. rxfifo' \in Seq(S) /\ Len(rxfifo') = Len(rxfifo) - k
  <2>1. k + 1 \in 1 .. Len(rxfifo) + 1 /\ Len(rxfifo) \in (k + 1) - 1 .. Len(rxfifo)
    BY <1>2, <1>3
  <2>2. rxfifo' = SubSeq(rxfifo, k + 1, Len(rxfifo))
    BY DEF UART_GetCMD
  <2> HIDE DEF k
  <2>. QED BY <1>1, <1>2, <1>3, <2>1, <2>2, SubSeqProperties
<1>5. Len(rxfifo') <= RxSize
  BY <1>2, <1>3, <1>4 DEF SAAssumption, Receiving, Received
<1>. QED BY <1>2, <1>4, <1>5 DEF UART_GetCMD, Receiving, Packets, Received

LEMMA ReceivingStep ==
  ASSUME SAAssumption, Receiving, [ChannelNext]_vars
  PROVE  Receiving'
<1>1. CASE UNCHANGED rxEnd
  BY <1>1 DEF rxEnd, Receiving, Packets, Received
<1>2. CASE BoardReceives
  BY <1>2, CallbackStep DEF BoardReceives
<1>3. CASE BoardPolls
  BY <1>3, GetCMDStep DEF BoardPolls
<1>4. ASSUME NEW t \in Tasks, BoardBuilds(t) \/ BoardIsRefused(t) \/ BoardSends(t)
      PROVE  UNCHANGED rxEnd
  BY <1>4 DEF BoardBuilds, SendBuild, BoardIsRefused, SendRefused, BoardSends, SendCommit
<1>5. CASE PeerSide
  BY <1>1, <1>5 DEF PeerSide, PeerSends, PeerRetries, PeerTakesACK, PeerTakesPacket,
     PeerIgnores, chanVars
<1>6. CASE LoseByte \/ DropPiece
  BY <1>1, <1>6 DEF LoseByte, DropPiece, chanVars, rxEnd
<1>7. CASE UNCHANGED vars
  BY <1>1, <1>7 DEF vars, chanVars
<1>. QED BY <1>1, <1>2, <1>3, <1>4, <1>5, <1>6, <1>7 DEF ChannelNext, BoardSide

LEMMA ReceivingInit ==
  ASSUME SAAssumption, ChannelInit
  PROVE  Receiving
<1>1. /\ cmd = <<>> /\ cmd \in Seq({}) /\ Len(cmd) = 0
      /\ rxfifo = <<>> /\ rxfifo \in Seq({}) /\ Len(rxfifo) = 0
      /\ touched = 0
  BY EmptySeq DEF ChannelInit, SAInit
<1>2. Row(rxfifo)
  <2>1. CutAt(rxfifo, {0}) /\ {0} \in SUBSET (0 .. Len(rxfifo))
    BY <1>1 DEF CutAt
  <2>. QED BY <2>1 DEF Row
<1>. QED BY <1>1, <1>2 DEF Receiving, Packets, Received, SAAssumption

(* Whatever bytes the line delivers, the queue of UART_GetCMD() is a row   *)
(* of whole commands and never fuller than its size, and the stores of     *)
(* SA_callback() reach at most one place behind cmd (WholeCommands), for   *)
(* any sizes of the queue and of the longest packet.  That place is        *)
(* written, so no stronger bound holds.                                    *)
THEOREM QueueOfCommands == ChannelSpec => []WholeCommands
<1> USE SAAssumption
<1>1. ChannelInit => Receiving
  BY ReceivingInit
<1>2. Receiving /\ [ChannelNext]_vars => Receiving'
  BY ReceivingStep
<1>3. Receiving => WholeCommands
  <2> SUFFICES ASSUME Receiving PROVE WholeCommands
    OBVIOUS
  <2>1. touched <= MAX_SAPACKET_LEN + 1
    BY DEF SAAssumption, Receiving, Packets
  <2>. QED BY <2>1 DEF Receiving, Received, WholeCommands
<1>. QED BY <1>1, <1>2, <1>3, PTL DEF ChannelSpec
=============================================================================
