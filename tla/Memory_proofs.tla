---------------------------- MODULE Memory_proofs ----------------------------
(***************************************************************************)
(* Theorems on the receive buffer and on the memory allocator.             *)
(*                                                                         *)
(* The receive buffer, for any size of the ring, of the transfers and of   *)
(* the bands.  What the ring holds and what is still to come are one row   *)
(* of units; a transfer moves units inside that row, the reader takes them *)
(* from its front, and the host adds whole bands at its end.               *)
(***************************************************************************)
EXTENDS HugeSystem, MallocSystem, FiniteSetTheorems, SequenceTheorems, WellFoundedInduction,
        TLAPS

(* A place of the ring, reached from another one in less than a turn.      *)
Wrap(x) == IF x < RingSize THEN x ELSE x - RingSize

Units == [band : Nat, pos : Nat, size : Cells]

(* The ring is what lies between out and in.                               *)
Ends ==
  /\ in \in Cells /\ out \in Cells /\ unused \in 0 .. RingSize
  /\ in = Wrap(out + fifo_cached)

(* A transfer never runs over the end of the ring, nor over its band.      *)
NextTransfer ==
  /\ first \in BOOLEAN /\ remainning \in Nat /\ cnt \in 1 .. RingSize - in
  /\ IF first THEN cnt = 1 ELSE cnt <= remainning

Memory ==
  /\ ring \in [Cells -> Units] /\ feed \in Seq(Units)
  /\ offered \in Nat /\ taken \in 0 .. offered /\ dropped \in 0 .. offered
  /\ \A c \in Cells : ring[c].band <= offered
  /\ \A k \in 1 .. Len(feed) : feed[k].band <= offered
  /\ sizeof_band \in Cells /\ nextheader \in Cells

Machine ==
  /\ g_USBTransStoped \in BOOLEAN
  /\ busy \in BOOLEAN /\ dmaAddr \in Nat /\ dmaLen \in Nat /\ wait \in {0, 1}
  /\ pc \in [Tasks -> {"out", "idle?", "lock", "wait", "late"}]
  /\ done \in BOOLEAN /\ again \in BOOLEAN /\ aborted \in BOOLEAN
  /\ gaveUp \in BOOLEAN /\ lost \in BOOLEAN
  /\ at \in {"header", "data", "restart", "cancel"}

Typed == Ends /\ NextTransfer /\ Memory /\ Machine

(* After HugeBuf_CancelJob() nothing happens until its transfer has ended. *)
Quiet ==
  /\ at = "header" /\ ~done /\ ~again
  /\ in = 0 /\ out = 0 /\ unused = RingSize /\ first /\ cnt = 1

(* Who is in HugeBuf_StartOneReceive(): the two tasks are never in it with *)
(* a transfer at the same time.                                            *)
Control ==
  /\ busy => wait = 0 /\ \E t \in Tasks : pc[t] \in {"wait", "late"}
  /\ \A t \in Tasks : pc[t] = "wait" /\ wait = 0 => busy
  /\ done => ~busy /\ pc["receiver"] = "out"
  /\ pc["printer"] = "out" => (aborted <=> at = "cancel")
  /\ pc["printer"] \in {"idle?", "lock"} =>
       /\ Quiet /\ aborted
       /\ pc["receiver"] \in {"out", "wait", "late"}
       /\ pc["receiver"] # "out" => busy
  /\ pc["printer"] = "lock" => ~busy
  /\ pc["printer"] \in {"wait", "late"} => Quiet /\ ~aborted /\ pc["receiver"] = "out"

(* The units of a transfer are in the ring and not counted yet.            *)
MovedOn == done \/ (wait > 0 /\ \E t \in Tasks : pc[t] = "wait")

Aimed ==
  /\ busy /\ ~aborted => dmaAddr = in /\ dmaLen = cnt
  /\ (busy \/ (MovedOn /\ ~lost)) /\ ~aborted => cnt <= unused

-----------------------------------------------------------------------------
(* A row s of n units, of which the last band is band number "last".       *)
HeaderAt(s, n, k, b, last) ==
  IF k = n THEN b = last + 1 ELSE k < n /\ IsHeader(s[k]) /\ s[k].band = b

DataAt(s, n, k, b, size) ==
  k + size <= n /\ \A j \in 1 .. size : s[k + j - 1] = [band |-> b, pos |-> j, size |-> size]

RowOf(s, n, last) ==
  \A i \in 0 .. n - 1 : IsHeader(s[i]) =>
    /\ DataAt(s, n, i + 1, s[i].band, s[i].size)
    /\ HeaderAt(s, n, i + 1 + s[i].size, s[i].band + 1, last)

(* What is in the ring and what the host still has.                        *)
Held   == fifo_cached + (IF MovedOn THEN cnt ELSE 0)
Total  == Held + Len(feed)
Stream == [i \in 0 .. Total - 1 |-> IF i < Held THEN ring[Wrap(out + i)] ELSE feed[i - Held + 1]]
Coming == [i \in 0 .. Len(feed) - 1 |-> feed[i + 1]]

Latest == IF taken > dropped THEN taken ELSE dropped

(* The row begins with what the reader looks for ...                       *)
Read ==
  IF at = "data"
    THEN /\ Latest = taken
         /\ nextheader = Wrap(out + sizeof_band)
         /\ DataAt(Stream, Total, 0, taken, sizeof_band)
         /\ HeaderAt(Stream, Total, sizeof_band, taken + 1, offered)
    ELSE HeaderAt(Stream, Total, 0, Latest + 1, offered)

(* ... and where the receiver counts a band to its end, one ends.          *)
Rest == IF first THEN 0 ELSE remainning
Written ==
  /\ fifo_cached + Rest <= Total
  /\ fifo_cached + Rest < Total => IsHeader(Stream[fifo_cached + Rest])

Content ==
  IF at = "cancel"
    THEN RowOf(Coming, Len(feed), offered) /\ HeaderAt(Coming, Len(feed), 0, Latest + 1, offered)
    ELSE ~lost => RowOf(Stream, Total, offered) /\ Read /\ Written

Safe == Typed /\ Control /\ Aimed

-----------------------------------------------------------------------------
LEMMA Sizes == RingSize \in Nat /\ RingSize > 1 /\ MaxChunk \in Nat /\ MaxChunk > 0
               /\ Tasks = {"receiver", "printer"} /\ BandSizes \subseteq Cells
  BY HugeBufAssumption, SystemAssumption DEF Cells

LEMMA ModWrap ==
  ASSUME NEW x \in 0 .. 2 * RingSize - 1
  PROVE  x % RingSize = Wrap(x)
<1>1. CASE x < RingSize
  BY <1>1, Sizes DEF Wrap
<1>2. CASE x >= RingSize
  BY <1>2, Sizes DEF Wrap
<1>. QED BY <1>1, <1>2, Sizes

LEMMA MinTwo ==
  ASSUME NEW a \in Int, NEW b \in Int
  PROVE  Min({a, b}) = IF a <= b THEN a ELSE b
<1> DEFINE m == IF a <= b THEN a ELSE b
<1>1. m \in {a, b} /\ \A y \in {a, b} : m <= y
  OBVIOUS
<1>2. \A x \in {a, b} : (\A y \in {a, b} : x <= y) => x = m
  OBVIOUS
<1>. QED BY <1>1, <1>2 DEF Min

LEMMA MinThree ==
  ASSUME NEW a \in Int, NEW b \in Int, NEW c \in Int
  PROVE  Min({a, b, c}) \in {a, b, c} /\ \A x \in {a, b, c} : Min({a, b, c}) <= x
<1>1. \E m \in {a, b, c} : \A y \in {a, b, c} : m <= y
  OBVIOUS
<1>. QED BY <1>1 DEF Min

(* fifo.c                                                                  *)
LEMMA FifoOut ==
  ASSUME Ends, NEW n \in Nat, fifo_out(n),
         NEW k, k = IF n <= fifo_cached THEN n ELSE fifo_cached
  PROVE  /\ k \in Nat /\ k <= fifo_cached
         /\ Ends' /\ in' = in /\ out' = Wrap(out + k)
         /\ fifo_cached' = fifo_cached - k /\ unused' = unused + k
<1>1. fifo_cached \in 0 .. RingSize /\ k \in 0 .. fifo_cached
  BY Sizes DEF Ends, fifo_cached
<1>2. Min({n, fifo_cached}) = k
  BY <1>1, MinTwo
<1>3. out' = (out + k) % RingSize /\ unused' = unused + k /\ in' = in
  BY <1>2 DEF fifo_out
<1>4. out' = Wrap(out + k)
  <2>1. out + k \in 0 .. 2 * RingSize - 1
    BY <1>1, Sizes DEF Ends, Cells
  <2>. QED BY <1>3, <2>1, ModWrap
<1>5. fifo_cached' = fifo_cached - k
  BY <1>3, Sizes, <1>1 DEF Ends, fifo_cached
<1>. QED BY <1>1, <1>3, <1>4, <1>5, Sizes DEF Ends, Wrap, Cells, fifo_cached

LEMMA FifoIn ==
  ASSUME Ends, NEW n \in Nat, fifo_in(n),
         NEW k, k = IF n <= unused THEN n ELSE unused
  PROVE  /\ k \in Nat /\ k <= unused
         /\ Ends' /\ out' = out /\ in' = Wrap(in + k)
         /\ fifo_cached' = fifo_cached + k /\ unused' = unused - k
<1>1. unused \in 0 .. RingSize /\ k \in 0 .. unused
  BY Sizes DEF Ends
<1>2. Min({n, unused}) = k
  BY <1>1, MinTwo
<1>3. in' = (in + k) % RingSize /\ unused' = unused - k /\ out' = out
  BY <1>2 DEF fifo_in
<1>4. in' = Wrap(in + k)
  <2>1. in + k \in 0 .. 2 * RingSize - 1
    BY <1>1, Sizes DEF Ends, Cells
  <2>. QED BY <1>3, <2>1, ModWrap
<1>5. fifo_cached' = fifo_cached + k
  BY <1>3, Sizes, <1>1 DEF Ends, fifo_cached
<1>. QED BY <1>1, <1>3, <1>4, <1>5, Sizes DEF Ends, Wrap, Cells, fifo_cached

-----------------------------------------------------------------------------
(* Rows.                                                                   *)
RowTyped(s, n) == n \in Nat /\ \A i \in 0 .. n - 1 : s[i] \in Units

LEMMA HeaderShift ==
  ASSUME NEW n \in Nat, NEW k \in 0 .. n, NEW s, NEW r, NEW b, NEW last,
         \A i \in 0 .. n - k - 1 : r[i] = s[i + k],
         NEW p \in Nat, HeaderAt(s, n, p + k, b, last)
  PROVE  HeaderAt(r, n - k, p, b, last)
<1>1. CASE p + k = n
  BY <1>1 DEF HeaderAt
<1>2. CASE p + k # n
  <2>1. p + k < n /\ p \in 0 .. n - k - 1 /\ p # n - k
    BY <1>2 DEF HeaderAt
  <2>. QED BY <1>2, <2>1 DEF HeaderAt
<1>. QED BY <1>1, <1>2

LEMMA RowShift ==
  ASSUME NEW n \in Nat, NEW k \in 0 .. n, NEW s, NEW r, NEW last \in Nat, RowTyped(s, n),
         \A i \in 0 .. n - k - 1 : r[i] = s[i + k],
         RowOf(s, n, last)
  PROVE  RowOf(r, n - k, last)
<1> SUFFICES ASSUME NEW i \in 0 .. n - k - 1, IsHeader(r[i])
             PROVE  /\ DataAt(r, n - k, i + 1, r[i].band, r[i].size)
                    /\ HeaderAt(r, n - k, i + 1 + r[i].size, r[i].band + 1, last)
  BY DEF RowOf
<1>1. r[i] = s[i + k] /\ i + k \in 0 .. n - 1
  OBVIOUS
<1>2. PICK u \in Units : u = r[i]
  BY <1>1 DEF RowTyped
<1>3. u.size \in Nat /\ u.band \in Nat
  BY Sizes DEF Units, Cells
<1>4. /\ DataAt(s, n, i + k + 1, u.band, u.size)
      /\ HeaderAt(s, n, i + k + 1 + u.size, u.band + 1, last)
  BY <1>1, <1>2 DEF RowOf
<1>5. DataAt(r, n - k, i + 1, u.band, u.size)
  <2>1. i + 1 + u.size <= n - k
    BY <1>3, <1>4 DEF DataAt
  <2>2. ASSUME NEW j \in 1 .. u.size PROVE r[i + 1 + j - 1] = [band |-> u.band, pos |-> j, size |-> u.size]
    <3>1. s[i + k + 1 + j - 1] = [band |-> u.band, pos |-> j, size |-> u.size]
      BY <1>4 DEF DataAt
    <3>2. i + 1 + j - 1 \in 0 .. n - k - 1 /\ i + k + 1 + j - 1 = i + 1 + j - 1 + k
      BY <1>3, <2>1
    <3>. QED BY <3>1, <3>2
  <2>. QED BY <2>1, <2>2 DEF DataAt
<1>6. HeaderAt(r, n - k, i + 1 + u.size, u.band + 1, last)
  <2>1. i + 1 + u.size \in Nat /\ i + k + 1 + u.size = i + 1 + u.size + k
    BY <1>3
  <2>. QED BY <1>4, <2>1, HeaderShift
<1>. QED BY <1>2, <1>5, <1>6

(* The host adds a band.                                                   *)
LEMMA HeaderExtend ==
  ASSUME NEW n \in Nat, NEW m \in Nat, NEW s, NEW r, NEW b, NEW last \in Nat,
         \A i \in 0 .. n - 1 : r[i] = s[i],
         m > n, IsHeader(r[n]), r[n].band = last + 1,
         NEW p \in Nat, HeaderAt(s, n, p, b, last)
  PROVE  HeaderAt(r, m, p, b, last + 1)
<1>1. CASE p = n
  BY <1>1 DEF HeaderAt
<1>2. CASE p # n
  BY <1>2 DEF HeaderAt
<1>. QED BY <1>1, <1>2

LEMMA RowExtend ==
  ASSUME NEW n \in Nat, NEW size \in Cells, NEW s, NEW r, NEW last \in Nat, RowTyped(s, n),
         \A i \in 0 .. n - 1 : r[i] = s[i],
         \A j \in 0 .. size : r[n + j] = [band |-> last + 1, pos |-> j, size |-> size],
         RowOf(s, n, last)
  PROVE  RowOf(r, n + size + 1, last + 1)
<1>0. size \in Nat
  BY Sizes DEF Cells
<1> DEFINE m == n + size + 1
<1>1. r[n] = [band |-> last + 1, pos |-> 0, size |-> size]
  BY <1>0
<1> SUFFICES ASSUME NEW i \in 0 .. m - 1, IsHeader(r[i])
             PROVE  /\ DataAt(r, m, i + 1, r[i].band, r[i].size)
                    /\ HeaderAt(r, m, i + 1 + r[i].size, r[i].band + 1, last + 1)
  BY DEF RowOf
<1>2. CASE i < n
  <2>1. r[i] = s[i] /\ i \in 0 .. n - 1
    BY <1>2
  <2>2. PICK u \in Units : u = r[i]
    BY <2>1 DEF RowTyped
  <2>3. u.size \in Nat /\ u.band \in Nat
    BY Sizes DEF Units, Cells
  <2>4. DataAt(s, n, i + 1, u.band, u.size) /\ HeaderAt(s, n, i + 1 + u.size, u.band + 1, last)
    BY <2>1, <2>2 DEF RowOf
  <2>5. DataAt(r, m, i + 1, u.band, u.size)
    <3>1. i + 1 + u.size <= n
      BY <2>4 DEF DataAt
    <3>2. ASSUME NEW j \in 1 .. u.size PROVE r[i + 1 + j - 1] = [band |-> u.band, pos |-> j, size |-> u.size]
      <4>1. i + 1 + j - 1 \in 0 .. n - 1
        BY <2>3, <3>1
      <4>. QED BY <2>4, <4>1 DEF DataAt
    <3>. QED BY <1>0, <2>3, <3>1, <3>2 DEF DataAt
  <2>6. HeaderAt(r, m, i + 1 + u.size, u.band + 1, last + 1)
    <3>1. m \in Nat /\ m > n /\ IsHeader(r[n]) /\ r[n].band = last + 1 /\ i + 1 + u.size \in Nat
      BY <1>0, <1>1, <2>3 DEF IsHeader
    <3>. QED BY <2>4, <3>1, HeaderExtend
  <2>. QED BY <2>2, <2>5, <2>6
<1>3. CASE i >= n
  <2>1. i = n
    <3>1. i - n \in 0 .. size /\ n + (i - n) = i
      BY <1>0, <1>3
    <3>2. r[i] = [band |-> last + 1, pos |-> i - n, size |-> size]
      BY <3>1
    <3>. QED BY <3>1, <3>2 DEF IsHeader
  <2>2. r[i].band = last + 1 /\ r[i].size = size
    BY <1>1, <2>1
  <2>3. DataAt(r, m, n + 1, last + 1, size)
    <3>1. ASSUME NEW j \in 1 .. size PROVE r[n + 1 + j - 1] = [band |-> last + 1, pos |-> j, size |-> size]
      <4>1. n + 1 + j - 1 = n + j /\ j \in 0 .. size
        BY <1>0
      <4>. QED BY <4>1
    <3>. QED BY <1>0, <3>1 DEF DataAt
  <2>4. HeaderAt(r, m, n + 1 + size, last + 2, last + 1)
    BY <1>0 DEF HeaderAt
  <2>5. last + 1 + 1 = last + 2
    OBVIOUS
  <2>. QED BY <2>1, <2>2, <2>3, <2>4, <2>5
<1>. QED BY <1>0, <1>2, <1>3
-----------------------------------------------------------------------------
(* The two tasks and the controller.                                       *)
LEMMA SafeInit == Init => Safe
<1> SUFFICES ASSUME Init PROVE Safe
  OBVIOUS
<1>1. Typed
  <2>1. Ends /\ NextTransfer
    BY Sizes DEF Init, HugBuf_Init, Ends, NextTransfer, Cells, Wrap, fifo_cached
  <2>2. Memory
    BY Sizes DEF Init, HugBuf_Init, Memory, Units, EmptyCell, Cells
  <2>3. Machine
    BY Sizes DEF Init, HugBuf_Init, Machine
  <2>. QED BY <2>1, <2>2, <2>3 DEF Typed
<1>2. Control
  BY Sizes DEF Init, HugBuf_Init, Control
<1>3. Aimed
  BY Sizes DEF Init, HugBuf_Init, Aimed, MovedOn
<1>. QED BY <1>1, <1>2, <1>3 DEF Safe

(* What a step of HugeBuf_StartOneReceive() leaves alone.                  *)
Ground == <<fifo, ring, xinfo, bandInfo, feed, offered, taken, dropped, at>>

LEMMA GroundTyped ==
  ASSUME Typed, UNCHANGED Ground, Machine'
  PROVE  Typed'
<1>1. Ends' /\ NextTransfer'
  BY DEF Typed, Ground, fifo, xinfo, Ends, NextTransfer, Wrap, fifo_cached
<1>2. Memory'
  BY DEF Typed, Ground, bandInfo, Memory
<1>. QED BY <1>1, <1>2 DEF Typed

LEMMA StartSteps ==
  ASSUME Safe, NEW t \in Tasks, TaskStarting(t)
  PROVE  Safe' /\ UNCHANGED Ground /\ (MovedOn' <=> MovedOn) /\ lost' = lost
<1>0. UNCHANGED Ground /\ again' = again
  BY DEF TaskStarting, Starting, StartIdle, StartNoRoom, StartGivenUp, StartTransfer, StartCompleted,
         StartTimedOut, Ground, hostVars, printing
<1>a. Typed /\ Machine /\ Control /\ Aimed
  BY DEF Safe, Typed
<1>b. fifo_cached' = fifo_cached
  BY <1>0 DEF Ground, fifo, fifo_cached
<1>1. CASE StartIdle(t) /\ UNCHANGED <<done, aborted, transferVars>>
  <2>1. Machine'
    BY <1>0, <1>1, <1>a, Sizes DEF Machine, StartIdle, transferVars, bulk, Ground
  <2>2. Control'
    BY <1>0, <1>1, <1>a, Sizes DEF Machine, Control, Quiet, StartIdle, transferVars, bulk, Ground, fifo, xinfo
  <2>3. (MovedOn' <=> MovedOn) /\ lost' = lost
    BY <1>1, <1>a, Sizes DEF Machine, MovedOn, StartIdle, transferVars, bulk
  <2>4. Aimed'
    BY <1>0, <1>1, <1>a, <2>3 DEF Aimed, StartIdle, transferVars, bulk, Ground, fifo, xinfo
  <2>. QED BY <1>0, <1>a, <2>1, <2>2, <2>3, <2>4, GroundTyped DEF Safe
<1>2. CASE StartNoRoom(t) /\ UNCHANGED <<done, aborted, transferVars>>
  <2>0. t = "receiver"
    BY <1>2, <1>a, Sizes DEF StartNoRoom, Control, Quiet
  <2>1. Machine'
    BY <1>0, <1>2, <1>a, Sizes DEF Machine, StartNoRoom, transferVars, bulk, Ground
  <2>2. Control'
    BY <1>0, <1>2, <1>a, <2>0, Sizes DEF Machine, Control, Quiet, StartNoRoom, transferVars, bulk, Ground, fifo, xinfo
  <2>3. (MovedOn' <=> MovedOn) /\ lost' = lost
    BY <1>2, <1>a, Sizes DEF Machine, MovedOn, StartNoRoom, transferVars, bulk
  <2>4. Aimed'
    BY <1>0, <1>2, <1>a, <2>3 DEF Aimed, StartNoRoom, transferVars, bulk, Ground, fifo, xinfo
  <2>. QED BY <1>0, <1>a, <2>1, <2>2, <2>3, <2>4, GroundTyped DEF Safe
<1>3. CASE StartGivenUp(t) /\ UNCHANGED <<done, aborted, transferVars>>
  <2>1. Machine'
    BY <1>0, <1>3, <1>a, Sizes DEF Machine, StartGivenUp, transferVars, bulk, Ground
  <2>2. Control'
    BY <1>0, <1>3, <1>a, Sizes DEF Machine, Control, Quiet, StartGivenUp, transferVars, bulk, Ground, fifo, xinfo
  <2>3. (MovedOn' <=> MovedOn) /\ lost' = lost
    BY <1>3, <1>a, Sizes DEF Machine, MovedOn, StartGivenUp, transferVars, bulk
  <2>4. Aimed'
    BY <1>0, <1>3, <1>a, <2>3 DEF Machine, Aimed, StartGivenUp, transferVars, bulk, Ground, fifo, xinfo
  <2>. QED BY <1>0, <1>a, <2>1, <2>2, <2>3, <2>4, GroundTyped DEF Safe
<1>4. CASE StartTransfer(t) /\ aborted' = (aborted /\ (busy \/ t = "receiver")) /\ UNCHANGED <<done, transferVars>>
  <2>0. ~busy /\ ~done /\ \A u \in Tasks \ {t} : pc[u] = "out"
    BY <1>4, <1>a, Sizes DEF Machine, StartTransfer, Control, Quiet
  <2>5. in \in Nat /\ cnt \in Nat
    BY <1>a, Sizes DEF Typed, Ends, NextTransfer, Cells
  <2>1. Machine'
    BY <1>0, <1>4, <1>a, <2>5, Sizes DEF Machine, StartTransfer, transferVars, bulk, Ground
  <2>2. Control'
    BY <1>0, <1>4, <1>a, <2>0, Sizes DEF Machine, Control, Quiet, StartTransfer, transferVars, bulk, Ground, fifo, xinfo
  <2>3. ~MovedOn /\ ~MovedOn' /\ lost' = lost
    BY <1>4, <1>a, <2>0, Sizes DEF Machine, MovedOn, StartTransfer, transferVars, bulk
  <2>4. Aimed'
    BY <1>0, <1>4, <1>a, <2>0, <2>3 DEF Aimed, StartTransfer, transferVars, bulk, Ground, fifo, xinfo
  <2>. QED BY <1>0, <1>a, <2>1, <2>2, <2>3, <2>4, GroundTyped DEF Safe
<1>5. CASE StartCompleted(t) /\ done' = TRUE /\ UNCHANGED <<aborted, transferVars>>
  <2>0. ~busy /\ ~done /\ \A u \in Tasks \ {t} : pc[u] = "out"
    BY <1>5, <1>a, Sizes DEF Machine, StartCompleted, Control, Quiet
  <2>1. Machine'
    BY <1>0, <1>5, <1>a, Sizes DEF Machine, StartCompleted, transferVars, bulk, Ground
  <2>2. Control'
    BY <1>0, <1>5, <1>a, <2>0, Sizes DEF Machine, Control, Quiet, StartCompleted, transferVars, bulk, Ground, fifo, xinfo
  <2>3. MovedOn /\ MovedOn' /\ lost' = lost
    BY <1>5, <1>a, <2>0, Sizes DEF Machine, MovedOn, StartCompleted, transferVars, bulk
  <2>4. Aimed'
    BY <1>0, <1>5, <1>a, <2>0, <2>3 DEF Aimed, StartCompleted, transferVars, bulk, Ground, fifo, xinfo
  <2>. QED BY <1>0, <1>a, <2>1, <2>2, <2>3, <2>4, GroundTyped DEF Safe
<1>6. CASE StartTimedOut(t) /\ gaveUp' = TRUE /\ UNCHANGED <<done, aborted, lost>>
  <2>0. busy
    BY <1>6, <1>a DEF StartTimedOut, Control
  <2>1. Machine'
    BY <1>0, <1>6, <1>a, Sizes DEF Machine, StartTimedOut, bulk, Ground
  <2>2. Control'
    BY <1>0, <1>6, <1>a, <2>0, Sizes DEF Machine, Control, Quiet, StartTimedOut, bulk, Ground, fifo, xinfo
  <2>3. (MovedOn' <=> MovedOn) /\ lost' = lost
    BY <1>6, <1>a, Sizes DEF Machine, MovedOn, StartTimedOut, bulk
  <2>4. Aimed'
    BY <1>0, <1>6, <1>a, <2>3 DEF Aimed, StartTimedOut, bulk, Ground, fifo, xinfo
  <2>. QED BY <1>0, <1>a, <2>1, <2>2, <2>3, <2>4, GroundTyped DEF Safe
<1>. QED BY <1>1, <1>2, <1>3, <1>4, <1>5, <1>6 DEF TaskStarting, Starting
LEMMA ReceiverStartsSafe ==
  ASSUME Safe, ReceiverStarts
  PROVE  Safe' /\ UNCHANGED Ground /\ (MovedOn' <=> MovedOn) /\ lost' = lost
<1>0. UNCHANGED Ground /\ UNCHANGED <<bulk, done, transferVars, aborted, g_USBTransStoped>>
  BY DEF ReceiverStarts, Ground, hostVars, printing
<1>a. Typed /\ Machine /\ Control /\ Aimed
  BY DEF Safe, Typed
<1>1. pc["receiver"] = "out" /\ pc' = [pc EXCEPT !["receiver"] = "idle?"] /\ again /\ ~done /\ again' = FALSE
  BY DEF ReceiverStarts, StartCall
<1>2. Machine'
  BY <1>0, <1>1, <1>a, Sizes DEF Machine, transferVars, bulk, Ground
<1>3. Control'
  BY <1>0, <1>1, <1>a, Sizes DEF Machine, Control, Quiet, transferVars, bulk, Ground, fifo, xinfo
<1>4. (MovedOn' <=> MovedOn) /\ lost' = lost
  BY <1>0, <1>1, <1>a, Sizes DEF Machine, MovedOn, transferVars, bulk
<1>5. Aimed'
  BY <1>0, <1>1, <1>a, <1>4 DEF Aimed, transferVars, bulk, Ground, fifo, xinfo
<1>. QED BY <1>0, <1>a, <1>2, <1>3, <1>4, <1>5, GroundTyped DEF Safe

LEMMA RestartSafe ==
  ASSUME Safe, Restart
  PROVE  /\ Safe' /\ (MovedOn' <=> MovedOn) /\ at = "restart" /\ at' = "header"
         /\ UNCHANGED <<fifo, ring, xinfo, bandInfo, feed, offered, taken, dropped, lost>>
<1>0. UNCHANGED <<hugeVars, feed, offered, done, gaveUp, lost, aborted, taken, dropped>>
  BY DEF Restart, hostVars, transferVars
<1>1. Printer /\ at = "restart" /\ at' = "header" /\ again' = (again \/ g_USBTransStoped)
  BY DEF Restart
<1>a. Typed /\ Machine /\ Control /\ Aimed
  BY DEF Safe, Typed
<1>2. Typed'
  BY <1>0, <1>1, <1>a DEF Typed, Ends, NextTransfer, Memory, Machine, hugeVars, fifo, xinfo, bandInfo, bulk, Wrap, fifo_cached
<1>3. Control'
  BY <1>0, <1>1, <1>a DEF Machine, Control, Quiet, Printer, hugeVars, fifo, xinfo, bulk
<1>4. MovedOn' <=> MovedOn
  BY <1>0 DEF MovedOn, hugeVars, bulk
<1>5. Aimed'
  BY <1>0, <1>a, <1>4 DEF Aimed, hugeVars, fifo, xinfo, bulk
<1>. QED BY <1>0, <1>1, <1>2, <1>3, <1>4, <1>5 DEF Safe, hugeVars

LEMMA CancelAbortSafe == Safe /\ CancelAbort => Safe'
<1> SUFFICES ASSUME Safe, CancelAbort PROVE Safe'
  OBVIOUS
<1>0. UNCHANGED <<hugeVars, done, again, gaveUp, lost, taken, offered>>
  BY DEF CancelAbort, transferVars
<1>1. Printer /\ at' = "cancel" /\ aborted' = TRUE /\ feed' = <<>> /\ dropped' = offered
  BY DEF CancelAbort
<1>a. Typed /\ Machine /\ Control /\ Aimed
  BY DEF Safe, Typed
<1>2. Typed'
  BY <1>0, <1>1, <1>a DEF Typed, Ends, NextTransfer, Memory, Machine, hugeVars, fifo, xinfo, bandInfo, bulk, Wrap, fifo_cached
<1>3. Control'
  BY <1>0, <1>1, <1>a DEF Machine, Control, Quiet, Printer, hugeVars, fifo, xinfo, bulk
<1>4. Aimed'
  BY <1>1 DEF Aimed
<1>. QED BY <1>2, <1>3, <1>4 DEF Safe

LEMMA CancelRestartSafe ==
  ASSUME Safe, CancelRestart
  PROVE  Safe' /\ ~MovedOn'
<1>0. UNCHANGED <<ring, bandInfo, g_USBTransStoped, bulk, feed, offered, done, again, aborted, taken, dropped>>
  BY DEF CancelRestart, CancelReset, hostVars
<1>1. Printer /\ at = "cancel" /\ at' = "header" /\ gaveUp' = FALSE /\ lost' = FALSE
  BY DEF CancelRestart
<1>2. in' = 0 /\ out' = 0 /\ unused' = RingSize /\ first' = TRUE /\ remainning' = 0 /\ cnt' = 1
  BY DEF CancelRestart, CancelReset, HugeBuf_Reset, fifo_reset, InitReceiveSize
<1>3. pc' = [pc EXCEPT !["printer"] = "idle?"]
  BY DEF CancelRestart, CancelReset, StartCall
<1>4. ~done /\ ~again /\ (pc["receiver"] = "out" \/ (pc["receiver"] = "wait" /\ wait = 0))
  BY DEF CancelRestart, ReceiverAtRest
<1>a. Typed /\ Machine /\ Control /\ Aimed
  BY DEF Safe, Typed
<1>5. Typed'
  <2>1. Ends' /\ NextTransfer'
    BY <1>2, Sizes DEF Ends, NextTransfer, Wrap, fifo_cached, Cells
  <2>2. Memory'
    BY <1>0, <1>a DEF Typed, Memory, bandInfo
  <2>3. Machine'
    BY <1>0, <1>1, <1>3, <1>a, Sizes DEF Machine, bulk
  <2>. QED BY <2>1, <2>2, <2>3 DEF Typed
<1>6. Control'
  BY <1>0, <1>1, <1>2, <1>3, <1>4, <1>a, Sizes DEF Machine, Control, Quiet, Printer, bulk
<1>7. ~MovedOn'
  BY <1>0, <1>3, <1>4, <1>a, Sizes DEF Machine, MovedOn, bulk
<1>8. aborted'
  BY <1>0, <1>1, <1>a DEF Control, Printer
<1>9. Aimed'
  BY <1>8 DEF Aimed
<1>. QED BY <1>5, <1>6, <1>7, <1>9 DEF Safe

LEMMA ControllerSafe ==
  ASSUME Safe, Controller
  PROVE  /\ Safe' /\ ~MovedOn /\ (lost' <=> lost \/ ~MovedOn')
         /\ cnt <= unused /\ cnt <= Len(feed) /\ feed' = SubSeq(feed, cnt + 1, Len(feed))
         /\ ring' = [c \in Cells |-> IF c \in in .. in + cnt - 1 THEN feed[c - in + 1] ELSE ring[c]]
         /\ UNCHANGED <<fifo, xinfo, bandInfo, offered, taken, dropped, at, aborted>>
<1>a. Typed /\ Machine /\ Control /\ Aimed
  BY DEF Safe, Typed
<1>0. UNCHANGED <<fifo, xinfo, bandInfo, g_USBTransStoped, dmaAddr, dmaLen, pc,
                  done, again, gaveUp, at, taken, aborted, offered, dropped>>
  BY DEF Controller, ezusb_bulk_isr, printing
<1>1. /\ ~aborted /\ busy /\ Len(feed) >= dmaLen
      /\ feed' = SubSeq(feed, dmaLen + 1, Len(feed))
      /\ lost' = (lost \/ \A t \in Tasks : pc[t] # "wait")
      /\ busy' = FALSE /\ wait' = wait + 1
      /\ ring' = [c \in Cells |-> IF c \in dmaAddr .. dmaAddr + dmaLen - 1
                                THEN SubSeq(feed, 1, dmaLen)[c - dmaAddr + 1] ELSE ring[c]]
  BY DEF Controller, ezusb_bulk_isr
<1>2. dmaAddr = in /\ dmaLen = cnt /\ cnt <= unused /\ wait = 0 /\ ~done
  BY <1>1, <1>a DEF Aimed, Control
<1>3. in \in Cells /\ in \in Nat /\ cnt \in Nat /\ cnt >= 1 /\ in + cnt <= RingSize /\ cnt <= Len(feed)
  BY <1>1, <1>2, <1>a, Sizes DEF Typed, Ends, NextTransfer, Cells
<1>4. feed \in Seq(Units) /\ Len(feed) \in Nat
  BY <1>a DEF Typed, Memory
<1>5. ring' = [c \in Cells |-> IF c \in in .. in + cnt - 1 THEN feed[c - in + 1] ELSE ring[c]]
  <2>1. \A c \in in .. in + cnt - 1 : SubSeq(feed, 1, cnt)[c - in + 1] = feed[c - in + 1]
    BY <1>3, <1>4
  <2>. QED BY <1>1, <1>2, <2>1
<1>6. feed' = SubSeq(feed, cnt + 1, Len(feed))
  BY <1>1, <1>2
<1>7. feed' \in Seq(Units) /\ Len(feed') = Len(feed) - cnt
      /\ \A k \in 1 .. Len(feed') : feed'[k] = feed[k + cnt]
  BY <1>3, <1>4, <1>6
<1>8. Typed'
  <2>1. Ends' /\ NextTransfer'
    BY <1>0, <1>a DEF Typed, Ends, NextTransfer, fifo, xinfo, Wrap, fifo_cached
  <2>2. Memory'
    <3>1. ring' \in [Cells -> Units] /\ \A c \in Cells : ring'[c].band <= offered
      <4>1. \A c \in in .. in + cnt - 1 : c - in + 1 \in 1 .. Len(feed)
        BY <1>3
      <4>. QED BY <1>5, <1>4, <1>a, <4>1 DEF Typed, Memory
    <3>2. \A k \in 1 .. Len(feed') : feed'[k].band <= offered
      <4>1. \A k \in 1 .. Len(feed') : k + cnt \in 1 .. Len(feed)
        BY <1>3, <1>4, <1>7
      <4>. QED BY <1>7, <1>a, <4>1 DEF Typed, Memory
    <3>. QED BY <1>0, <1>7, <1>a, <3>1, <3>2 DEF Typed, Memory, bandInfo
  <2>3. Machine'
    <3>1. lost' \in BOOLEAN
      BY <1>1, Zenon
    <3>2. busy' = FALSE /\ wait' = 1
      BY <1>1, <1>2
    <3>. QED BY <1>0, <1>a, <3>1, <3>2 DEF Machine
  <2>. QED BY <2>1, <2>2, <2>3 DEF Typed
<1>9. Control'
  BY <1>0, <1>1, <1>2, <1>a, Sizes DEF Machine, Control, Quiet, fifo, xinfo
<1>10. ~MovedOn /\ (lost' <=> lost \/ ~MovedOn')
  <2>1. ~MovedOn
    BY <1>2 DEF MovedOn
  <2>2. MovedOn' <=> \E t \in Tasks : pc[t] = "wait"
    BY <1>0, <1>1, <1>2 DEF MovedOn
  <2>3. lost' <=> lost \/ \A t \in Tasks : pc[t] # "wait"
    BY <1>1, Zenon
  <2>. QED BY <2>1, <2>2, <2>3
<1>11. Aimed'
  BY <1>0, <1>1, <1>2 DEF Aimed, fifo, xinfo
<1>. QED BY <1>0, <1>2, <1>3, <1>5, <1>6, <1>8, <1>9, <1>10, <1>11 DEF Safe
LEMMA HostSendsSafe ==
  ASSUME Safe, HostSends
  PROVE  /\ Safe' /\ (MovedOn' <=> MovedOn)
         /\ UNCHANGED <<fifo, ring, xinfo, bandInfo, taken, dropped, at, lost>>
         /\ offered' = offered + 1
         /\ \E size \in Cells : feed' = feed \o Band(offered + 1, size)
<1>0. UNCHANGED <<hugeVars, done, again, gaveUp, lost, at, taken, aborted, dropped, cancels>>
  BY DEF HostSends, transferVars, printing
<1>1. offered' = offered + 1
  BY DEF HostSends
<1>2. PICK size \in Cells : feed' = feed \o Band(offered + 1, size)
  BY Sizes DEF HostSends
<1>a. Typed /\ Machine /\ Control /\ Aimed
  BY DEF Safe, Typed
<1> DEFINE b == Band(offered + 1, size)
<1>3. size \in Nat /\ offered \in Nat /\ feed \in Seq(Units)
  BY <1>a, Sizes DEF Typed, Memory, Cells
<1>4. b \in [1 .. size + 1 -> Units] /\ \A k \in 1 .. size + 1 : b[k].band = offered + 1
  BY <1>3 DEF Band, Units
<1>5. b \in Seq(Units) /\ Len(b) = size + 1
  BY <1>3, <1>4
<1>6. /\ feed' \in Seq(Units) /\ Len(feed') = Len(feed) + size + 1
      /\ \A k \in 1 .. Len(feed') : feed'[k] = IF k <= Len(feed) THEN feed[k] ELSE b[k - Len(feed)]
  <2>. HIDE DEF b
  <2>1. feed' = feed \o b
    BY <1>2 DEF b
  <2>2. Len(feed') = Len(feed) + size + 1
    <3>1. Len(feed') = Len(feed) + Len(b)
      BY <1>3, <1>5, <2>1, ConcatProperties
    <3>2. Len(feed) \in Nat
      BY <1>3
    <3>. QED BY <1>3, <1>5, <3>1, <3>2
  <2>. QED BY <1>3, <1>5, <2>1, <2>2, ConcatProperties
<1>7. \A k \in 1 .. Len(feed') : feed'[k].band <= offered'
  <2>1. ASSUME NEW k \in 1 .. Len(feed'), k <= Len(feed) PROVE feed'[k].band <= offered'
    <3>1. k \in 1 .. Len(feed) /\ feed'[k] = feed[k]
      BY <1>3, <1>6, <2>1
    <3>2. feed[k] \in Units /\ feed[k].band <= offered
      BY <1>3, <1>a, <3>1 DEF Typed, Memory
    <3>. QED BY <1>1, <1>3, <3>1, <3>2 DEF Units
  <2>2. ASSUME NEW k \in 1 .. Len(feed'), ~(k <= Len(feed)) PROVE feed'[k].band <= offered'
    <3>1. k - Len(feed) \in 1 .. size + 1 /\ feed'[k] = b[k - Len(feed)]
      BY <1>3, <1>6, <2>2
    <3>. QED BY <1>1, <1>3, <1>4, <3>1
  <2>. QED BY <2>1, <2>2
<1>8. Typed'
  <2>1. Ends' /\ NextTransfer' /\ Machine'
    BY <1>0, <1>a DEF Typed, Ends, NextTransfer, Machine, hugeVars, fifo, xinfo, bulk, Wrap, fifo_cached
  <2>2. Memory'
    <3>1. \A c \in Cells : ring[c] \in Units /\ ring[c].band <= offered
      BY <1>a DEF Typed, Memory
    <3>2. \A c \in Cells : ring[c].band <= offered'
      BY <1>1, <1>3, <3>1 DEF Units
    <3>. QED BY <1>0, <1>1, <1>3, <1>6, <1>7, <1>a, <3>2 DEF Typed, Memory, hugeVars, bandInfo
  <2>. QED BY <2>1, <2>2 DEF Typed
<1>9. Control' /\ Aimed' /\ (MovedOn' <=> MovedOn)
  BY <1>0, <1>a DEF Control, Quiet, Aimed, MovedOn, hugeVars, fifo, xinfo, bulk
<1>. QED BY <1>0, <1>1, <1>2, <1>8, <1>9 DEF Safe, hugeVars

(* The reader takes k units.                                               *)
LEMMA ReadSafe ==
  ASSUME Safe, pc["printer"] = "out", NEW k \in Nat, k <= fifo_cached, Ends',
         in' = in, out' = Wrap(out + k), unused' = unused + k,
         UNCHANGED <<ring, xinfo, bulk, pc, feed, offered, done, again, gaveUp, lost, aborted, dropped, g_USBTransStoped>>,
         sizeof_band' \in Cells, nextheader' \in Cells, taken' \in 0 .. offered,
         at' \in {"header", "data", "restart"}, at # "cancel"
  PROVE  Safe' /\ (MovedOn' <=> MovedOn)
<1>a. Typed /\ Machine /\ Control /\ Aimed
  BY DEF Safe, Typed
<1>1. Typed'
  BY <1>a DEF Typed, NextTransfer, Memory, Machine, xinfo, bulk
<1>2. Control'
  BY <1>a DEF Control, Quiet, bulk, xinfo
<1>3. MovedOn' <=> MovedOn
  BY DEF MovedOn, bulk
<1>4. Aimed'
  <2>1. unused \in Nat /\ cnt \in Nat
    BY <1>a, Sizes DEF Typed, Ends, NextTransfer, Cells
  <2>. QED BY <1>a, <1>3, <2>1 DEF Aimed, bulk, xinfo
<1>. QED BY <1>1, <1>2, <1>3, <1>4 DEF Safe

LEMMA GetHeaderSafe ==
  ASSUME Safe, GetHeader
  PROVE  /\ Safe' /\ (MovedOn' <=> MovedOn)
         /\ UNCHANGED <<ring, xinfo, feed, offered, dropped, lost>> /\ in' = in
         /\ fifo_cached >= 1 /\ fifo_cached' = fifo_cached - 1 /\ out' = Wrap(out + 1)
         /\ ring[out] \in Units /\ IsHeader(ring[out]) /\ ring[out].band <= offered
         /\ at = "header" /\ at' = "data" /\ taken' = ring[out].band
         /\ sizeof_band' = ring[out].size /\ nextheader' = Wrap(out' + ring[out].size)
<1>a. Typed /\ Machine /\ Control /\ Aimed /\ Ends
  BY DEF Safe, Typed
<1>0. UNCHANGED <<ring, xinfo, bulk, pc, feed, offered, done, again, gaveUp, lost, aborted, dropped, g_USBTransStoped>>
  BY DEF GetHeader, HugeBuf_GetInfHead, hostVars, transferVars
<1>1. /\ Printer /\ at = "header" /\ at' = "data" /\ taken' = ring[out].band
      /\ fifo_cached >= 1 /\ fifo_out(1)
      /\ sizeof_band' = ring[out].size /\ nextheader' = (out' + ring[out].size) % RingSize
  BY DEF GetHeader, HugeBuf_GetInfHead
<1>2. IsHeader(ring[out])
  BY DEF GetHeader, HugeBuf_GetInfHead, WrongHeader
<1>3. ring[out] \in Units /\ ring[out].band <= offered
  BY <1>a DEF Typed, Memory, Ends
<1>4. ring[out].size \in Cells /\ ring[out].band \in Nat
  BY <1>3 DEF Units
<1>5. Ends' /\ in' = in /\ out' = Wrap(out + 1) /\ fifo_cached' = fifo_cached - 1 /\ unused' = unused + 1
  <2>1. 1 = IF 1 <= fifo_cached THEN 1 ELSE fifo_cached
    BY <1>1
  <2>. HIDE DEF fifo_cached
  <2>. QED BY <1>1, <1>a, <2>1, FifoOut
<1>6. nextheader' = Wrap(out' + ring[out].size) /\ nextheader' \in Cells
  <2>1. out' \in Cells
    BY <1>5 DEF Ends
  <2>2. out' + ring[out].size \in 0 .. 2 * RingSize - 1
    BY <1>4, <2>1, Sizes DEF Cells
  <2>3. nextheader' = Wrap(out' + ring[out].size)
    BY <1>1, <2>2, ModWrap
  <2>. QED BY <1>4, <2>1, <2>3, Sizes DEF Wrap, Cells
<1>7. taken' \in 0 .. offered
  BY <1>1, <1>3, <1>4, <1>a DEF Typed, Memory
<1>8. Safe' /\ (MovedOn' <=> MovedOn)
  BY <1>0, <1>1, <1>4, <1>5, <1>6, <1>7, ReadSafe DEF Printer
<1>. QED BY <1>0, <1>1, <1>2, <1>3, <1>5, <1>6, <1>8

LEMMA SkipSafe ==
  ASSUME Safe, Skip
  PROVE  /\ Safe' /\ (MovedOn' <=> MovedOn)
         /\ UNCHANGED <<ring, xinfo, feed, offered, taken, dropped, lost, sizeof_band, nextheader>>
         /\ in' = in /\ at = "data" /\ at' = "restart" /\ fifo_cached >= sizeof_band
         /\ \E k \in 0 .. fifo_cached :
              /\ out' = Wrap(out + k) /\ fifo_cached' = fifo_cached - k
              /\ k = sizeof_band
                   \/ (nextheader >= out /\ k = nextheader - out)
                   \/ (nextheader >= out /\ k = fifo_cached /\ fifo_cached < nextheader - out)
                   \/ SkipByAddress
<1>a. Typed /\ Machine /\ Control /\ Aimed /\ Ends
  BY DEF Safe, Typed
<1>0. UNCHANGED <<ring, xinfo, bandInfo, bulk, pc, feed, offered, done, again, gaveUp, lost, aborted, taken, dropped, g_USBTransStoped>>
  BY DEF Skip, HugeBuf_Flush, HugeBuf_FlushCurBand, hostVars, transferVars
<1>1. Printer /\ at = "data" /\ at' = "restart" /\ fifo_cached >= sizeof_band
  BY DEF Skip
<1>2. sizeof_band \in Nat /\ nextheader \in Nat /\ out \in Nat /\ fifo_cached \in Nat
  BY <1>a, Sizes DEF Typed, Memory, Ends, Cells, fifo_cached
<1>3. PICK n \in Nat :
        /\ fifo_out(n)
        /\ n = sizeof_band \/ (nextheader >= out /\ n = nextheader - out) \/ SkipByAddress
  <2>1. CASE HugeBuf_Flush(sizeof_band)
    BY <1>2, <2>1 DEF HugeBuf_Flush
  <2>2. CASE nextheader >= out /\ HugeBuf_FlushCurBand
    BY <1>2, <2>2 DEF HugeBuf_FlushCurBand, FlushDistance
  <2>3. CASE SkipByAddress /\ HugeBuf_FlushCurBand
    <3>1. FlushDistance \in Nat
      BY <1>2 DEF FlushDistance
    <3>. QED BY <2>3, <3>1 DEF HugeBuf_FlushCurBand
  <2>. QED BY <2>1, <2>2, <2>3 DEF Skip
<1> DEFINE k == IF n <= fifo_cached THEN n ELSE fifo_cached
<1>4. /\ k \in Nat /\ k <= fifo_cached
      /\ Ends' /\ in' = in /\ out' = Wrap(out + k) /\ fifo_cached' = fifo_cached - k /\ unused' = unused + k
  <2>. HIDE DEF fifo_cached
  <2>. QED BY <1>3, <1>a, FifoOut
<1>5. Safe' /\ (MovedOn' <=> MovedOn)
  <2>1. sizeof_band' \in Cells /\ nextheader' \in Cells /\ taken' \in 0 .. offered
    BY <1>0, <1>a DEF Typed, Memory, bandInfo
  <2>. HIDE DEF k
  <2>. QED BY <1>0, <1>1, <1>4, <2>1, ReadSafe DEF Printer
<1>6. k \in 0 .. fifo_cached
  BY <1>2, <1>4
<1>7. k = sizeof_band \/ (nextheader >= out /\ k = nextheader - out)
        \/ (nextheader >= out /\ k = fifo_cached /\ fifo_cached < nextheader - out) \/ SkipByAddress
  BY <1>1, <1>2, <1>3
<1>. QED BY <1>0, <1>1, <1>4, <1>5, <1>6, <1>7 DEF bandInfo
(* What the next transfer brings, when one has come.                       *)
LEMMA NextCntFits ==
  ASSUME NEW left \in Nat, NEW pos \in Cells
  PROVE  /\ NextCnt(left, pos) \in 1 .. RingSize - pos
         /\ IF left = 0 THEN NextCnt(left, pos) = 1 ELSE NextCnt(left, pos) <= left
<1>1. RingSize - pos >= 1 /\ RingSize - pos \in Int
  BY Sizes DEF Cells
<1>2. CASE left = 0
  BY <1>1, <1>2 DEF NextCnt
<1>3. CASE left # 0
  <2> DEFINE room == RingSize - pos
             m == Min({left, MaxChunk, room})
  <2>1. m \in {left, MaxChunk, room} /\ \A x \in {left, MaxChunk, room} : m <= x
    <3>1. left \in Int /\ MaxChunk \in Int /\ room \in Int
      BY <1>1, Sizes
    <3>. HIDE DEF room
    <3>. QED BY <3>1, MinThree
  <2>2. NextCnt(left, pos) = m
    BY <1>3 DEF NextCnt
  <2>. HIDE DEF m
  <2>. QED BY <1>1, <1>3, <2>1, <2>2, Sizes
<1>. QED BY <1>2, <1>3

LEMMA ReceiverCompletesSafe ==
  ASSUME Safe, ReceiverCompletes
  PROVE  /\ Safe' /\ MovedOn /\ ~MovedOn'
         /\ UNCHANGED <<ring, bandInfo, feed, offered, taken, dropped, at, lost>>
         /\ out' = out /\ first' = (Left = 0) /\ remainning' = Left
         /\ at # "cancel" /\ ~lost => fifo_cached' = fifo_cached + cnt
<1>a. Typed /\ Machine /\ Control /\ Aimed /\ Ends
  BY DEF Safe, Typed
<1>0. UNCHANGED <<ring, bandInfo, bulk, feed, offered, again, gaveUp, lost, at, aborted, taken, dropped, g_USBTransStoped>>
  BY DEF ReceiverCompletes, HugeBuf_CompleteOneReceive, hostVars, transferVars, printing
<1>1. /\ done /\ done' = FALSE
      /\ remainning' = Left /\ first' = (Left = 0) /\ fifo_in(cnt) /\ cnt' = NextCnt(Left, in')
      /\ pc["receiver"] = "out" /\ pc' = [pc EXCEPT !["receiver"] = "idle?"]
  BY DEF ReceiverCompletes, HugeBuf_CompleteOneReceive, StartCall
<1>2. ~busy /\ MovedOn /\ pc["printer"] = "out"
  BY <1>1, <1>a, Sizes DEF Control, MovedOn, Quiet, Machine
<1>3. cnt \in Nat /\ in \in Cells /\ fifo_cached \in Nat
  BY <1>a, Sizes DEF Typed, Ends, NextTransfer, Cells, fifo_cached
<1>4. Left \in Nat
  <2>1. ring[in] \in Units
    BY <1>3, <1>a DEF Typed, Memory
  <2>2. ring[in].size \in Nat
    BY <2>1, Sizes DEF Units, Cells
  <2>. QED BY <1>3, <1>a, <2>2 DEF Left, Typed, NextTransfer
<1> DEFINE k == IF cnt <= unused THEN cnt ELSE unused
<1>5. Ends' /\ out' = out /\ fifo_cached' = fifo_cached + k
  <2>. HIDE DEF fifo_cached
  <2>. QED BY <1>1, <1>3, <1>a, FifoIn
<1>6. Typed'
  <2>1. NextTransfer'
    <3>1. in' \in Cells
      BY <1>5 DEF Ends
    <3>2. /\ cnt' \in 1 .. RingSize - in'
          /\ IF Left = 0 THEN cnt' = 1 ELSE cnt' <= Left
      BY <1>1, <1>4, <3>1, NextCntFits
    <3>. QED BY <1>1, <1>4, <3>2 DEF NextTransfer
  <2>2. Memory'
    BY <1>0, <1>a DEF Typed, Memory, bandInfo
  <2>3. Machine'
    BY <1>0, <1>1, <1>a, Sizes DEF Machine, bulk
  <2>. QED BY <1>5, <2>1, <2>2, <2>3 DEF Typed
<1>7. Control'
  BY <1>0, <1>1, <1>2, <1>a, Sizes DEF Machine, Control, bulk
<1>8. ~MovedOn'
  BY <1>0, <1>1, <1>2, <1>a, Sizes DEF Machine, MovedOn, bulk
<1>9. Aimed'
  BY <1>0, <1>2, <1>8 DEF Aimed, bulk
<1>10. at # "cancel" /\ ~lost => fifo_cached' = fifo_cached + cnt
  BY <1>2, <1>3, <1>5, <1>a DEF Aimed, Control
<1>. QED BY <1>0, <1>1, <1>2, <1>5, <1>6, <1>7, <1>8, <1>9, <1>10 DEF Safe
LEMMA SafeNext == Safe /\ [Next]_vars => Safe'
<1> SUFFICES ASSUME Safe, [Next]_vars PROVE Safe'
  OBVIOUS
<1>1. CASE UNCHANGED vars
  <2>1. UNCHANGED <<hugeVars, feed, done, again, gaveUp, lost, at, aborted, offered, taken, dropped, cancels>>
    BY <1>1 DEF vars, transferVars
  <2>2. Typed'
    BY <2>1 DEF Safe, Typed, Ends, NextTransfer, Memory, Machine, hugeVars, fifo, xinfo, bandInfo, bulk, Wrap, fifo_cached
  <2>3. Control' /\ Aimed'
    BY <2>1 DEF Safe, Control, Quiet, Aimed, MovedOn, hugeVars, fifo, xinfo, bulk
  <2>. QED BY <2>2, <2>3 DEF Safe
<1>2. CASE Next
  BY <1>2, HostSendsSafe, ControllerSafe, ReceiverCompletesSafe, ReceiverStartsSafe, GetHeaderSafe, SkipSafe,
     RestartSafe, CancelRestartSafe, CancelAbortSafe, StartSteps DEF Next, Receiver, PrintTask
<1>. QED BY <1>1, <1>2

(* What the receiver and the controller rely on holds in every run,        *)
(* whatever the bands hold, lost transfers and cancelled jobs included.    *)
THEOREM HugeInvariance == Spec => []Safe
<1>. QED BY SafeInit, SafeNext, PTL DEF Spec

(* A transfer goes where there is room, and never over the end of the ring *)
(* (TransferTarget): HugeBuf_StartOneReceive() looks for room before the   *)
(* reader, the timeout or HugeBuf_CancelJob() move the ends of the ring.   *)
THEOREM TransfersOnTarget == Spec => []TransferTarget
<1>1. Safe => TransferTarget
  <2> SUFFICES ASSUME Safe PROVE TransferTarget
    OBVIOUS
  <2>a. Ends /\ NextTransfer /\ Aimed
    BY DEF Safe, Typed
  <2>1. in = (out + fifo_cached) % RingSize
    <3>1. out + fifo_cached \in 0 .. 2 * RingSize - 1
      BY <2>a, Sizes DEF Ends, Cells, fifo_cached
    <3>. QED BY <2>a, <3>1, ModWrap DEF Ends
  <2>2. unused \in 0 .. RingSize
    BY <2>a DEF Ends
  <2>3. busy /\ ~aborted =>
          dmaAddr = in /\ dmaLen = cnt /\ dmaLen <= unused /\ dmaAddr + dmaLen <= RingSize
    BY <2>a, Sizes DEF Aimed, NextTransfer, Ends, Cells
  <2>. QED BY <2>1, <2>2, <2>3 DEF TransferTarget
<1>. QED BY <1>1, HugeInvariance, PTL

-----------------------------------------------------------------------------
(* The row of units.                                                       *)
LEMMA StreamTyped ==
  ASSUME Safe, at # "cancel", ~lost
  PROVE  /\ fifo_cached \in 0 .. RingSize /\ Held \in fifo_cached .. RingSize
         /\ MovedOn => Held = fifo_cached + cnt
         /\ ~MovedOn => Held = fifo_cached
         /\ Len(feed) \in Nat /\ Total \in Nat /\ Total >= Held
         /\ RowTyped(Stream, Total)
<1>a. Ends /\ NextTransfer /\ Memory /\ Machine /\ Control /\ Aimed
  BY DEF Safe, Typed
<1>1. fifo_cached \in 0 .. RingSize /\ out \in 0 .. RingSize - 1 /\ cnt \in Nat
      /\ feed \in Seq(Units) /\ Len(feed) \in Nat
  BY <1>a, Sizes DEF Ends, NextTransfer, Memory, Cells, fifo_cached
<1>2. MovedOn => cnt <= unused
  <2>1. MovedOn => ~aborted
    BY <1>a, Sizes DEF Control, Quiet, Machine, MovedOn
  <2>. QED BY <1>a, <2>1 DEF Aimed
<1>3. Held \in fifo_cached .. RingSize
  BY <1>1, <1>2, <1>a, Sizes DEF Held, Ends, fifo_cached
<1>4. Total \in Nat /\ Total >= Held
  BY <1>1, <1>3, Sizes DEF Total
<1>5. ASSUME NEW i \in 0 .. Total - 1 PROVE Stream[i] \in Units
  <2>1. CASE i < Held
    <3>1. Wrap(out + i) \in Cells
      BY <1>1, <1>3, <2>1, Sizes DEF Wrap, Cells
    <3>. QED BY <1>a, <2>1, <3>1 DEF Stream, Memory
  <2>2. CASE i >= Held
    <3>1. i - Held + 1 \in 1 .. Len(feed)
      BY <1>1, <1>3, <2>2, Sizes DEF Total
    <3>2. Stream[i] = feed[i - Held + 1]
      BY <1>3, <2>2, Sizes DEF Stream
    <3>. QED BY <1>1, <3>1, <3>2
  <2>. QED BY <1>3, <2>1, <2>2, Sizes
<1>. QED BY <1>1, <1>3, <1>4, <1>5 DEF RowTyped, Held

(* A step that changes none of the units, their order or the reader.       *)
LEMMA ContentSame ==
  ASSUME Content, Stream' = Stream, Total' = Total, fifo_cached' = fifo_cached, Rest' = Rest,
         UNCHANGED <<out, bandInfo, offered, taken, dropped, feed, lost>>,
         at' = at \/ (at = "restart" /\ at' = "header")
  PROVE  Content'
<1>1. Latest' = Latest /\ Coming' = Coming
  BY DEF Latest, Coming
<1>2. CASE at = "cancel"
  BY <1>1, <1>2 DEF Content
<1>3. CASE at # "cancel"
  <2>1. at' # "cancel"
    BY <1>3
  <2>2. Read => Read'
    BY <1>1, <1>3 DEF Read, bandInfo, Wrap
  <2>3. Written => Written'
    BY DEF Written
  <2>. QED BY <1>3, <2>1, <2>2, <2>3 DEF Content
<1>. QED BY <1>2, <1>3

LEMMA ContentStill ==
  ASSUME Content, (MovedOn' <=> MovedOn), UNCHANGED <<fifo, ring, xinfo, bandInfo, feed, offered, taken, dropped, lost>>,
         at' = at \/ (at = "restart" /\ at' = "header")
  PROVE  Content'
<1>1. fifo_cached' = fifo_cached /\ Rest' = Rest
  BY DEF fifo, xinfo, fifo_cached, Rest
<1>2. Held' = Held
  BY <1>1 DEF Held, xinfo
<1>3. Total' = Total
  BY <1>2 DEF Total
<1>4. Stream' = Stream
  BY <1>2, <1>3 DEF Stream, fifo, Wrap
<1>. QED BY <1>1, <1>3, <1>4, ContentSame DEF fifo

(* The controller moves units from the host to the ring.                   *)
LEMMA ControllerContent == Safe /\ Content /\ Controller => Content'
<1> SUFFICES ASSUME Safe, Content, Controller PROVE Content'
  OBVIOUS
<1> SUFFICES ASSUME ~lost', at' # "cancel" PROVE Content'
  <2>1. CASE at' = "cancel"
    <3>1. at = "cancel" /\ ~aborted
      BY <2>1 DEF Controller, printing
    <3>. QED BY <3>1, Sizes DEF Safe, Typed, Machine, Control, Quiet
  <2>2. CASE at' # "cancel" /\ lost'
    BY <2>2 DEF Content
  <2>. QED BY <2>1, <2>2
<1>0. UNCHANGED <<fifo, xinfo, bandInfo, offered, taken, dropped, at, aborted>>
  BY ControllerSafe
<1>1. ~MovedOn /\ MovedOn' /\ ~lost /\ cnt <= unused /\ cnt <= Len(feed) /\ lost' = lost /\ at # "cancel"
  <2>1. ~lost /\ MovedOn' /\ lost \in BOOLEAN /\ lost' \in BOOLEAN
    BY ControllerSafe DEF Safe, Typed, Machine
  <2>. QED BY <2>1, <1>0, ControllerSafe
<1>2. feed' = SubSeq(feed, cnt + 1, Len(feed))
      /\ ring' = [c \in Cells |-> IF c \in in .. in + cnt - 1 THEN feed[c - in + 1] ELSE ring[c]]
  BY ControllerSafe
<1>3. /\ in \in 0 .. RingSize - 1 /\ out \in 0 .. RingSize - 1 /\ in = Wrap(out + fifo_cached)
      /\ cnt \in Nat /\ cnt >= 1 /\ in + cnt <= RingSize /\ fifo_cached + cnt <= RingSize
      /\ feed \in Seq(Units) /\ Len(feed) \in Nat /\ fifo_cached \in Nat
      /\ Held = fifo_cached /\ Total = fifo_cached + Len(feed)
  BY <1>1, StreamTyped, Sizes DEF Safe, Typed, Ends, NextTransfer, Memory, Cells, fifo_cached, Held, Total
<1>4. fifo_cached' = fifo_cached /\ Rest' = Rest
  BY <1>0 DEF fifo, xinfo, fifo_cached, Rest
<1>5. Len(feed') = Len(feed) - cnt /\ \A k \in 1 .. Len(feed') : feed'[k] = feed[k + cnt]
  <2>1. feed' = SubSeq(feed, cnt + 1, Len(feed)) /\ cnt <= Len(feed)
    BY <1>1, <1>2
  <2>2. feed \in Seq(Units) /\ Len(feed) \in Nat /\ cnt \in Nat /\ cnt >= 1
    BY <1>3
  <2>. QED BY <2>1, <2>2
<1>6. Held' = fifo_cached + cnt
  BY <1>0, <1>1, <1>4 DEF Held, xinfo
<1>7. Total' = Total
  BY <1>3, <1>5, <1>6 DEF Total
<1>18. /\ fifo_cached \in Nat /\ cnt \in Nat /\ Len(feed) \in Nat /\ cnt <= Len(feed)
       /\ Held = fifo_cached /\ Held' = fifo_cached + cnt
       /\ Total = fifo_cached + Len(feed) /\ Len(feed') = Len(feed) - cnt
  BY <1>1, <1>3, <1>5, <1>6
<1>8. Stream' = Stream
  <2>1. ASSUME NEW i \in 0 .. Total - 1
        PROVE  (IF i < Held' THEN ring'[Wrap(out + i)] ELSE feed'[i - Held' + 1])
                 = (IF i < Held THEN ring[Wrap(out + i)] ELSE feed[i - Held + 1])
    <3>1. CASE i < fifo_cached
      <4>1. Wrap(out + i) \in Cells /\ Wrap(out + i) \notin in .. in + cnt - 1
        BY <1>3, <3>1, Sizes DEF Wrap, Cells
      <4>2. i < Held' /\ i < Held
        BY <1>18, <3>1
      <4>3. ring'[Wrap(out + i)] = ring[Wrap(out + i)]
        BY <1>2, <4>1
      <4>. QED BY <4>2, <4>3
    <3>2. CASE i >= fifo_cached /\ i < fifo_cached + cnt
      <4>1. Wrap(out + i) = in + (i - fifo_cached)
        BY <1>3, <3>2, Sizes DEF Wrap
      <4>2. in + (i - fifo_cached) \in Cells /\ in + (i - fifo_cached) \in in .. in + cnt - 1
        BY <1>3, <3>2, Sizes, SMTT(30) DEF Cells
      <4>3. in + (i - fifo_cached) - in + 1 = i - fifo_cached + 1
        BY <1>3
      <4>4. ring'[Wrap(out + i)] = feed[i - fifo_cached + 1]
        <5> DEFINE c == in + (i - fifo_cached)
        <5>1. c \in Cells /\ c \in in .. in + cnt - 1
          BY <4>2
        <5>2. ring'[c] = feed[c - in + 1]
          <6>1. ring' = [d \in Cells |-> IF d \in in .. in + cnt - 1 THEN feed[d - in + 1] ELSE ring[d]]
            BY <1>2
          <6>. HIDE DEF c
          <6>. QED BY <5>1, <6>1
        <5>3. Wrap(out + i) = c /\ c - in + 1 = i - fifo_cached + 1
          BY <1>3, <4>1, <4>3
        <5>. HIDE DEF c
        <5>. QED BY <5>2, <5>3
      <4>. QED BY <1>3, <1>6, <3>2, <4>4
    <3>3. CASE i >= fifo_cached + cnt
      <4>1. i - Held' + 1 \in 1 .. Len(feed') /\ i - Held' + 1 + cnt = i - Held + 1
        BY <1>18, <3>3
      <4>2. feed'[i - Held' + 1] = feed[i - Held + 1]
        BY <1>5, <4>1
      <4>3. ~(i < Held') /\ ~(i < Held)
        BY <1>18, <3>3
      <4>. QED BY <4>2, <4>3
    <3>4. fifo_cached \in Nat /\ cnt \in Nat
      BY <1>18
    <3>. QED BY <3>1, <3>2, <3>3, <3>4
  <2>2. out' = out /\ \A x : Wrap(x)' = Wrap(x)
    BY <1>0 DEF fifo, Wrap
  <2>. QED BY <1>7, <2>1, <2>2 DEF Stream
<1>9. Latest' = Latest /\ at' = at /\ offered' = offered
  BY <1>0 DEF Latest
<1>10. Read => Read'
  BY <1>0, <1>1, <1>7, <1>8, <1>9 DEF Read, bandInfo, fifo, Wrap
<1>11. Written => Written'
  BY <1>4, <1>7, <1>8 DEF Written
<1>. QED BY <1>0, <1>1, <1>7, <1>8, <1>9, <1>10, <1>11 DEF Content

(* The receiver counts what has come, and knows what follows from it.      *)
LEMMA ReceiverContent == Safe /\ Content /\ ReceiverCompletes => Content'
<1> SUFFICES ASSUME Safe, Content, ReceiverCompletes PROVE Content'
  OBVIOUS
<1>0. UNCHANGED <<ring, bandInfo, feed, offered, taken, dropped, at, lost, out>>
  BY ReceiverCompletesSafe
<1>1. CASE at = "cancel"
  <2>1. Latest' = Latest /\ Coming' = Coming
    BY <1>0 DEF Latest, Coming
  <2>. QED BY <1>0, <1>1, <2>1 DEF Content
<1>2. CASE at # "cancel" /\ lost
  BY <1>0, <1>2 DEF Content
<1>3. CASE at # "cancel" /\ ~lost
  <2>1. MovedOn /\ ~MovedOn' /\ fifo_cached' = fifo_cached + cnt /\ first' = (Left = 0) /\ remainning' = Left
    BY <1>3, ReceiverCompletesSafe
  <2>2. /\ fifo_cached \in Nat /\ cnt \in Nat /\ Held = fifo_cached + cnt /\ Held <= RingSize
        /\ Len(feed) \in Nat /\ Total \in Nat /\ Total >= Held /\ RowTyped(Stream, Total)
    BY <1>3, <2>1, StreamTyped, Sizes DEF Safe, Typed, Ends, NextTransfer, Cells
  <2>3. Held' = Held
    BY <2>1, <2>2 DEF Held
  <2>4. Total' = Total /\ Stream' = Stream
    BY <1>0, <2>3 DEF Total, Stream, Wrap
  <2>5. RowOf(Stream, Total, offered) /\ Read /\ Written
    BY <1>3 DEF Content
  <2>6. Read'
    BY <1>0, <2>4, <2>5 DEF Read, Latest, bandInfo, Wrap
  <2>7. Written'
    <3>1. CASE first
      <4>1. cnt = 1 /\ Rest = 0 /\ in = Wrap(out + fifo_cached)
        BY <3>1 DEF Safe, Typed, NextTransfer, Ends, Rest
      <4>2. fifo_cached \in 0 .. Total - 1 /\ fifo_cached < Held
        BY <2>2, <4>1
      <4>3. Stream[fifo_cached] = ring[in] /\ IsHeader(Stream[fifo_cached])
        BY <2>2, <2>5, <4>1, <4>2 DEF Written, Stream
      <4>4. Stream[fifo_cached] \in Units
        BY <2>2, <4>2 DEF RowTyped
      <4> DEFINE u == Stream[fifo_cached]
      <4>5. u.size \in Nat /\ Left = u.size
        BY <3>1, <4>3, <4>4, Sizes DEF Units, Cells, Left
      <4>6. /\ DataAt(Stream, Total, fifo_cached + 1, u.band, u.size)
            /\ HeaderAt(Stream, Total, fifo_cached + 1 + u.size, u.band + 1, offered)
        BY <2>5, <4>2, <4>3 DEF RowOf
      <4>7. fifo_cached + 1 + u.size <= Total
        BY <4>6 DEF DataAt
      <4>8. fifo_cached + 1 + u.size < Total => IsHeader(Stream[fifo_cached + 1 + u.size])
        BY <2>2, <4>5, <4>6 DEF HeaderAt
      <4>9. fifo_cached' + Rest' = fifo_cached + 1 + u.size
        <5>. HIDE DEF u
        <5>. QED BY <2>1, <2>2, <4>1, <4>5 DEF Rest
      <4>. QED BY <2>4, <4>7, <4>8, <4>9 DEF Written
    <3>2. CASE ~first
      <4>1. Left = remainning - cnt /\ Left \in Nat /\ remainning \in Nat /\ Rest = remainning
        BY <3>2, <2>2 DEF Left, Rest, Safe, Typed, NextTransfer
      <4>2. fifo_cached' + Rest' = fifo_cached + Rest
        <5>1. Rest' = Left
          BY <2>1, <4>1 DEF Rest
        <5>. QED BY <2>1, <2>2, <4>1, <5>1
      <4>. QED BY <2>4, <2>5, <4>2 DEF Written
    <3>. QED BY <3>1, <3>2
  <2>. QED BY <1>0, <1>3, <2>4, <2>5, <2>6, <2>7 DEF Content
<1>. QED BY <1>1, <1>2, <1>3
(* The reader takes k units from the front of the row.                     *)
LEMMA StreamShift ==
  ASSUME Safe, Content, at # "cancel", ~lost, (MovedOn' <=> MovedOn),
         UNCHANGED <<ring, xinfo, feed, offered>>,
         NEW k \in 0 .. fifo_cached, out' = Wrap(out + k), fifo_cached' = fifo_cached - k
  PROVE  /\ Total \in Nat /\ k <= Total /\ Total' = Total - k
         /\ \A i \in 0 .. Total - k - 1 : Stream'[i] = Stream[i + k]
         /\ RowOf(Stream', Total', offered') /\ Written'
<1>1. /\ fifo_cached \in 0 .. RingSize /\ Held \in fifo_cached .. RingSize
      /\ Len(feed) \in Nat /\ Total \in Nat /\ Total >= Held /\ RowTyped(Stream, Total)
      /\ RingSize \in Nat /\ k \in Nat /\ k <= fifo_cached /\ k <= Total
  BY StreamTyped, Sizes
<1>2. cnt \in Nat /\ remainning \in Nat /\ out \in 0 .. RingSize - 1 /\ offered \in Nat /\ Rest \in Nat
  BY Sizes DEF Safe, Typed, NextTransfer, Ends, Memory, Cells, Rest
<1>3. Held' = Held - k
  BY <1>1, <1>2 DEF Held, xinfo
<1>4. Total' = Total - k
  BY <1>1, <1>3 DEF Total
<1>5. ASSUME NEW i \in 0 .. Total - k - 1 PROVE Stream'[i] = Stream[i + k]
  <2>1. i \in 0 .. Total' - 1 /\ i + k \in 0 .. Total - 1 /\ i \in Nat
    BY <1>1, <1>4
  <2>2. Stream'[i] = IF i < Held' THEN ring[Wrap(out' + i)] ELSE feed[i - Held' + 1]
    <3>1. \A j \in 0 .. Total' - 1 :
            Stream'[j] = IF j < Held' THEN ring[Wrap(out' + j)] ELSE feed[j - Held' + 1]
      BY DEF Stream, Wrap
    <3>. QED BY <2>1, <3>1
  <2> DEFINE j == i + k
  <2>3. Stream[j] = IF j < Held THEN ring[Wrap(out + j)] ELSE feed[j - Held + 1]
    <3>. HIDE DEF j
    <3>1. j \in 0 .. Total - 1
      BY <2>1 DEF j
    <3>. QED BY <3>1 DEF Stream
  <2>4. i < Held' <=> j < Held
    BY <1>1, <1>3, <2>1
  <2>5. j < Held => Wrap(out' + i) = Wrap(out + j)
    BY <1>1, <1>2, <2>1 DEF Wrap
  <2>6. i - Held' + 1 = j - Held + 1
    BY <1>1, <1>3, <2>1
  <2>7. Stream'[i] = Stream[j]
    <3>. HIDE DEF j
    <3>. QED BY <2>2, <2>3, <2>4, <2>5, <2>6
  <2>. QED BY <2>7
<1>6. RowOf(Stream, Total, offered) /\ Written
  BY DEF Content
<1>7. RowOf(Stream', Total', offered')
  <2>1. RowOf(Stream', Total - k, offered)
    <3> DEFINE r == Stream'
               s == Stream
               n == Total
    <3>1. n \in Nat /\ k \in 0 .. n /\ RowTyped(s, n) /\ RowOf(s, n, offered)
          /\ \A i \in 0 .. n - k - 1 : r[i] = s[i + k]
      BY <1>1, <1>5, <1>6
    <3>. HIDE DEF r, s, n
    <3>2. RowOf(r, n - k, offered)
      BY <1>2, <3>1, RowShift
    <3>. QED BY <3>2 DEF r, n
  <2>. QED BY <1>4, <2>1
<1>8. Written'
  <2>1. Rest' = Rest
    BY DEF Rest, xinfo
  <2>2. fifo_cached' + Rest' <= Total'
    BY <1>1, <1>2, <1>4, <1>6, <2>1 DEF Written
  <2>3. ASSUME fifo_cached' + Rest' < Total' PROVE IsHeader(Stream'[fifo_cached' + Rest'])
    <3> DEFINE i == fifo_cached' + Rest'
    <3>1. i \in 0 .. Total - k - 1 /\ i + k = fifo_cached + Rest /\ fifo_cached + Rest < Total
      BY <1>1, <1>2, <1>4, <2>1, <2>3
    <3>2. Stream'[i] = Stream[i + k]
      <4>. HIDE DEF i
      <4>. QED BY <1>5, <3>1
    <3>. QED BY <1>6, <3>1, <3>2 DEF Written
  <2>. QED BY <2>2, <2>3 DEF Written
<1>. QED BY <1>1, <1>4, <1>5, <1>7, <1>8

LEMMA GetHeaderContent == Safe /\ Content /\ GetHeader => Content'
<1> SUFFICES ASSUME Safe, Content, GetHeader PROVE Content'
  OBVIOUS
<1>0. /\ (MovedOn' <=> MovedOn)
      /\ UNCHANGED <<ring, xinfo, feed, offered, dropped, lost>>
      /\ fifo_cached >= 1 /\ fifo_cached' = fifo_cached - 1 /\ out' = Wrap(out + 1)
      /\ ring[out] \in Units /\ IsHeader(ring[out]) /\ ring[out].band <= offered
      /\ at = "header" /\ at' = "data" /\ taken' = ring[out].band
      /\ sizeof_band' = ring[out].size /\ nextheader' = Wrap(out' + ring[out].size)
  BY GetHeaderSafe
<1>1. CASE lost
  BY <1>0, <1>1 DEF Content
<1>2. CASE ~lost
  <2>1. /\ fifo_cached \in 0 .. RingSize /\ Held \in fifo_cached .. RingSize /\ RingSize \in Nat
        /\ Total \in Nat /\ Total >= Held
    BY <1>0, <1>2, StreamTyped, Sizes
  <2>2. /\ Total' = Total - 1
        /\ \A i \in 0 .. Total - 1 - 1 : Stream'[i] = Stream[i + 1]
        /\ RowOf(Stream', Total', offered') /\ Written'
    <3>1. 1 \in 0 .. fifo_cached
      BY <1>0, <2>1
    <3>. QED BY <1>0, <1>2, <3>1, StreamShift
  <2>3. out \in 0 .. RingSize - 1 /\ taken \in Nat /\ dropped \in Nat
    BY Sizes DEF Safe, Typed, Ends, Memory, Cells
  <2>4. 0 \in 0 .. Total - 1 /\ Stream[0] = ring[out]
    <3>1. Wrap(out + 0) = out
      BY <2>3, Sizes DEF Wrap
    <3>2. 0 \in 0 .. Total - 1 /\ 0 < Held
      BY <1>0, <2>1
    <3>. QED BY <3>1, <3>2 DEF Stream
  <2> DEFINE u == ring[out]
  <2>5. u.band \in Nat /\ u.size \in Nat
    BY <1>0, Sizes DEF Units, Cells
  <2>6. /\ DataAt(Stream, Total, 1, u.band, u.size)
        /\ HeaderAt(Stream, Total, 1 + u.size, u.band + 1, offered)
    <3>1. RowOf(Stream, Total, offered)
      BY <1>0, <1>2 DEF Content
    <3>. QED BY <1>0, <2>4, <3>1 DEF RowOf
  <2>7. u.band = Latest + 1
    <3>1. HeaderAt(Stream, Total, 0, Latest + 1, offered)
      BY <1>0, <1>2 DEF Content, Read
    <3>. QED BY <2>1, <2>4, <3>1 DEF HeaderAt
  <2>8. Latest' = taken'
    BY <1>0, <2>3, <2>7 DEF Latest
  <2>9. DataAt(Stream', Total', 0, u.band, u.size)
    <3>1. 1 + u.size <= Total
      BY <2>6 DEF DataAt
    <3>2. ASSUME NEW j \in 1 .. u.size PROVE Stream'[0 + j - 1] = [band |-> u.band, pos |-> j, size |-> u.size]
      <4>1. Stream[1 + j - 1] = [band |-> u.band, pos |-> j, size |-> u.size]
        BY <2>6 DEF DataAt
      <4>2. 0 + j - 1 \in 0 .. Total - 1 - 1 /\ 1 + j - 1 = 0 + j - 1 + 1
        BY <2>1, <2>5, <3>1
      <4>. QED BY <2>2, <4>1, <4>2
    <3>3. 0 + u.size <= Total'
      BY <2>1, <2>2, <2>5, <3>1
    <3>. QED BY <3>2, <3>3 DEF DataAt
  <2>10. HeaderAt(Stream', Total', u.size, u.band + 1, offered)
    <3> DEFINE r == Stream'
               s == Stream
               n == Total
               p == u.size
               b == u.band + 1
    <3>1. n \in Nat /\ 1 \in 0 .. n /\ p \in Nat /\ (\A i \in 0 .. n - 1 - 1 : r[i] = s[i + 1])
          /\ HeaderAt(s, n, p + 1, b, offered)
      <4>1. 1 + u.size = u.size + 1
        BY <2>5
      <4>. QED BY <2>1, <2>2, <2>4, <2>5, <2>6, <4>1
    <3>. HIDE DEF r, s, n, p, b
    <3>2. HeaderAt(r, n - 1, p, b, offered)
      BY <3>1, HeaderShift
    <3>. QED BY <2>2, <3>2 DEF r, n, p, b
  <2>11. Read'
    <3>1. nextheader' = Wrap(out' + sizeof_band')
      BY <1>0
    <3>. QED BY <1>0, <2>8, <2>9, <2>10, <3>1 DEF Read, Wrap
  <2>. QED BY <1>0, <2>2, <2>11 DEF Content
<1>. QED BY <1>1, <1>2

LEMMA SkipContent == ~SkipByAddress /\ Safe /\ Content /\ Skip => Content'
<1> SUFFICES ASSUME ~SkipByAddress, Safe, Content, Skip PROVE Content'
  OBVIOUS
<1>0. /\ (MovedOn' <=> MovedOn)
      /\ UNCHANGED <<ring, xinfo, feed, offered, taken, dropped, lost, sizeof_band, nextheader>>
      /\ at = "data" /\ at' = "restart" /\ fifo_cached >= sizeof_band
  BY SkipSafe
<1>1. CASE lost
  BY <1>0, <1>1 DEF Content
<1>2. CASE ~lost
  <2>1. sizeof_band \in 0 .. RingSize - 1 /\ out \in 0 .. RingSize - 1 /\ fifo_cached \in Nat /\ RingSize \in Nat
    BY Sizes DEF Safe, Typed, Memory, Ends, Cells, fifo_cached
  <2>2. Read /\ RowOf(Stream, Total, offered)
    BY <1>0, <1>2 DEF Content
  <2>3. sizeof_band \in 0 .. fifo_cached /\ out' = Wrap(out + sizeof_band) /\ fifo_cached' = fifo_cached - sizeof_band
    <3>1. PICK k \in 0 .. fifo_cached :
              /\ out' = Wrap(out + k) /\ fifo_cached' = fifo_cached - k
              /\ k = sizeof_band
                   \/ (nextheader >= out /\ k = nextheader - out)
                   \/ (nextheader >= out /\ k = fifo_cached /\ fifo_cached < nextheader - out)
                   \/ SkipByAddress
      BY SkipSafe
    <3>2. nextheader = Wrap(out + sizeof_band)
      BY <1>0, <2>2 DEF Read
    <3>3. nextheader >= out => nextheader - out = sizeof_band
      BY <2>1, <3>2 DEF Wrap
    <3>4. k = sizeof_band
      BY <1>0, <2>1, <3>1, <3>3
    <3>. QED BY <3>1, <3>4
  <2>4. /\ Total \in Nat /\ sizeof_band <= Total /\ Total' = Total - sizeof_band
        /\ \A i \in 0 .. Total - sizeof_band - 1 : Stream'[i] = Stream[i + sizeof_band]
        /\ RowOf(Stream', Total', offered') /\ Written'
    BY <1>0, <1>2, <2>3, StreamShift
  <2>5. Latest' = Latest /\ Latest = taken
    BY <1>0, <2>2 DEF Latest, Read
  <2>6. HeaderAt(Stream', Total', 0, taken + 1, offered)
    <3> DEFINE r == Stream'
               s == Stream
               n == Total
               k == sizeof_band
    <3>1. n \in Nat /\ k \in 0 .. n /\ k \in Nat /\ (\A i \in 0 .. n - k - 1 : r[i] = s[i + k])
          /\ HeaderAt(s, n, 0 + k, taken + 1, offered)
      <4>1. 0 + sizeof_band = sizeof_band
        BY <2>1
      <4>. QED BY <1>0, <2>1, <2>2, <2>4, <4>1 DEF Read
    <3>. HIDE DEF r, s, n, k
    <3>2. HeaderAt(r, n - k, 0, taken + 1, offered)
      BY <3>1, HeaderShift
    <3>. QED BY <2>4, <3>2 DEF r, n, k
  <2>7. Read'
    BY <1>0, <2>5, <2>6 DEF Read
  <2>. QED BY <1>0, <2>4, <2>7 DEF Content
<1>. QED BY <1>1, <1>2
(* The host adds a band at the end of the row.                             *)
LEMMA BandAdded ==
  ASSUME Safe, NEW size \in Cells, feed' = feed \o Band(offered + 1, size)
  PROVE  /\ Len(feed') = Len(feed) + size + 1
         /\ \A k \in 1 .. Len(feed) : feed'[k] = feed[k]
         /\ \A j \in 0 .. size :
              feed'[Len(feed) + 1 + j] = [band |-> offered + 1, pos |-> j, size |-> size]
<1>1. size \in Nat /\ offered \in Nat /\ feed \in Seq(Units) /\ Len(feed) \in Nat
  BY Sizes DEF Safe, Typed, Memory, Cells
<1> DEFINE b == Band(offered + 1, size)
<1>2. b \in [1 .. size + 1 -> Units] /\ \A i \in 1 .. size + 1 : b[i] = [band |-> offered + 1, pos |-> i - 1, size |-> size]
  BY <1>1 DEF Band, Units
<1>3. b \in Seq(Units) /\ Len(b) = size + 1 /\ feed' = feed \o b
  BY <1>1, <1>2
<1> HIDE DEF b
<1>a. Len(feed') = Len(feed) + Len(b)
  BY <1>1, <1>3, ConcatProperties
<1>b. \A i \in 1 .. Len(feed) + Len(b) : feed'[i] = IF i <= Len(feed) THEN feed[i] ELSE b[i - Len(feed)]
  BY <1>1, <1>3, ConcatProperties
<1>4. /\ Len(feed') = Len(feed) + Len(b)
      /\ \A i \in 1 .. Len(feed) + Len(b) : feed'[i] = IF i <= Len(feed) THEN feed[i] ELSE b[i - Len(feed)]
  BY <1>a, <1>b
<1>5. ASSUME NEW j \in 0 .. size
      PROVE  feed'[Len(feed) + 1 + j] = [band |-> offered + 1, pos |-> j, size |-> size]
  <2> DEFINE i == Len(feed) + 1 + j
             m == j + 1
  <2>1. i \in 1 .. Len(feed) + Len(b) /\ ~(i <= Len(feed)) /\ i - Len(feed) = m
    BY <1>1, <1>3
  <2>2. m \in 1 .. size + 1 /\ m - 1 = j
    BY <1>1
  <2>. HIDE DEF i, m
  <2>3. feed'[i] = b[m]
    BY <1>4, <2>1
  <2>4. b[m] = [band |-> offered + 1, pos |-> j, size |-> size]
    BY <1>2, <2>2
  <2>. QED BY <2>3, <2>4 DEF i
<1>6. \A k \in 1 .. Len(feed) : feed'[k] = feed[k]
  BY <1>1, <1>3, <1>4
<1>7. Len(feed') = Len(feed) + size + 1
  BY <1>1, <1>3, <1>4
<1>. QED BY <1>5, <1>6, <1>7

LEMMA ComingTyped == Safe => Len(feed) \in Nat /\ RowTyped(Coming, Len(feed))
<1> SUFFICES ASSUME Safe PROVE Len(feed) \in Nat /\ RowTyped(Coming, Len(feed))
  OBVIOUS
<1>1. feed \in Seq(Units) /\ Len(feed) \in Nat
  BY DEF Safe, Typed, Memory
<1>2. ASSUME NEW i \in 0 .. Len(feed) - 1 PROVE Coming[i] \in Units
  <2>1. i + 1 \in 1 .. Len(feed) /\ Coming[i] = feed[i + 1]
    BY <1>1 DEF Coming
  <2>. QED BY <1>1, <2>1
<1>. QED BY <1>1, <1>2 DEF RowTyped

LEMMA HostSendsContent == Safe /\ Content /\ HostSends => Content'
<1> SUFFICES ASSUME Safe, Content, HostSends PROVE Content'
  OBVIOUS
<1>0. /\ Safe' /\ (MovedOn' <=> MovedOn) /\ offered' = offered + 1
      /\ UNCHANGED <<fifo, ring, xinfo, bandInfo, taken, dropped, at, lost>>
  BY HostSendsSafe
<1>1. PICK size \in Cells : feed' = feed \o Band(offered + 1, size)
  BY HostSendsSafe
<1>2. /\ Len(feed') = Len(feed) + size + 1
      /\ \A k \in 1 .. Len(feed) : feed'[k] = feed[k]
      /\ \A j \in 0 .. size :
           feed'[Len(feed) + 1 + j] = [band |-> offered + 1, pos |-> j, size |-> size]
  BY <1>1, BandAdded
<1>3. size \in Nat /\ offered \in Nat /\ Len(feed) \in Nat
  BY Sizes DEF Safe, Typed, Memory, Cells
<1>4. Latest' = Latest
  BY <1>0 DEF Latest
<1>5. CASE at = "cancel"
  <2> DEFINE s == Coming
             r == Coming'
             n == Len(feed)
  <2>1. Content <=> RowOf(s, n, offered) /\ HeaderAt(s, n, 0, Latest + 1, offered)
    BY <1>5 DEF Content
  <2>2. Content' <=> RowOf(r, n + size + 1, offered + 1) /\ HeaderAt(r, n + size + 1, 0, Latest + 1, offered + 1)
    BY <1>0, <1>2, <1>4, <1>5 DEF Content
  <2>3. \A i \in 0 .. n - 1 : r[i] = s[i]
    <3> SUFFICES ASSUME NEW i \in 0 .. n - 1 PROVE r[i] = s[i]
      OBVIOUS
    <3>1. i \in 0 .. Len(feed') - 1 /\ i + 1 \in 1 .. Len(feed)
      BY <1>2, <1>3
    <3>. QED BY <1>2, <3>1 DEF Coming
  <2>4. \A j \in 0 .. size : r[n + j] = [band |-> offered + 1, pos |-> j, size |-> size]
    <3> SUFFICES ASSUME NEW j \in 0 .. size PROVE r[n + j] = [band |-> offered + 1, pos |-> j, size |-> size]
      OBVIOUS
    <3> DEFINE i == n + j
    <3>1. i \in 0 .. Len(feed') - 1 /\ i + 1 = Len(feed) + 1 + j
      BY <1>2, <1>3
    <3>2. r[i] = feed'[i + 1]
      <4>. HIDE DEF i
      <4>. QED BY <3>1 DEF Coming
    <3>3. feed'[i + 1] = feed'[Len(feed) + 1 + j]
      <4>. HIDE DEF i
      <4>. QED BY <3>1
    <3>. QED BY <1>2, <3>2, <3>3
  <2>5. n \in Nat /\ RowTyped(s, n)
    BY ComingTyped
  <2>6. n + size + 1 > n /\ n + size + 1 \in Nat
    BY <1>3, <2>5
  <2>7. r[n] = [band |-> offered + 1, pos |-> 0, size |-> size]
    <3>1. 0 \in 0 .. size /\ n + 0 = n
      BY <1>3, <2>5
    <3>. QED BY <2>4, <3>1
  <2>8. IsHeader(r[n]) /\ r[n].band = offered + 1
    BY <1>3, <2>7 DEF IsHeader
  <2>. HIDE DEF s, r, n
  <2>9. RowOf(r, n + size + 1, offered + 1)
    BY <1>3, <2>1, <2>3, <2>4, <2>5, RowExtend
  <2>10. HeaderAt(r, n + size + 1, 0, Latest + 1, offered + 1)
    <3> DEFINE m == n + size + 1
    <3>1. m > n /\ m \in Nat
      BY <2>6
    <3>. HIDE DEF m
    <3>2. HeaderAt(r, m, 0, Latest + 1, offered + 1)
      BY <1>3, <2>1, <2>3, <2>5, <2>8, <3>1, HeaderExtend
    <3>. QED BY <3>2 DEF m
  <2>. QED BY <2>2, <2>9, <2>10
<1>6. CASE at # "cancel" /\ lost
  BY <1>0, <1>6 DEF Content
<1>7. CASE at # "cancel" /\ ~lost
  <2>1. /\ fifo_cached \in Nat /\ Held \in Nat /\ Held >= fifo_cached
        /\ Total \in Nat /\ Total = Held + Len(feed) /\ RowTyped(Stream, Total)
    BY <1>7, StreamTyped, Sizes DEF Total
  <2>2. fifo_cached' = fifo_cached /\ Rest' = Rest /\ Rest \in Nat
    BY <1>0 DEF Rest, fifo, xinfo, fifo_cached, Safe, Typed, NextTransfer
  <2>3. Held' = Held
    BY <1>0, <2>2 DEF Held, xinfo
  <2>4. Total' = Total + size + 1
    BY <1>2, <1>3, <2>1, <2>3 DEF Total
  <2> DEFINE s == Stream
             r == Stream'
             n == Total
  <2>5. \A i \in 0 .. Total' - 1 : r[i] = IF i < Held THEN ring[Wrap(out + i)] ELSE feed'[i - Held + 1]
    BY <1>0, <2>3 DEF Stream, fifo, Wrap
  <2>6. \A i \in 0 .. n - 1 : r[i] = s[i]
    <3> SUFFICES ASSUME NEW i \in 0 .. n - 1 PROVE r[i] = s[i]
      OBVIOUS
    <3>1. i \in 0 .. Total' - 1 /\ (i >= Held => i - Held + 1 \in 1 .. Len(feed))
      BY <1>3, <2>1, <2>4
    <3>2. i >= Held => feed'[i - Held + 1] = feed[i - Held + 1]
      BY <1>2, <3>1
    <3>3. s[i] = IF i < Held THEN ring[Wrap(out + i)] ELSE feed[i - Held + 1]
      BY DEF Stream
    <3>4. r[i] = IF i < Held THEN ring[Wrap(out + i)] ELSE feed'[i - Held + 1]
      BY <2>5, <3>1
    <3>5. i < Held \/ i >= Held
      BY <2>1
    <3>. QED BY <3>2, <3>3, <3>4, <3>5
  <2>7. \A j \in 0 .. size : r[n + j] = [band |-> offered + 1, pos |-> j, size |-> size]
    <3> SUFFICES ASSUME NEW j \in 0 .. size PROVE r[n + j] = [band |-> offered + 1, pos |-> j, size |-> size]
      OBVIOUS
    <3> DEFINE i == n + j
    <3>1. i \in 0 .. Total' - 1 /\ ~(i < Held) /\ i - Held + 1 = Len(feed) + 1 + j
      BY <1>3, <2>1, <2>4
    <3>2. r[i] = feed'[i - Held + 1]
      <4>. HIDE DEF i, r
      <4>. QED BY <2>5, <3>1
    <3>3. feed'[i - Held + 1] = feed'[Len(feed) + 1 + j]
      <4>. HIDE DEF i
      <4>. QED BY <3>1
    <3>. QED BY <1>2, <3>2, <3>3
  <2>8. n \in Nat /\ RowTyped(s, n) /\ RowOf(s, n, offered) /\ Read /\ Written
    BY <1>7, <2>1 DEF Content
  <2>9. r[n] = [band |-> offered + 1, pos |-> 0, size |-> size]
    <3>1. 0 \in 0 .. size /\ n + 0 = n
      BY <1>3, <2>1
    <3>. QED BY <2>7, <3>1
  <2>10. IsHeader(r[n]) /\ r[n].band = offered + 1
    BY <1>3, <2>9 DEF IsHeader
  <2>11. RowOf(r, Total', offered')
    <3>. HIDE DEF s, r, n
    <3>1. RowOf(r, n + size + 1, offered + 1)
      BY <1>3, <2>6, <2>7, <2>8, RowExtend
    <3>. QED BY <1>0, <2>4, <3>1 DEF n
  <2>12. ASSUME NEW p \in Nat, NEW b, HeaderAt(Stream, Total, p, b, offered)
         PROVE  HeaderAt(Stream', Total', p, b, offered')
    <3> DEFINE m == Total'
    <3>1. m > n /\ m \in Nat /\ HeaderAt(s, n, p, b, offered)
      BY <1>3, <2>1, <2>4, <2>12
    <3>. HIDE DEF s, r, n, m
    <3>2. HeaderAt(r, m, p, b, offered + 1)
      BY <1>3, <2>6, <2>8, <2>10, <3>1, HeaderExtend
    <3>. QED BY <1>0, <3>2 DEF r, m
  <2>13. Read'
    <3>1. CASE at = "data"
      <4>1. sizeof_band \in Nat
        BY Sizes DEF Safe, Typed, Memory, Cells
      <4>2. DataAt(Stream, Total, 0, taken, sizeof_band) /\ HeaderAt(Stream, Total, sizeof_band, taken + 1, offered)
            /\ Latest = taken /\ nextheader = Wrap(out + sizeof_band)
        BY <2>8, <3>1 DEF Read
      <4>3. HeaderAt(Stream', Total', sizeof_band, taken + 1, offered')
        BY <2>12, <4>1, <4>2
      <4>4. DataAt(Stream', Total', 0, taken, sizeof_band)
        <5>1. 0 + sizeof_band <= Total
          BY <4>2 DEF DataAt
        <5>2. ASSUME NEW j \in 1 .. sizeof_band
              PROVE  Stream'[0 + j - 1] = [band |-> taken, pos |-> j, size |-> sizeof_band]
          <6>1. Stream[0 + j - 1] = [band |-> taken, pos |-> j, size |-> sizeof_band]
            BY <4>2 DEF DataAt
          <6>2. 0 + j - 1 \in 0 .. n - 1
            BY <2>1, <4>1, <5>1
          <6>. QED BY <2>6, <6>1, <6>2
        <5>3. 0 + sizeof_band <= Total'
          BY <1>3, <2>1, <2>4, <4>1, <5>1
        <5>. QED BY <5>2, <5>3 DEF DataAt
      <4>. QED BY <1>0, <1>4, <3>1, <4>2, <4>3, <4>4 DEF Read, bandInfo, fifo, Wrap
    <3>2. CASE at # "data"
      <4>1. HeaderAt(Stream, Total, 0, Latest + 1, offered)
        BY <2>8, <3>2 DEF Read
      <4>2. HeaderAt(Stream', Total', 0, Latest + 1, offered')
        BY <2>12, <4>1
      <4>. QED BY <1>0, <1>4, <3>2, <4>2 DEF Read
    <3>. QED BY <3>1, <3>2
  <2>14. Written'
    <3> DEFINE k == fifo_cached + Rest
    <3>1. k \in Nat /\ k <= Total /\ fifo_cached' + Rest' = k
      BY <2>1, <2>2, <2>8 DEF Written
    <3>2. CASE k < Total
      <4>1. k \in 0 .. n - 1 /\ IsHeader(Stream[k])
        BY <2>1, <2>8, <3>1, <3>2 DEF Written
      <4>2. Stream'[k] = Stream[k]
        <5>. HIDE DEF k
        <5>. QED BY <2>6, <4>1
      <4>. QED BY <1>3, <2>1, <2>4, <3>1, <4>1, <4>2 DEF Written
    <3>3. CASE k = Total
      <4>1. fifo_cached' + Rest' = Total /\ IsHeader(Stream'[Total])
        BY <2>10, <3>1, <3>3
      <4>. QED BY <1>3, <2>1, <2>4, <4>1 DEF Written
    <3>. QED BY <2>1, <3>1, <3>2, <3>3
  <2>. QED BY <1>0, <1>7, <2>11, <2>13, <2>14 DEF Content
<1>. QED BY <1>5, <1>6, <1>7
(* A cancelled job leaves nothing to the host, and nothing in the ring.    *)
LEMMA CancelAbortContent == Safe /\ CancelAbort => Content'
<1> SUFFICES ASSUME Safe, CancelAbort PROVE Content'
  OBVIOUS
<1>1. at' = "cancel" /\ feed' = <<>> /\ dropped' = offered /\ UNCHANGED <<taken, offered>>
  BY DEF CancelAbort
<1>2. taken \in 0 .. offered /\ offered \in Nat
  BY DEF Safe, Typed, Memory
<1>3. Len(feed') = 0 /\ Latest' = offered' /\ offered' \in Nat
  BY <1>1, <1>2 DEF Latest
<1>4. RowOf(Coming', 0, offered')
  BY DEF RowOf
<1>5. HeaderAt(Coming', 0, 0, Latest' + 1, offered')
  BY <1>3 DEF HeaderAt
<1>. QED BY <1>1, <1>3, <1>4, <1>5 DEF Content

LEMMA CancelRestartContent == Safe /\ Content /\ CancelRestart => Content'
<1> SUFFICES ASSUME Safe, Content, CancelRestart PROVE Content'
  OBVIOUS
<1>0. UNCHANGED <<feed, offered, taken, dropped>> /\ at = "cancel" /\ at' = "header"
  BY DEF CancelRestart, hostVars
<1>1. unused' = RingSize /\ first' = TRUE /\ ~MovedOn'
  BY CancelRestartSafe DEF CancelRestart, CancelReset, HugeBuf_Reset, fifo_reset, InitReceiveSize
<1>2. Len(feed) \in Nat
  BY ComingTyped
<1>3. fifo_cached' = 0 /\ Rest' = 0
  BY <1>1, Sizes DEF fifo_cached, Rest
<1>4. Held' = 0
  BY <1>1, <1>3 DEF Held
<1>5. Total' = Len(feed)
  BY <1>0, <1>2, <1>4 DEF Total
<1>6. Stream' = Coming
  <2>1. \A i \in 0 .. Len(feed) - 1 : ~(i < 0) /\ i - 0 + 1 = i + 1
    BY <1>2
  <2>. QED BY <1>0, <1>4, <1>5, <2>1 DEF Stream, Coming
<1>7. RowOf(Coming, Len(feed), offered) /\ HeaderAt(Coming, Len(feed), 0, Latest + 1, offered)
  BY <1>0 DEF Content
<1>8. Latest' = Latest
  BY <1>0 DEF Latest
<1>9. Read'
  BY <1>0, <1>5, <1>6, <1>7, <1>8 DEF Read
<1>10. Written'
  <2>1. 0 < Len(feed) => IsHeader(Coming[0])
    BY <1>2, <1>7 DEF HeaderAt
  <2>. QED BY <1>2, <1>3, <1>5, <1>6, <2>1 DEF Written
<1>. QED BY <1>0, <1>5, <1>6, <1>7, <1>9, <1>10 DEF Content

LEMMA ContentInit == Init => Content
<1> SUFFICES ASSUME Init PROVE Content
  OBVIOUS
<1>1. fifo_cached = 0 /\ ~MovedOn /\ Len(feed) = 0 /\ Rest = 0 /\ Latest = 0
  BY Sizes DEF Init, HugBuf_Init, fifo_cached, MovedOn, Rest, Latest
<1>2. Held = 0
  BY <1>1 DEF Held
<1>3. Total = 0
  BY <1>1, <1>2 DEF Total
<1>4. RowOf(Stream, Total, offered)
  BY <1>3 DEF RowOf
<1>5. Read /\ Written
  BY <1>1, <1>3 DEF Init, Read, Written, HeaderAt
<1>. QED BY <1>4, <1>5 DEF Init, Content

(* HugeBuf_FlushCurBand() is not used to skip a band that goes over the    *)
(* end of the ring.                                                        *)
SkipsByCount == ~SkipByAddress

LEMMA ContentNext == SkipsByCount /\ Safe /\ Content /\ [Next]_vars => Content'
<1> SUFFICES ASSUME SkipsByCount, Safe, Content, [Next]_vars PROVE Content'
  OBVIOUS
<1>1. CASE UNCHANGED vars
  <2>1. UNCHANGED <<hugeVars, feed, done, lost, at, offered, taken, dropped>>
    BY <1>1 DEF vars, transferVars
  <2>2. MovedOn' <=> MovedOn
    BY <2>1 DEF MovedOn, hugeVars, bulk
  <2>. QED BY <2>1, <2>2, ContentStill DEF hugeVars
<1>2. CASE HostSends
  BY <1>2, HostSendsContent
<1>3. CASE Controller
  BY <1>3, ControllerContent
<1>4. CASE ReceiverCompletes
  BY <1>4, ReceiverContent
<1>5. CASE ReceiverStarts
  BY <1>5, ReceiverStartsSafe, ContentStill DEF Ground
<1>6. CASE GetHeader
  BY <1>6, GetHeaderContent
<1>7. CASE Skip
  BY <1>7, SkipContent DEF SkipsByCount
<1>8. CASE Restart
  BY <1>8, RestartSafe, ContentStill
<1>9. CASE CancelAbort
  BY <1>9, CancelAbortContent
<1>10. CASE CancelRestart
  BY <1>10, CancelRestartContent
<1>11. ASSUME NEW t \in Tasks, TaskStarting(t) PROVE Content'
  BY <1>11, StartSteps, ContentStill DEF Ground
<1>. QED BY <1>1, <1>2, <1>3, <1>4, <1>5, <1>6, <1>7, <1>8, <1>9, <1>10, <1>11 DEF Next, Receiver, PrintTask

(* As long as no transfer is lost, the units in the ring and those to come *)
(* are one row of bands, which starts where the reader looks.              *)
THEOREM RowOfBands == SkipsByCount => (Spec => [](Safe /\ Content))
<1> SUFFICES ASSUME SkipsByCount PROVE Spec => [](Safe /\ Content)
  OBVIOUS
<1>1. Init => Safe /\ Content
  BY SafeInit, ContentInit
<1>2. Safe /\ Content /\ [Next]_vars => (Safe /\ Content)'
  BY SafeNext, ContentNext
<1>. QED BY <1>1, <1>2, PTL DEF Spec

(* The print task never finds something else where HugeBuf_GetInfHead()    *)
(* looks for a header, and a band it is told to be complete is complete    *)
(* (BandsInPlace), for all sizes of the ring, the bands and the transfers. *)
THEOREM BandsStayInPlace == SkipsByCount => (Spec => []BandsInPlace)
<1> SUFFICES ASSUME SkipsByCount PROVE Spec => []BandsInPlace
  OBVIOUS
<1>1. Safe /\ Content => BandsInPlace
  <2> SUFFICES ASSUME Safe, Content PROVE BandsInPlace
    OBVIOUS
  <2>1. out \in 0 .. RingSize - 1 /\ sizeof_band \in 0 .. RingSize - 1
    BY Sizes DEF Safe, Typed, Ends, Memory, Cells
  <2>2. HeadersFound
    <3> SUFFICES ASSUME at = "header", ~lost, fifo_cached >= 1 PROVE IsHeader(ring[out])
      BY DEF HeadersFound, WrongHeader
    <3>1. 0 < Held /\ 0 \in 0 .. Total - 1
      BY StreamTyped, Sizes
    <3>2. Stream[0] = ring[out]
      <4>1. Wrap(out + 0) = out
        BY <2>1, Sizes DEF Wrap
      <4>. QED BY <3>1, <4>1 DEF Stream
    <3>3. HeaderAt(Stream, Total, 0, Latest + 1, offered)
      BY DEF Content, Read
    <3>. QED BY <3>1, <3>2, <3>3 DEF HeaderAt
  <2>3. BandComplete
    <3> SUFFICES ASSUME at = "data", fifo_cached >= sizeof_band, ~lost, NEW i \in 1 .. sizeof_band
                 PROVE  ring[(out + i - 1) % RingSize] = [band |-> taken, pos |-> i, size |-> sizeof_band]
      BY DEF BandComplete
    <3>1. DataAt(Stream, Total, 0, taken, sizeof_band)
      BY DEF Content, Read
    <3> DEFINE k == i - 1
    <3>2. k \in 0 .. Total - 1 /\ k < Held /\ 0 + i - 1 = k
      BY <2>1, StreamTyped, Sizes
    <3>3. (out + i - 1) % RingSize = Wrap(out + k)
      <4>1. out + i - 1 = out + k /\ out + k \in 0 .. 2 * RingSize - 1
        BY <2>1, Sizes
      <4>2. (out + k) % RingSize = Wrap(out + k)
        <5> DEFINE x == out + k
        <5>1. x \in 0 .. 2 * RingSize - 1
          BY <4>1
        <5>. HIDE DEF x
        <5>2. x % RingSize = Wrap(x)
          BY <5>1, ModWrap
        <5>. QED BY <5>2 DEF x
      <4>. QED BY <4>1, <4>2
    <3>4. Stream[k] = ring[Wrap(out + k)]
      <4>. HIDE DEF k
      <4>. QED BY <3>2 DEF Stream
    <3>5. Stream[0 + i - 1] = [band |-> taken, pos |-> i, size |-> sizeof_band]
      BY <3>1 DEF DataAt
    <3>6. Stream[0 + i - 1] = Stream[k]
      <4>. HIDE DEF k
      <4>. QED BY <3>2
    <3>. QED BY <3>3, <3>4, <3>5, <3>6
  <2>. QED BY <2>2, <2>3 DEF BandsInPlace
<1>. QED BY <1>1, RowOfBands, PTL
-----------------------------------------------------------------------------
(* Steps that the promise of HugeBufAbs says nothing about.                *)
LEMMA QuietSteps ==
  ASSUME Safe, [Next]_vars, ~HostSends, ~Controller, ~GetHeader, ~CancelAbort, ~CancelRestart
  PROVE  UNCHANGED <<offered, taken, dropped, lost>>
<1>1. CASE UNCHANGED vars
  BY <1>1 DEF vars, transferVars
<1>2. CASE ReceiverCompletes
  BY <1>2, ReceiverCompletesSafe
<1>3. CASE ReceiverStarts
  BY <1>3, ReceiverStartsSafe DEF Ground
<1>4. CASE Skip
  BY <1>4, SkipSafe
<1>5. CASE Restart
  BY <1>5, RestartSafe
<1>6. ASSUME NEW t \in Tasks, TaskStarting(t) PROVE UNCHANGED <<offered, taken, dropped, lost>>
  BY <1>6, StartSteps DEF Ground
<1>. QED BY <1>1, <1>2, <1>3, <1>4, <1>5, <1>6 DEF Next, Receiver, PrintTask

LEMMA BandsStep == Safe /\ Content /\ [Next]_vars => [Bands!BandsNext]_(Bands!bandVars)
<1> SUFFICES ASSUME Safe, Content, [Next]_vars,
                    ~(UNCHANGED <<offered, taken, dropped, lost>>)
             PROVE  Bands!BandsNext
  BY DEF Bands!bandVars
<1>0. /\ offered \in Nat /\ taken \in 0 .. offered /\ dropped \in 0 .. offered
      /\ lost \in BOOLEAN
  BY DEF Safe, Typed, Memory, Machine
<1>1. CASE HostSends
  <2>1. offered' = offered + 1 /\ UNCHANGED <<taken, dropped, lost>>
    BY <1>1, HostSendsSafe
  <2>. QED BY <2>1 DEF Bands!BandsNext, Bands!Offer
<1>2. CASE Controller
  <2>1. UNCHANGED <<offered, taken, dropped>> /\ (lost' <=> lost \/ ~MovedOn')
    BY <1>2, ControllerSafe
  <2>2. lost' \in BOOLEAN
    BY <1>2, ControllerSafe DEF Safe, Typed, Machine
  <2>3. lost' = TRUE
    BY <1>0, <2>1, <2>2
  <2>. QED BY <2>1, <2>3 DEF Bands!BandsNext, Bands!Lose
<1>3. CASE GetHeader
  <2>1. /\ UNCHANGED <<offered, dropped, lost>> /\ taken' = ring[out].band
        /\ ring[out] \in Units /\ IsHeader(ring[out]) /\ ring[out].band <= offered
        /\ fifo_cached >= 1 /\ at = "header"
    BY <1>3, GetHeaderSafe
  <2>2. taken' \in 1 .. offered
    BY <1>0, <2>1 DEF Units, IsHeader
  <2>3. CASE lost
    BY <2>1, <2>2, <2>3 DEF Bands!BandsNext, Bands!Take
  <2>4. CASE ~lost
    <3>1. 0 < Held /\ 0 \in 0 .. Total - 1 /\ Total # 0
      BY <2>1, <2>4, StreamTyped, Sizes
    <3>2. Stream[0] = ring[out]
      <4>1. Wrap(out + 0) = out
        BY Sizes DEF Wrap, Safe, Typed, Ends, Cells
      <4>. QED BY <3>1, <4>1 DEF Stream
    <3>3. HeaderAt(Stream, Total, 0, Latest + 1, offered)
      BY <2>1, <2>4 DEF Content, Read
    <3>4. taken' = Latest + 1
      BY <2>1, <3>1, <3>2, <3>3 DEF HeaderAt
    <3>5. Latest < offered
      BY <1>0, <2>2, <3>4 DEF Latest
    <3>. QED BY <2>1, <3>4, <3>5 DEF Bands!BandsNext, Bands!Take, Latest, Bands!Latest
  <2>. QED BY <2>3, <2>4
<1>4. CASE CancelAbort
  BY <1>4 DEF CancelAbort, transferVars, Bands!BandsNext, Bands!Cancel
<1>5. CASE CancelRestart
  BY <1>5 DEF CancelRestart, hostVars, Bands!BandsNext, Bands!Recover
<1>. QED BY <1>1, <1>2, <1>3, <1>4, <1>5, QuietSteps

(* The print task reads the bands in the order they were sent, none twice, *)
(* and leaves out none but those of a cancelled job (ImplementsBands): the *)
(* ring, its two tasks and the controller implement HugeBufAbs.            *)
THEOREM BandsImplemented == SkipsByCount => (Spec => ImplementsBands)
<1> SUFFICES ASSUME SkipsByCount PROVE Spec => ImplementsBands
  OBVIOUS
<1>1. Init => Bands!BandsInit
  BY DEF Init, Bands!BandsInit
<1>2. Safe /\ Content /\ [Next]_vars => [Bands!BandsNext]_(Bands!bandVars)
  BY BandsStep
<1>. QED BY <1>1, <1>2, RowOfBands, PTL DEF Spec, ImplementsBands, Bands!BandsSpec

-----------------------------------------------------------------------------
(***************************************************************************)
(* The allocator, for any arena, page, table of bins and requests.  Every  *)
(* function keeps the heap in order and says what it does to the set of    *)
(* the chunks in use: one is gained, lost or exchanged for another.        *)
(***************************************************************************)

(* Chunks by address.                                                      *)
Chunk == [size : Nat, prev_inuse : BOOLEAN, prev_size : Nat]
ChunkMaps == UNION {[D -> Chunk] : D \in SUBSET Nat}

After(c, p) == p + c[p].size
FreeIn(c, t) == {p \in DOMAIN c : p # t /\ ~c[After(c, p)].prev_inuse}
UsedIn(c, t) == {p \in DOMAIN c : p # t /\ c[After(c, p)].prev_inuse}
Apart(c, p, q) == q <= p \/ q >= After(c, p)

(* What the header of p says of the chunk before it.                       *)
BeforeKnown(c, p) ==
  ~c[p].prev_inuse => p - c[p].prev_size \in DOMAIN c /\ After(c, p - c[p].prev_size) = p

Placed(c, t, p) ==
  /\ p > 0 /\ p % 2 = 0 /\ c[p].size >= MINSIZE /\ p <= t
  /\ p # t => After(c, p) \in DOMAIN c
  /\ \A q \in DOMAIN c : Apart(c, p, q)
  /\ BeforeKnown(c, p)
  /\ p \in FreeIn(c, t) \cup {t} => c[p].prev_inuse

(* The chunks in c tile the memory from the first of them to the break.    *)
Tiles(c, t, brk) ==
  /\ t = null => DOMAIN c = {}
  /\ t # null => t \in DOMAIN c /\ After(c, t) = brk
  /\ \A p \in DOMAIN c : Placed(c, t, p)

LEMMA ChunkTyped ==
  ASSUME NEW c \in ChunkMaps
  PROVE  /\ DOMAIN c \subseteq Nat
         /\ \A p \in DOMAIN c : /\ c[p] \in Chunk /\ c[p].size \in Nat
                                /\ c[p].prev_inuse \in BOOLEAN /\ c[p].prev_size \in Nat
                                /\ After(c, p) \in Nat
<1>1. PICK D \in SUBSET Nat : c \in [D -> Chunk]
  BY DEF ChunkMaps
<1>2. \A p \in D : c[p] \in Chunk /\ c[p].size \in Nat /\ c[p].prev_inuse \in BOOLEAN /\ c[p].prev_size \in Nat
  BY <1>1 DEF Chunk
<1>. QED BY <1>1, <1>2 DEF After

(* The chunks of the set N take the place of those between lo and hi.      *)
Replaced(c, c2, lo, hi, N) ==
  /\ DOMAIN c2 = {q \in DOMAIN c : q < lo \/ q >= hi} \cup N
  /\ \A q \in DOMAIN c : q < lo \/ q > hi => c2[q] = c[q]
  /\ lo \in N /\ N \subseteq lo .. hi - 1
  /\ c2[lo].prev_inuse = c[lo].prev_inuse
  /\ ~c[lo].prev_inuse => c2[lo].prev_size = c[lo].prev_size
  /\ \A p \in N : /\ p % 2 = 0 /\ c2[p].size >= MINSIZE
                  /\ \A q \in N : Apart(c2, p, q)

LEMMA ReplaceMiddle ==
  ASSUME NEW c \in ChunkMaps, NEW t \in Nat, NEW brk \in Nat, Tiles(c, t, brk),
         NEW c2 \in ChunkMaps, NEW lo \in DOMAIN c, NEW hi \in DOMAIN c, lo < hi,
         NEW N, Replaced(c, c2, lo, hi, N),
         c2[hi].size = c[hi].size,
         \A p \in N : After(c2, p) \in N \cup {hi},
         \A p \in N \cup {hi} :
           /\ p # lo => BeforeKnown(c2, p)
           /\ p \in FreeIn(c2, t) \cup {t} => c2[p].prev_inuse
  PROVE  /\ Tiles(c2, t, brk)
         /\ FreeIn(c2, t) = {p \in FreeIn(c, t) : p < lo \/ p >= hi}
                              \cup {p \in N : ~c2[After(c2, p)].prev_inuse}
         /\ UsedIn(c2, t) = {p \in UsedIn(c, t) : p < lo \/ p >= hi}
                              \cup {p \in N : c2[After(c2, p)].prev_inuse}
         /\ \A p \in DOMAIN c : p < lo \/ p >= hi => c2[p].size = c[p].size
<1> USE DEF After, Apart
<1>0. /\ DOMAIN c \subseteq Nat /\ DOMAIN c2 \subseteq Nat
      /\ \A p \in DOMAIN c : c[p].size \in Nat /\ c[p].prev_size \in Nat /\ c[p].prev_inuse \in BOOLEAN
      /\ \A p \in DOMAIN c2 : c2[p].size \in Nat /\ c2[p].prev_size \in Nat /\ c2[p].prev_inuse \in BOOLEAN
  BY ChunkTyped
<1>1. t \in DOMAIN c /\ t + c[t].size = brk /\ hi <= t /\ t # null
  BY <1>0 DEF Tiles, Placed, null
<1>2. DOMAIN c2 = {q \in DOMAIN c : q < lo \/ q >= hi} \cup N /\ N \subseteq lo .. hi - 1 /\ lo \in N
  BY DEF Replaced
<1> DEFINE Out == {q \in DOMAIN c : q < lo \/ q >= hi}
<1>3. \A q \in Out : q \in DOMAIN c2 /\ c2[q].size = c[q].size
  <2> SUFFICES ASSUME NEW q \in Out PROVE q \in DOMAIN c2 /\ c2[q].size = c[q].size
    OBVIOUS
  <2>1. CASE q = hi
    BY <1>2, <2>1
  <2>2. CASE q # hi
    <3>1. q < lo \/ q > hi
      BY <1>0, <2>2
    <3>. QED BY <1>2, <3>1 DEF Replaced
  <2>. QED BY <2>1, <2>2
<1>4. ASSUME NEW q \in Out, q # hi PROVE c2[q] = c[q]
  <2>1. q \in DOMAIN c /\ (q < lo \/ q > hi)
    BY <1>0, <1>4
  <2>. QED BY <2>1 DEF Replaced
<1>5. \A q \in Out : q # t => /\ q + c[q].size \in Out \cup {lo}
                              /\ q + c[q].size # hi
  <2> SUFFICES ASSUME NEW q \in Out, q # t
               PROVE  q + c[q].size \in Out \cup {lo} /\ q + c[q].size # hi
    OBVIOUS
  <2>1. Placed(c, t, q) /\ Placed(c, t, lo)
    BY DEF Tiles
  <2>2. q + c[q].size \in DOMAIN c /\ c[q].size >= 4
    BY <2>1 DEF Placed, MINSIZE
  <2>3. CASE q < lo
    <3>1. lo >= q + c[q].size
      BY <1>0, <2>1, <2>3 DEF Placed
    <3>. QED BY <1>0, <2>2, <3>1
  <2>4. CASE q >= hi
    BY <1>0, <2>2, <2>4
  <2>. QED BY <2>3, <2>4
<1>6. \A q \in Out : q # t => c2[q + c[q].size].prev_inuse = c[q + c[q].size].prev_inuse
  BY <1>4, <1>5 DEF Replaced
<1>7. \A q \in Out : q # t => (q \in FreeIn(c2, t) <=> q \in FreeIn(c, t))
  BY <1>2, <1>3, <1>6 DEF FreeIn
<1>8. \A q \in Out : q # t => (q \in UsedIn(c2, t) <=> q \in UsedIn(c, t))
  BY <1>2, <1>3, <1>6 DEF UsedIn
<1>9. t \notin N /\ t \in Out
  BY <1>0, <1>1, <1>2
<1>10. FreeIn(c2, t) = {p \in FreeIn(c, t) : p < lo \/ p >= hi}
                         \cup {p \in N : ~c2[p + c2[p].size].prev_inuse}
  BY <1>2, <1>7, <1>9 DEF FreeIn
<1>11. UsedIn(c2, t) = {p \in UsedIn(c, t) : p < lo \/ p >= hi}
                         \cup {p \in N : c2[p + c2[p].size].prev_inuse}
  BY <1>2, <1>8, <1>9 DEF UsedIn
<1>12. ASSUME NEW p \in Out PROVE Placed(c2, t, p)
  <2>1. Placed(c, t, p)
    BY DEF Tiles
  <2>2. p > 0 /\ p % 2 = 0 /\ c2[p].size >= MINSIZE /\ p <= t
    BY <1>3, <2>1 DEF Placed
  <2>3. p # t => After(c2, p) \in DOMAIN c2
    BY <1>2, <1>3, <1>5
  <2>4. ASSUME NEW q \in DOMAIN c2 PROVE Apart(c2, p, q)
    <3>1. CASE q \in Out
      BY <1>3, <2>1, <3>1 DEF Placed
    <3>2. CASE q \in N
      <4>1. lo <= q /\ q < hi
        BY <1>0, <1>2, <3>2
      <4>2. lo <= p \/ lo >= p + c[p].size
        BY <2>1 DEF Placed
      <4>. QED BY <1>0, <1>3, <4>1, <4>2
    <3>. QED BY <1>2, <3>1, <3>2
  <2>5. BeforeKnown(c2, p)
    <3>1. CASE p = hi
      BY <1>0, <3>1
    <3>2. CASE p # hi /\ ~c[p].prev_inuse
      <4> DEFINE r == p - c[p].prev_size
      <4>1. r \in DOMAIN c /\ r + c[r].size = p /\ Placed(c, t, r)
        BY <2>1, <3>2 DEF Placed, BeforeKnown, Tiles
      <4> HIDE DEF r
      <4>2. c[r].size >= 4 /\ (hi <= r \/ hi >= p)
        BY <4>1 DEF Placed, MINSIZE
      <4>3. r \in Out
        BY <1>0, <3>2, <4>1, <4>2
      <4>4. r \in DOMAIN c2 /\ r + c2[r].size = p
        BY <1>3, <4>1, <4>3
      <4>. QED BY <1>4, <3>2, <4>4 DEF BeforeKnown, r
    <3>3. CASE p # hi /\ c[p].prev_inuse
      BY <1>4, <3>3 DEF BeforeKnown
    <3>. QED BY <3>1, <3>2, <3>3
  <2>6. p \in FreeIn(c2, t) \cup {t} => c2[p].prev_inuse
    <3>1. CASE p = hi
      BY <3>1
    <3>2. CASE p # hi
      BY <1>4, <1>7, <2>1, <3>2 DEF Placed
    <3>. QED BY <3>1, <3>2
  <2>. QED BY <2>2, <2>3, <2>4, <2>5, <2>6 DEF Placed
<1>13. ASSUME NEW p \in N PROVE Placed(c2, t, p)
  <2>1. lo <= p /\ p < hi /\ p \in Nat /\ p \in DOMAIN c2
    BY <1>0, <1>2
  <2>2. Placed(c, t, lo)
    BY DEF Tiles
  <2>3. p > 0 /\ p % 2 = 0 /\ c2[p].size >= MINSIZE /\ p <= t
    BY <1>0, <1>1, <2>1, <2>2 DEF Placed, Replaced
  <2>4. p + c2[p].size \in N \cup {hi} /\ p + c2[p].size <= hi
    BY <1>0, <1>2
  <2>5. ASSUME NEW q \in DOMAIN c2 PROVE Apart(c2, p, q)
    <3>1. CASE q \in Out
      BY <1>0, <2>1, <2>4, <3>1
    <3>2. CASE q \in N
      BY <3>2 DEF Replaced
    <3>. QED BY <1>2, <3>1, <3>2
  <2>6. BeforeKnown(c2, p)
    <3>1. CASE p # lo
      BY <3>1
    <3>2. CASE p = lo /\ ~c[lo].prev_inuse
      <4> DEFINE r == lo - c[lo].prev_size
      <4>1. r \in DOMAIN c /\ r + c[r].size = lo /\ Placed(c, t, r)
        BY <2>2, <3>2 DEF Placed, BeforeKnown, Tiles
      <4> HIDE DEF r
      <4>2. r \in Out
        BY <1>0, <4>1 DEF Placed, MINSIZE
      <4>3. r \in DOMAIN c2 /\ r + c2[r].size = lo
        BY <1>3, <4>1, <4>2
      <4>. QED BY <3>2, <4>3 DEF BeforeKnown, Replaced, r
    <3>3. CASE p = lo /\ c[lo].prev_inuse
      BY <3>3 DEF BeforeKnown, Replaced
    <3>. QED BY <1>0, <3>1, <3>2, <3>3
  <2>. QED BY <1>2, <2>1, <2>3, <2>4, <2>5, <2>6 DEF Placed
<1>14. Tiles(c2, t, brk)
  BY <1>1, <1>2, <1>3, <1>9, <1>12, <1>13 DEF Tiles
<1>. QED BY <1>3, <1>10, <1>11, <1>14
(* The chunks of the set N follow each other from lo to t2, which ends at  *)
(* the break.                                                              *)
EndsIn(c2, lo, N, t2, brk2) ==
  /\ t2 \in N /\ After(c2, t2) = brk2
  /\ \A p \in N :
       /\ p <= t2
       /\ p # t2 => After(c2, p) \in N
       /\ p # lo => BeforeKnown(c2, p)
       /\ p \in FreeIn(c2, t2) \cup {t2} => c2[p].prev_inuse

(* The chunks of the set N take the place of all from lo on.               *)
EndReplaced(c, t, c2, t2, brk2, lo, N) ==
  /\ Tiles(c2, t2, brk2)
  /\ FreeIn(c2, t2) = {p \in FreeIn(c, t) : p < lo}
                        \cup {p \in N : p # t2 /\ ~c2[After(c2, p)].prev_inuse}
  /\ UsedIn(c2, t2) = {p \in UsedIn(c, t) : p < lo}
                        \cup {p \in N : p # t2 /\ c2[After(c2, p)].prev_inuse}
  /\ \A p \in DOMAIN c : p < lo => c2[p].size = c[p].size

LEMMA ReplaceTop ==
  ASSUME NEW c \in ChunkMaps, NEW t \in Nat, NEW brk \in Nat, Tiles(c, t, brk),
         NEW c2 \in ChunkMaps, NEW t2 \in Nat, NEW brk2 \in Nat,
         NEW lo \in DOMAIN c, NEW hi \in Nat, \A q \in DOMAIN c : q < hi,
         NEW N, Replaced(c, c2, lo, hi, N),
         EndsIn(c2, lo, N, t2, brk2)
  PROVE  EndReplaced(c, t, c2, t2, brk2, lo, N)
<1> USE DEF After, Apart, EndsIn
<1>0. /\ DOMAIN c \subseteq Nat /\ DOMAIN c2 \subseteq Nat
      /\ \A p \in DOMAIN c : c[p].size \in Nat /\ c[p].prev_size \in Nat /\ c[p].prev_inuse \in BOOLEAN
      /\ \A p \in DOMAIN c2 : c2[p].size \in Nat /\ c2[p].prev_size \in Nat /\ c2[p].prev_inuse \in BOOLEAN
  BY ChunkTyped
<1>1. t \in DOMAIN c /\ lo <= t /\ t # null
  BY <1>0 DEF Tiles, Placed, null
<1>2. DOMAIN c2 = {q \in DOMAIN c : q < lo} \cup N /\ N \subseteq lo .. hi - 1 /\ lo \in N
  BY <1>0 DEF Replaced
<1> DEFINE Out == {q \in DOMAIN c : q < lo}
<1>3. \A q \in Out : q \in DOMAIN c2 /\ c2[q] = c[q] /\ q # t /\ q # t2
  BY <1>0, <1>1, <1>2 DEF Replaced
<1>5. \A q \in Out : q + c[q].size \in Out \cup {lo} /\ q + c[q].size <= lo
  <2> SUFFICES ASSUME NEW q \in Out
               PROVE  q + c[q].size \in Out \cup {lo} /\ q + c[q].size <= lo
    OBVIOUS
  <2>1. Placed(c, t, q)
    BY DEF Tiles
  <2>2. q + c[q].size \in DOMAIN c /\ c[q].size >= 4
    BY <1>3, <2>1 DEF Placed, MINSIZE
  <2>3. lo >= q + c[q].size
    BY <1>0, <2>1 DEF Placed
  <2>. QED BY <1>0, <2>2, <2>3
<1>6. \A q \in Out : c2[q + c[q].size].prev_inuse = c[q + c[q].size].prev_inuse
  BY <1>3, <1>5 DEF Replaced
<1>7. \A q \in Out : q \in FreeIn(c2, t2) <=> q \in FreeIn(c, t)
  BY <1>2, <1>3, <1>6 DEF FreeIn
<1>8. \A q \in Out : q \in UsedIn(c2, t2) <=> q \in UsedIn(c, t)
  BY <1>2, <1>3, <1>6 DEF UsedIn
<1>10. FreeIn(c2, t2) = {p \in FreeIn(c, t) : p < lo}
                         \cup {p \in N : p # t2 /\ ~c2[p + c2[p].size].prev_inuse}
  BY <1>2, <1>7 DEF FreeIn
<1>11. UsedIn(c2, t2) = {p \in UsedIn(c, t) : p < lo}
                         \cup {p \in N : p # t2 /\ c2[p + c2[p].size].prev_inuse}
  BY <1>2, <1>8 DEF UsedIn
<1>12. ASSUME NEW p \in Out PROVE Placed(c2, t2, p)
  <2>1. Placed(c, t, p)
    BY DEF Tiles
  <2>2. p > 0 /\ p % 2 = 0 /\ c2[p].size >= MINSIZE /\ p <= t2
    BY <1>0, <1>2, <1>3, <2>1 DEF Placed
  <2>3. After(c2, p) \in DOMAIN c2
    BY <1>2, <1>3, <1>5
  <2>4. ASSUME NEW q \in DOMAIN c2 PROVE Apart(c2, p, q)
    <3>1. CASE q \in Out
      BY <1>3, <2>1, <3>1 DEF Placed
    <3>2. CASE q \in N
      <4>1. lo <= q
        BY <1>0, <1>2, <3>2
      <4>. QED BY <1>0, <1>3, <1>5, <4>1
    <3>. QED BY <1>2, <3>1, <3>2
  <2>5. BeforeKnown(c2, p)
    <3>2. CASE ~c[p].prev_inuse
      <4> DEFINE r == p - c[p].prev_size
      <4>1. r \in DOMAIN c /\ r + c[r].size = p /\ Placed(c, t, r)
        BY <2>1, <3>2 DEF Placed, BeforeKnown, Tiles
      <4> HIDE DEF r
      <4>2. r \in Out
        BY <1>0, <4>1 DEF Placed, MINSIZE
      <4>4. r \in DOMAIN c2 /\ r + c2[r].size = p
        BY <1>3, <4>1, <4>2
      <4>. QED BY <1>3, <3>2, <4>4 DEF BeforeKnown, r
    <3>3. CASE c[p].prev_inuse
      BY <1>3, <3>3 DEF BeforeKnown
    <3>. QED BY <3>2, <3>3
  <2>6. p \in FreeIn(c2, t2) \cup {t2} => c2[p].prev_inuse
    BY <1>3, <1>7, <2>1 DEF Placed
  <2>. QED BY <2>2, <2>3, <2>4, <2>5, <2>6 DEF Placed
<1>13. ASSUME NEW p \in N PROVE Placed(c2, t2, p)
  <2>1. lo <= p /\ p < hi /\ p \in Nat /\ p \in DOMAIN c2
    BY <1>0, <1>2
  <2>2. Placed(c, t, lo)
    BY DEF Tiles
  <2>3. p > 0 /\ p % 2 = 0 /\ c2[p].size >= MINSIZE /\ p <= t2
    BY <1>0, <2>1, <2>2 DEF Placed, Replaced
  <2>4. p # t2 => p + c2[p].size \in N
    OBVIOUS
  <2>5. ASSUME NEW q \in DOMAIN c2 PROVE Apart(c2, p, q)
    <3>1. CASE q \in Out
      BY <1>0, <2>1, <3>1
    <3>2. CASE q \in N
      BY <3>2 DEF Replaced
    <3>. QED BY <1>2, <3>1, <3>2
  <2>6. BeforeKnown(c2, p)
    <3>1. CASE p # lo
      BY <3>1
    <3>2. CASE p = lo /\ ~c[lo].prev_inuse
      <4> DEFINE r == lo - c[lo].prev_size
      <4>1. r \in DOMAIN c /\ r + c[r].size = lo /\ Placed(c, t, r)
        BY <2>2, <3>2 DEF Placed, BeforeKnown, Tiles
      <4> HIDE DEF r
      <4>2. r \in Out
        BY <1>0, <4>1 DEF Placed, MINSIZE
      <4>3. r \in DOMAIN c2 /\ r + c2[r].size = lo
        BY <1>3, <4>1, <4>2
      <4>. QED BY <3>2, <4>3 DEF BeforeKnown, Replaced, r
    <3>3. CASE p = lo /\ c[lo].prev_inuse
      BY <3>3 DEF BeforeKnown, Replaced
    <3>. QED BY <1>0, <3>1, <3>2, <3>3
  <2>. QED BY <1>2, <2>1, <2>3, <2>4, <2>5, <2>6 DEF Placed
<1>14. Tiles(c2, t2, brk2)
  <2>1. t2 # null /\ t2 \in DOMAIN c2
    BY <1>2, <1>13 DEF Placed, null
  <2>. QED BY <1>2, <1>12, <1>13, <2>1 DEF Tiles
<1>. QED BY <1>3, <1>10, <1>11, <1>14 DEF EndReplaced
-----------------------------------------------------------------------------
LEMMA LeastOf ==
  ASSUME NEW S \in SUBSET Nat, S # {}
  PROVE  Min(S) \in S /\ \A y \in S : Min(S) <= y
<1>1. PICK x \in S : \A y \in S : ~(<<y, x>> \in OpToRel(<, Nat))
  BY NatLessThanWellFounded, WFMin
<1>2. ASSUME NEW y \in S PROVE x <= y
  <2>1. ~(y < x)
    BY <1>1 DEF OpToRel
  <2>. QED BY <2>1
<1>. QED BY <1>2 DEF Min

LEMMA GreatestOf ==
  ASSUME NEW n \in Nat, NEW S \in SUBSET (0 .. n), S # {}
  PROVE  Max(S) \in S /\ \A y \in S : y <= Max(S)
<1> DEFINE T == {n - k : k \in S}
<1>1. T \in SUBSET Nat /\ T # {}
  <2>1. \A k \in S : n - k \in Nat
    OBVIOUS
  <2>2. PICK k \in S : TRUE
    OBVIOUS
  <2>3. n - k \in T
    OBVIOUS
  <2>. QED BY <2>1, <2>3
<1> HIDE DEF T
<1>2. PICK x \in T : \A y \in T : x <= y
  BY <1>1, LeastOf
<1>3. PICK k \in S : x = n - k
  BY <1>2 DEF T
<1>4. n - x = k
  BY <1>3
<1>5. ASSUME NEW y \in S PROVE n - x >= y
  <2>1. n - y \in T
    BY DEF T
  <2>2. x <= n - y
    BY <1>2, <2>1
  <2>. QED BY <1>3, <2>2
<1>. QED BY <1>4, <1>5 DEF Max

LEMMA MaxTwo ==
  ASSUME NEW a \in Int, NEW b \in Int
  PROVE  Max({a, b}) = IF a >= b THEN a ELSE b
<1>1. CASE a >= b
  BY <1>1 DEF Max
<1>2. CASE b > a
  BY <1>2 DEF Max
<1>. QED BY <1>1, <1>2

(* Division, for any unit.                                                 *)
LEMMA Multiples ==
  ASSUME NEW a \in Nat, NEW n \in Nat \ {0}
  PROVE  /\ a \div n \in Nat
         /\ (a \div n) * n \in Nat /\ (a \div n) * n <= a /\ a < (a \div n) * n + n
<1>1. a = (a \div n) * n + (a % n) /\ (a % n) \in 0 .. n - 1 /\ a \div n \in Int
  BY SMT
<1>2. a \div n \in Nat
  BY SMT
<1> DEFINE m == (a \div n) * n
<1>3. m \in Int
  BY <1>1
<1> HIDE DEF m
<1>4. a = m + (a % n)
  BY <1>1 DEF m
<1>5. m <= a /\ a < m + n
  BY <1>1, <1>3, <1>4
<1>6. \A x \in Nat : x * n \in Nat
  BY SMT
<1>7. m \in Nat
  BY <1>2, <1>6 DEF m
<1>. QED BY <1>2, <1>5, <1>7 DEF m

LEMMA RoundedUp ==
  ASSUME NEW x \in Nat, NEW u \in Nat \ {0}
  PROVE  RoundUp(x, u) \in Nat /\ x <= RoundUp(x, u) /\ RoundUp(x, u) < x + u
<1>1. x + u - 1 \in Nat
  OBVIOUS
<1> DEFINE m == ((x + u - 1) \div u) * u
<1>2. m \in Nat /\ m <= x + u - 1 /\ x + u - 1 < m + u
  BY <1>1, Multiples
<1> HIDE DEF m
<1>3. m \in Nat /\ x <= m /\ m < x + u
  BY <1>2
<1>. QED BY <1>3 DEF RoundUp, m

(* Division by the same unit keeps the order.                              *)
LEMMA DivideUp ==
  ASSUME NEW a \in Nat, NEW b \in Nat, a <= b, NEW n \in Nat \ {0}
  PROVE  a \div n <= b \div n
<1> DEFINE x == a \div n  y == b \div n
<1>1. x \in Nat /\ y \in Nat /\ x * n <= a /\ b < y * n + n /\ x * n \in Nat /\ y * n \in Nat
  BY Multiples
<1> HIDE DEF x, y
<1>2. ASSUME y + 1 <= x PROVE FALSE
  <2>1. (x - (y + 1)) * n \in Nat
    <3>1. x - (y + 1) \in Nat
      BY <1>1, <1>2
    <3>2. \A z \in Nat : z * n \in Nat
      BY SMT
    <3>. QED BY <3>1, <3>2
  <2>2. (x - (y + 1)) * n = x * n - y * n - n
    BY <1>1, SMT
  <2>. QED BY <1>1, <2>1, <2>2
<1>3. x <= y
  BY <1>1, <1>2
<1>. QED BY <1>3 DEF x, y

(* The size of a chunk for a request: even, and longer than the request.   *)
LEMMA RequestSize ==
  ASSUME NEW n \in Nat
  PROVE  LET nb == request2size(n)
         IN nb \in Nat /\ nb % 2 = 0 /\ nb >= MINSIZE /\ nb >= n + 1
<1> DEFINE e == ((n + 2) \div 2) * 2
<1>1. e \in Nat /\ e % 2 = 0 /\ e >= n + 1
  OBVIOUS
<1>2. request2size(n) = IF 4 >= e THEN 4 ELSE e
  BY <1>1, MaxTwo DEF request2size, MINSIZE
<1> HIDE DEF e
<1>. QED BY <1>1, <1>2 DEF MINSIZE
-----------------------------------------------------------------------------
(* The tables of bins.                                                     *)
Row_(r) == BinRanges[r]
Last_(r) == Row_(r).base + (Row_(r).below - 1) \div Row_(r).width
First_(r) == Row_(r).base + RowStart(r) \div Row_(r).width

LEMMA TableRow ==
  ASSUME NEW r \in DOMAIN BinRanges
  PROVE  /\ r \in 1 .. Len(BinRanges) /\ Len(BinRanges) \in Nat
         /\ BinRanges[r].base \in Nat /\ BinRanges[r].below \in Nat
         /\ BinRanges[r].width \in Nat \ {0}
<1>1. /\ BinRanges \in Seq([below : Nat, base : Nat, width : Nat \ {0}])
      /\ DOMAIN BinRanges = 1 .. Len(BinRanges) /\ Len(BinRanges) \in Nat
  BY BinsAssumption, LenProperties
<1>2. BinRanges[r] \in [below : Nat, base : Nat, width : Nat \ {0}]
  BY <1>1, ElementOfSeq
<1>. QED BY <1>1, <1>2

LEMMA RowOfTable ==
  ASSUME NEW sz \in Nat, sz >= MaxSmallBinSize
  PROVE  LET rows == {r \in DOMAIN BinRanges : sz < BinRanges[r].below}
         IN /\ rows = {} => bin_index(sz) = NAV - 2
            /\ rows # {} => LET r == Min(rows)
                            IN /\ r \in rows /\ \A s \in rows : r <= s
                               /\ bin_index(sz) = Row_(r).base + sz \div Row_(r).width
                               /\ First_(r) <= bin_index(sz) /\ bin_index(sz) <= Last_(r)
<1> DEFINE rows == {r \in DOMAIN BinRanges : sz < BinRanges[r].below}
           row == BinRanges[Min(rows)]
<1>0. bin_index(sz) = IF rows = {} THEN NAV - 2 ELSE row.base + sz \div row.width
  BY DEF bin_index
<1>1. CASE rows = {}
  BY <1>0, <1>1
<1>2. CASE rows # {}
  <2>1. /\ BinRanges \in Seq([below : Nat, base : Nat, width : Nat \ {0}])
        /\ DOMAIN BinRanges = 1 .. Len(BinRanges) /\ Len(BinRanges) \in Nat
        /\ MaxSmallBinSize \in Nat
    BY BinsAssumption, MallocAssumption, LenProperties
  <2>2. rows \in SUBSET Nat
    BY <2>1
  <2> DEFINE r == Min(rows)
  <2>3. r \in rows /\ \A s \in rows : r <= s
    BY <1>2, <2>2, LeastOf
  <2> HIDE DEF r, rows
  <2>4. r \in 1 .. Len(BinRanges) /\ sz < BinRanges[r].below
    BY <2>1, <2>3 DEF rows
  <2>5. Row_(r).base \in Nat /\ Row_(r).below \in Nat /\ Row_(r).width \in Nat \ {0}
    BY <2>1, <2>4, TableRow DEF Row_
  <2>6. RowStart(r) <= sz /\ RowStart(r) \in Nat
    <3>1. CASE r = 1
      BY <2>1, <3>1 DEF RowStart
    <3>2. CASE r # 1
      <4>1. r - 1 \in 1 .. Len(BinRanges) /\ r - 1 < r
        BY <2>1, <2>4, <3>2
      <4>2. r - 1 \notin rows
        BY <2>1, <2>3, <2>4, <4>1
      <4>3. BinRanges[r - 1] \in [below : Nat, base : Nat, width : Nat \ {0}]
        BY <2>1, <4>1, ElementOfSeq
      <4>4. BinRanges[r - 1].below \in Nat /\ BinRanges[r - 1].below <= sz
        BY <2>1, <4>1, <4>2, <4>3 DEF rows
      <4>. QED BY <3>2, <4>4 DEF RowStart
    <3>. QED BY <3>1, <3>2
  <2>7. /\ RowStart(r) \div Row_(r).width <= sz \div Row_(r).width
        /\ sz \div Row_(r).width <= (Row_(r).below - 1) \div Row_(r).width
    <3>1. sz <= Row_(r).below - 1 /\ Row_(r).below - 1 \in Nat
      BY <2>4, <2>5 DEF Row_
    <3>. QED BY <2>5, <2>6, <3>1, DivideUp
  <2>8. bin_index(sz) = Row_(r).base + sz \div Row_(r).width
    BY <1>0, <1>2 DEF r, Row_
  <2>9. /\ RowStart(r) \div Row_(r).width \in Nat /\ sz \div Row_(r).width \in Nat
        /\ (Row_(r).below - 1) \div Row_(r).width \in Nat
    <3>1. Row_(r).below - 1 \in Nat
      BY <2>4, <2>5 DEF Row_
    <3>. QED BY <2>5, <2>6, <3>1, Multiples
  <2>10. First_(r) <= bin_index(sz) /\ bin_index(sz) <= Last_(r)
    BY <2>5, <2>7, <2>8, <2>9 DEF First_, Last_
  <2>. QED BY <1>2, <2>3, <2>8, <2>10 DEF r, rows
<1>. QED BY <1>1, <1>2

LEMMA Tables ==
  /\ MaxSmallBinSize \in Nat /\ NAV \in Nat /\ BinBlockWidth \in Nat \ {0}
  /\ MaxSmallBinSize % 2 = 0 /\ MaxSmallBinSize \div 2 \in 2 .. NAV - 2
  /\ \A r \in DOMAIN BinRanges :
       /\ r \in Nat /\ First_(r) \in Int /\ Last_(r) \in Int
       /\ MaxSmallBinSize \div 2 <= First_(r) /\ Last_(r) <= NAV - 2
       /\ \A s \in DOMAIN BinRanges : r < s => Last_(r) <= First_(s)
<1>1. /\ BinRanges \in Seq([below : Nat, base : Nat, width : Nat \ {0}])
      /\ DOMAIN BinRanges = 1 .. Len(BinRanges) /\ Len(BinRanges) \in Nat
      /\ MaxSmallBinSize \in Nat /\ NAV \in Nat /\ BinBlockWidth \in Nat \ {0}
      /\ MaxSmallBinSize % 2 = 0 /\ MaxSmallBinSize \div 2 \in 2 .. NAV - 2
  BY BinsAssumption, MallocAssumption, LenProperties
<1>2. ASSUME NEW r \in DOMAIN BinRanges
      PROVE  /\ BinRanges[r].base \in Nat /\ BinRanges[r].below \in Nat
             /\ BinRanges[r].width \in Nat \ {0} /\ RowStart(r) \in Nat /\ RowStart(r) < BinRanges[r].below
  <2>1. BinRanges[r] \in [below : Nat, base : Nat, width : Nat \ {0}]
    BY <1>1, ElementOfSeq
  <2>2. r # 1 => BinRanges[r - 1] \in [below : Nat, base : Nat, width : Nat \ {0}]
    <3>1. r # 1 => r - 1 \in 1 .. Len(BinRanges)
      BY <1>1
    <3>. QED BY <1>1, <3>1, ElementOfSeq
  <2>3. RowStart(r) \in Nat
    BY <1>1, <2>2 DEF RowStart
  <2>4. RowStart(r) < BinRanges[r].below
    BY BinsAssumption
  <2>. QED BY <2>1, <2>3, <2>4
<1>3. ASSUME NEW r \in DOMAIN BinRanges
      PROVE  First_(r) \in Int /\ Last_(r) \in Int
  <2>1. BinRanges[r].below - 1 \in Nat
    BY <1>2
  <2>2. /\ (BinRanges[r].below - 1) \div BinRanges[r].width \in Nat
        /\ RowStart(r) \div BinRanges[r].width \in Nat
    BY <1>2, <2>1, Multiples
  <2>. QED BY <1>2, <2>2 DEF First_, Last_, Row_
<1>4. ASSUME NEW r \in DOMAIN BinRanges
      PROVE  /\ MaxSmallBinSize \div 2 <= First_(r) /\ Last_(r) <= NAV - 2
             /\ \A s \in DOMAIN BinRanges : r < s => Last_(r) <= First_(s)
  <2>1. First_(r) >= MaxSmallBinSize \div 2 /\ Last_(r) <= NAV - 2
        /\ \A s \in DOMAIN BinRanges : r < s => Last_(r) <= First_(s)
    BY BinsAssumption DEF First_, Last_, Row_
  <2>2. MaxSmallBinSize \div 2 \in Int
    BY <1>1
  <2>. QED BY <1>3, <2>1, <2>2
<1>. QED BY <1>1, <1>3, <1>4

(* Every chunk has a bin, and a longer one no earlier bin.                 *)
LEMMA BinInRange ==
  ASSUME NEW sz \in Nat, sz >= MINSIZE
  PROVE  /\ BinOf(sz) \in 2 .. NAV - 2
         /\ sz < MaxSmallBinSize => BinOf(sz) = sz \div 2 /\ BinOf(sz) < MaxSmallBinSize \div 2
         /\ sz >= MaxSmallBinSize => BinOf(sz) = bin_index(sz) /\ MaxSmallBinSize \div 2 <= BinOf(sz)
<1> DEFINE rows == {r \in DOMAIN BinRanges : sz < BinRanges[r].below}
<1>1. CASE sz < MaxSmallBinSize
  <2>1. BinOf(sz) = sz \div 2
    BY <1>1 DEF BinOf, smallbin_index
  <2> DEFINE m == MaxSmallBinSize
  <2>2. m \in Nat /\ m % 2 = 0 /\ NAV \in Nat /\ m \div 2 <= NAV - 2
    BY Tables
  <2> HIDE DEF m
  <2>3. sz < m => sz \div 2 < m \div 2 /\ sz \div 2 \in 2 .. NAV - 2
    BY <2>2 DEF MINSIZE
  <2>4. sz \div 2 \in 2 .. NAV - 2 /\ sz \div 2 < MaxSmallBinSize \div 2
    BY <1>1, <2>3 DEF m
  <2>5. ~(sz >= MaxSmallBinSize)
    BY <1>1, Tables
  <2>. QED BY <1>1, <2>1, <2>4, <2>5
<1>2. CASE sz >= MaxSmallBinSize
  <2>1. BinOf(sz) = bin_index(sz)
    BY <1>2, Tables DEF BinOf
  <2>2. CASE rows = {}
    <3>1. BinOf(sz) = NAV - 2
      BY <1>2, <2>1, <2>2, RowOfTable
    <3>2. MaxSmallBinSize \div 2 <= NAV - 2 /\ NAV - 2 \in 2 .. NAV - 2
      BY Tables
    <3>3. ~(sz < MaxSmallBinSize)
      BY <1>2, Tables
    <3>. QED BY <2>1, <3>1, <3>2, <3>3
  <2>3. CASE rows # {}
    <3> DEFINE r == Min(rows)
    <3>1. r \in DOMAIN BinRanges /\ First_(r) <= bin_index(sz) /\ bin_index(sz) <= Last_(r)
          /\ bin_index(sz) = Row_(r).base + sz \div Row_(r).width
      BY <1>2, <2>3, RowOfTable
    <3> HIDE DEF r
    <3>2. BinRanges[r].base \in Nat /\ BinRanges[r].width \in Nat \ {0}
      BY <3>1, TableRow
    <3>3. bin_index(sz) \in Nat
      BY <3>1, <3>2, Multiples DEF Row_
    <3>. QED BY <1>2, <2>1, <3>1, <3>3, Tables
  <2>. QED BY <2>2, <2>3
<1>. QED BY <1>1, <1>2, Tables

LEMMA BinsUp ==
  ASSUME NEW a \in Nat, NEW b \in Nat, a >= MINSIZE, a <= b
  PROVE  BinOf(a) <= BinOf(b)
<1>0. BinOf(a) \in Int /\ BinOf(b) \in Int
  BY BinInRange DEF MINSIZE
<1>1. CASE b < MaxSmallBinSize
  BY <1>1, BinInRange, Tables DEF MINSIZE
<1>2. CASE a < MaxSmallBinSize /\ b >= MaxSmallBinSize
  BY <1>0, <1>2, BinInRange, Tables DEF MINSIZE
<1>3. CASE a >= MaxSmallBinSize
  <2> DEFINE A == {r \in DOMAIN BinRanges : a < BinRanges[r].below}
             B == {r \in DOMAIN BinRanges : b < BinRanges[r].below}
  <2>0. BinOf(a) = bin_index(a) /\ BinOf(b) = bin_index(b) /\ b >= MaxSmallBinSize
    BY <1>3, BinInRange, Tables DEF MINSIZE
  <2>1. \A r \in DOMAIN BinRanges : BinRanges[r].below \in Nat
    BY TableRow
  <2>2. B \subseteq A
    BY <2>1
  <2>3. CASE B = {}
    <3>1. bin_index(b) = NAV - 2
      BY <2>0, <2>3, RowOfTable
    <3>. QED BY <2>0, <3>1, BinInRange, Tables
  <2>4. CASE B # {}
    <3> DEFINE r == Min(A)  s == Min(B)
    <3>1. /\ r \in A /\ \A x \in A : r <= x
          /\ bin_index(a) = Row_(r).base + a \div Row_(r).width
          /\ bin_index(a) <= Last_(r)
      BY <1>3, <2>2, <2>4, RowOfTable
    <3>2. /\ s \in B /\ First_(s) <= bin_index(b)
          /\ bin_index(b) = Row_(s).base + b \div Row_(s).width
      BY <2>0, <2>4, RowOfTable
    <3> HIDE DEF r, s, A, B
    <3>3. r <= s /\ r \in DOMAIN BinRanges /\ s \in DOMAIN BinRanges
      BY <2>2, <3>1, <3>2 DEF A, B
    <3>4. CASE r = s
      <4>1. BinRanges[r].base \in Nat /\ BinRanges[r].width \in Nat \ {0}
        BY <3>3, TableRow
      <4>2. /\ a \div Row_(r).width <= b \div Row_(r).width
            /\ a \div Row_(r).width \in Nat /\ b \div Row_(r).width \in Nat
            /\ Row_(r).base \in Nat
        BY <4>1, DivideUp, Multiples DEF Row_
      <4>. QED BY <2>0, <3>1, <3>2, <3>4, <4>2
    <3>5. CASE r < s
      BY <1>0, <2>0, <3>1, <3>2, <3>3, <3>5, Tables
    <3>6. r \in Nat /\ s \in Nat
      BY <3>3, Tables
    <3>. QED BY <3>3, <3>4, <3>5, <3>6
  <2>. QED BY <2>3, <2>4
<1>. QED BY <1>1, <1>2, <1>3, Tables
-----------------------------------------------------------------------------
(* The lists of free chunks.                                               *)
Listed(q) == {q[k] : k \in 1 .. Len(q)}
Once(q) == \A k, l \in 1 .. Len(q) : q[k] = q[l] => k = l
Downwards(q, c) == \A k, l \in 1 .. Len(q) : k < l => c[q[l]].size <= c[q[k]].size

LEMMA RemovedAt ==
  ASSUME NEW S, NEW q \in Seq(S), NEW i \in 1 .. Len(q)
  PROVE  LET r == RemoveAt(q, i)
         IN /\ r \in Seq(S) /\ Len(r) = Len(q) - 1
            /\ \A k \in 1 .. Len(q) - 1 : r[k] = IF k < i THEN q[k] ELSE q[k + 1]
<1> DEFINE n == Len(q)  a == SubSeq(q, 1, i - 1)  b == SubSeq(q, i + 1, n)
<1>1. n \in Nat
  BY LenProperties
<1>2. a \in Seq(S) /\ Len(a) = i - 1 /\ \A k \in 1 .. i - 1 : a[k] = q[k]
  <2>1. 1 \in 1 .. n + 1 /\ i - 1 \in 1 - 1 .. n
    BY <1>1
  <2>2. /\ SubSeq(q, 1, i - 1) \in Seq(S)
        /\ Len(SubSeq(q, 1, i - 1)) = IF 1 <= i - 1 THEN i - 1 - 1 + 1 ELSE 0
        /\ \A k \in 1 .. i - 1 - 1 + 1 : SubSeq(q, 1, i - 1)[k] = q[1 + k - 1]
    BY <2>1, SubSeqProperties
  <2>3. \A k \in 1 .. i - 1 : a[k] = q[k]
    <3> SUFFICES ASSUME NEW k \in 1 .. i - 1 PROVE a[k] = q[k]
      OBVIOUS
    <3>1. k \in 1 .. i - 1 - 1 + 1 /\ 1 + k - 1 = k
      BY <1>1
    <3>. QED BY <2>2, <3>1
  <2>. QED BY <1>1, <2>2, <2>3
<1>3. b \in Seq(S) /\ Len(b) = n - i /\ \A k \in 1 .. n - i : b[k] = q[i + k]
  <2>1. i + 1 \in 1 .. n + 1 /\ n \in (i + 1) - 1 .. n
    BY <1>1
  <2>2. /\ SubSeq(q, i + 1, n) \in Seq(S)
        /\ Len(SubSeq(q, i + 1, n)) = IF i + 1 <= n THEN n - (i + 1) + 1 ELSE 0
        /\ \A k \in 1 .. n - (i + 1) + 1 : SubSeq(q, i + 1, n)[k] = q[i + 1 + k - 1]
    BY <2>1, SubSeqProperties
  <2>3. \A k \in 1 .. n - i : b[k] = q[i + k]
    <3> SUFFICES ASSUME NEW k \in 1 .. n - i PROVE b[k] = q[i + k]
      OBVIOUS
    <3>1. k \in 1 .. n - (i + 1) + 1 /\ i + 1 + k - 1 = i + k
      BY <1>1
    <3>. QED BY <2>2, <3>1
  <2>. QED BY <1>1, <2>2, <2>3
<1>4. RemoveAt(q, i) = a \o b
  BY DEF RemoveAt
<1> HIDE DEF a, b
<1>5. /\ a \o b \in Seq(S) /\ Len(a \o b) = n - 1
      /\ \A k \in 1 .. n - 1 : (a \o b)[k] = IF k <= i - 1 THEN a[k] ELSE b[k - (i - 1)]
  <2>1. /\ a \o b \in Seq(S) /\ Len(a \o b) = Len(a) + Len(b)
        /\ \A k \in 1 .. Len(a) + Len(b) : (a \o b)[k] = IF k <= Len(a) THEN a[k] ELSE b[k - Len(a)]
    BY <1>2, <1>3, ConcatProperties
  <2>2. Len(a) + Len(b) = n - 1
    BY <1>1, <1>2, <1>3
  <2>. QED BY <1>2, <2>1, <2>2
<1>6. ASSUME NEW k \in 1 .. n - 1
      PROVE  (a \o b)[k] = IF k < i THEN q[k] ELSE q[k + 1]
  <2>1. CASE k < i
    <3>1. k \in 1 .. i - 1
      BY <1>1, <2>1
    <3>. QED BY <1>2, <1>5, <2>1, <3>1
  <2>2. CASE k >= i
    <3>1. k - (i - 1) \in 1 .. n - i /\ i + (k - (i - 1)) = k + 1 /\ ~(k <= i - 1) /\ ~(k < i)
      BY <1>1, <2>2
    <3>2. b[k - (i - 1)] = q[i + (k - (i - 1))]
      BY <1>3, <3>1
    <3>. QED BY <1>5, <3>1, <3>2
  <2>8. k \in Int /\ i \in Int
    BY <1>1
  <2>9. k < i \/ k >= i
    BY <2>8
  <2>. QED BY <2>1, <2>2, <2>9
<1>. QED BY <1>4, <1>5, <1>6

LEMMA InsertedAt ==
  ASSUME NEW S, NEW q \in Seq(S), NEW i \in 1 .. Len(q) + 1, NEW e \in S
  PROVE  LET r == InsertAt(q, i, e)
         IN /\ r \in Seq(S) /\ Len(r) = Len(q) + 1
            /\ \A k \in 1 .. Len(q) + 1 :
                 r[k] = IF k < i THEN q[k] ELSE IF k = i THEN e ELSE q[k - 1]
<1> DEFINE n == Len(q)  a == SubSeq(q, 1, i - 1)  b == SubSeq(q, i, n)
<1>1. n \in Nat
  BY LenProperties
<1>2. a \in Seq(S) /\ Len(a) = i - 1 /\ \A k \in 1 .. i - 1 : a[k] = q[k]
  <2>1. 1 \in 1 .. n + 1 /\ i - 1 \in 1 - 1 .. n
    BY <1>1
  <2>2. /\ SubSeq(q, 1, i - 1) \in Seq(S)
        /\ Len(SubSeq(q, 1, i - 1)) = IF 1 <= i - 1 THEN i - 1 - 1 + 1 ELSE 0
        /\ \A k \in 1 .. i - 1 - 1 + 1 : SubSeq(q, 1, i - 1)[k] = q[1 + k - 1]
    BY <2>1, SubSeqProperties
  <2>3. \A k \in 1 .. i - 1 : a[k] = q[k]
    <3> SUFFICES ASSUME NEW k \in 1 .. i - 1 PROVE a[k] = q[k]
      OBVIOUS
    <3>1. k \in 1 .. i - 1 - 1 + 1 /\ 1 + k - 1 = k
      BY <1>1
    <3>. QED BY <2>2, <3>1
  <2>. QED BY <1>1, <2>2, <2>3
<1>3. b \in Seq(S) /\ Len(b) = n - i + 1 /\ \A k \in 1 .. n - i + 1 : b[k] = q[i + k - 1]
  <2>1. i \in 1 .. n + 1 /\ n \in i - 1 .. n
    BY <1>1
  <2>2. /\ SubSeq(q, i, n) \in Seq(S)
        /\ Len(SubSeq(q, i, n)) = IF i <= n THEN n - i + 1 ELSE 0
        /\ \A k \in 1 .. n - i + 1 : SubSeq(q, i, n)[k] = q[i + k - 1]
    BY <2>1, SubSeqProperties
  <2>. QED BY <1>1, <2>1, <2>2
<1> DEFINE m == <<e>>
<1>4. m \in Seq(S) /\ Len(m) = 1 /\ m[1] = e
  OBVIOUS
<1>5. InsertAt(q, i, e) = a \o m \o b
  BY DEF InsertAt
<1> HIDE DEF a, b, m
<1> DEFINE d == a \o m
<1>6. d \in Seq(S) /\ Len(d) = i /\ \A k \in 1 .. i : d[k] = IF k < i THEN q[k] ELSE e
  <2>1. /\ d \in Seq(S) /\ Len(d) = Len(a) + Len(m)
        /\ \A k \in 1 .. Len(a) + Len(m) : d[k] = IF k <= Len(a) THEN a[k] ELSE m[k - Len(a)]
    BY <1>2, <1>4, ConcatProperties
  <2>2. Len(a) + Len(m) = i
    BY <1>1, <1>2, <1>4
  <2>3. ASSUME NEW k \in 1 .. i PROVE d[k] = IF k < i THEN q[k] ELSE e
    <3>1. CASE k < i
      <4>1. k \in 1 .. i - 1 /\ k <= i - 1
        BY <1>1, <3>1
      <4>. QED BY <1>2, <2>1, <2>2, <3>1, <4>1
    <3>2. CASE k = i
      <4>1. k - (i - 1) = 1 /\ ~(k <= i - 1)
        BY <1>1, <3>2
      <4>. QED BY <1>2, <1>4, <2>1, <2>2, <3>2, <4>1
    <3>8. k \in Int /\ i \in Int
      BY <1>1
    <3>9. k < i \/ k = i
      BY <3>8, <1>1
    <3>. QED BY <3>1, <3>2, <3>9
  <2>. QED BY <2>1, <2>2, <2>3
<1> HIDE DEF d
<1>7. /\ d \o b \in Seq(S) /\ Len(d \o b) = n + 1
      /\ \A k \in 1 .. n + 1 : (d \o b)[k] = IF k <= i THEN d[k] ELSE b[k - i]
  <2>1. /\ d \o b \in Seq(S) /\ Len(d \o b) = Len(d) + Len(b)
        /\ \A k \in 1 .. Len(d) + Len(b) : (d \o b)[k] = IF k <= Len(d) THEN d[k] ELSE b[k - Len(d)]
    BY <1>3, <1>6, ConcatProperties
  <2>2. Len(d) + Len(b) = n + 1
    BY <1>1, <1>3, <1>6
  <2>. QED BY <1>6, <2>1, <2>2
<1>8. ASSUME NEW k \in 1 .. n + 1
      PROVE  (d \o b)[k] = IF k < i THEN q[k] ELSE IF k = i THEN e ELSE q[k - 1]
  <2>1. CASE k <= i
    <3>1. k \in 1 .. i /\ (k < i \/ k = i)
      BY <1>1, <2>1
    <3>. QED BY <1>6, <1>7, <2>1, <3>1
  <2>2. CASE k > i
    <3>1. k - i \in 1 .. n - i + 1 /\ i + (k - i) - 1 = k - 1 /\ ~(k <= i) /\ ~(k < i) /\ k # i
      BY <1>1, <2>2
    <3>2. b[k - i] = q[i + (k - i) - 1]
      BY <1>3, <3>1
    <3>. QED BY <1>7, <3>1, <3>2
  <2>8. k \in Int /\ i \in Int
    BY <1>1
  <2>9. k <= i \/ k > i
    BY <2>8
  <2>. QED BY <2>1, <2>2, <2>9
<1>9. InsertAt(q, i, e) = d \o b
  BY <1>5 DEF d
<1>. QED BY <1>7, <1>8, <1>9
LEMMA RemovedFrom ==
  ASSUME NEW q \in Seq(Nat), NEW p, Once(q)
  PROVE  LET r == Without(q, p)
         IN /\ r \in Seq(Nat) /\ Len(r) \in Nat /\ Len(r) <= Len(q) /\ Once(r)
            /\ Listed(r) = Listed(q) \ {p}
            /\ \A c : Downwards(q, c) => Downwards(r, c)
            /\ p \notin Listed(q) => r = q
<1> DEFINE places == {k \in DOMAIN q : q[k] = p}  n == Len(q)
<1>0. n \in Nat /\ DOMAIN q = 1 .. n
  BY LenProperties
<1>1. CASE places = {}
  <2>1. Without(q, p) = q
    BY <1>1 DEF Without
  <2>2. p \notin Listed(q)
    BY <1>0, <1>1 DEF Listed
  <2>. QED BY <1>0, <2>1, <2>2
<1>2. CASE places # {}
  <2> DEFINE i == Min(places)  r == RemoveAt(q, i)
  <2>1. Without(q, p) = r
    BY <1>2 DEF Without
  <2>2. places \in SUBSET Nat
    BY <1>0
  <2>3. i \in places
    BY <1>2, <2>2, LeastOf
  <2> HIDE DEF i
  <2>4. i \in 1 .. n /\ q[i] = p
    BY <1>0, <2>3
  <2>5. /\ r \in Seq(Nat) /\ Len(r) = n - 1
        /\ \A k \in 1 .. n - 1 : r[k] = IF k < i THEN q[k] ELSE q[k + 1]
    BY <2>4, RemovedAt
  <2> HIDE DEF r, places, n
  <2> DEFINE from(k) == IF k < i THEN k ELSE k + 1
  <2>6. ASSUME NEW k \in 1 .. n - 1
        PROVE  from(k) \in 1 .. n /\ from(k) # i /\ r[k] = q[from(k)]
    BY <1>0, <2>4, <2>5
  <2>7. ASSUME NEW k \in 1 .. n - 1, NEW l \in 1 .. n - 1
        PROVE  /\ from(k) = from(l) => k = l
               /\ k < l => from(k) < from(l)
    BY <1>0, <2>4
  <2>8. ASSUME NEW k \in 1 .. n, k # i
        PROVE  \E l \in 1 .. n - 1 : from(l) = k
    <3>1. CASE k < i
      <4>1. k \in 1 .. n - 1 /\ from(k) = k
        BY <1>0, <2>4, <3>1
      <4>. QED BY <4>1
    <3>2. CASE k > i
      <4>1. k - 1 \in 1 .. n - 1 /\ from(k - 1) = k
        BY <1>0, <2>4, <3>2
      <4>. QED BY <4>1
    <3>. QED BY <1>0, <2>4, <2>8, <3>1, <3>2
  <2> HIDE DEF from
  <2>9. \A k, l \in 1 .. n : q[k] = q[l] => k = l
    BY DEF Once, n
  <2>10. Once(r)
    <3> SUFFICES ASSUME NEW k \in 1 .. n - 1, NEW l \in 1 .. n - 1, r[k] = r[l]
                 PROVE  k = l
      BY <2>5 DEF Once
    <3>1. q[from(k)] = q[from(l)]
      BY <2>6
    <3>. QED BY <2>6, <2>7, <2>9, <3>1
  <2>11. Listed(r) = Listed(q) \ {p}
    <3>1. ASSUME NEW x \in Listed(r) PROVE x \in Listed(q) \ {p}
      <4>1. PICK k \in 1 .. n - 1 : x = r[k]
        BY <2>5 DEF Listed
      <4>2. from(k) \in 1 .. n /\ from(k) # i /\ x = q[from(k)]
        BY <2>6, <4>1
      <4>. QED BY <2>4, <2>9, <4>2 DEF Listed, n
    <3>2. ASSUME NEW x \in Listed(q) \ {p} PROVE x \in Listed(r)
      <4>1. PICK k \in 1 .. n : x = q[k]
        BY DEF Listed, n
      <4>2. k # i
        BY <2>4, <4>1
      <4>3. PICK l \in 1 .. n - 1 : from(l) = k
        BY <2>8, <4>2
      <4>4. r[l] = x
        BY <2>6, <4>1, <4>3
      <4>. QED BY <2>5, <4>4 DEF Listed
    <3>. QED BY <3>1, <3>2
  <2>12. ASSUME NEW c, Downwards(q, c) PROVE Downwards(r, c)
    <3> SUFFICES ASSUME NEW k \in 1 .. n - 1, NEW l \in 1 .. n - 1, k < l
                 PROVE  c[r[l]].size <= c[r[k]].size
      BY <2>5 DEF Downwards
    <3>1. from(k) < from(l) /\ from(k) \in 1 .. n /\ from(l) \in 1 .. n
      BY <2>6, <2>7
    <3>. QED BY <2>6, <2>12, <3>1 DEF Downwards, n
  <2>13. p \in Listed(q)
    BY <2>4 DEF Listed, n
  <2>14. Len(r) \in Nat /\ Len(r) <= Len(q)
    BY <1>0, <2>4, <2>5 DEF n
  <2>. QED BY <2>1, <2>5, <2>10, <2>11, <2>12, <2>13, <2>14
<1>. QED BY <1>1, <1>2

(* p goes in at place i, after those that are at least as long and before  *)
(* those that are at most as long.                                         *)
LEMMA InsertedTo ==
  ASSUME NEW q \in Seq(Nat), NEW p \in Nat, Once(q), p \notin Listed(q), NEW c,
         Downwards(q, c), NEW i \in 1 .. Len(q) + 1,
         \A k \in 1 .. Len(q) : IF k < i THEN c[p].size <= c[q[k]].size
                                         ELSE c[q[k]].size <= c[p].size
  PROVE  LET r == InsertAt(q, i, p)
         IN /\ r \in Seq(Nat) /\ Once(r) /\ Downwards(r, c) /\ Listed(r) = Listed(q) \cup {p}
            /\ Len(r) = Len(q) + 1
<1> DEFINE r == InsertAt(q, i, p)  n == Len(q)
<1>0. n \in Nat
  BY LenProperties
<1>1. /\ r \in Seq(Nat) /\ Len(r) = n + 1
      /\ \A k \in 1 .. n + 1 : r[k] = IF k < i THEN q[k] ELSE IF k = i THEN p ELSE q[k - 1]
  <2>1. \A S, e : e \in S /\ q \in Seq(S) =>
          /\ InsertAt(q, i, e) \in Seq(S) /\ Len(InsertAt(q, i, e)) = Len(q) + 1
          /\ \A k \in 1 .. Len(q) + 1 :
               InsertAt(q, i, e)[k] = IF k < i THEN q[k] ELSE IF k = i THEN e ELSE q[k - 1]
    BY InsertedAt
  <2>. QED BY <2>1
<1> HIDE DEF r, n
<1> DEFINE from(k) == IF k < i THEN k ELSE k - 1
<1>2. r[i] = p /\ i \in 1 .. n + 1
  BY <1>0, <1>1 DEF n
<1>3. ASSUME NEW k \in 1 .. n + 1, k # i
      PROVE  from(k) \in 1 .. n /\ r[k] = q[from(k)]
  BY <1>0, <1>1, <1>2, <1>3
<1>4. ASSUME NEW k \in 1 .. n + 1, NEW l \in 1 .. n + 1, k # i, l # i
      PROVE  /\ from(k) = from(l) => k = l
             /\ k < l => from(k) < from(l)
  BY <1>0, <1>2, <1>4
<1>5. ASSUME NEW k \in 1 .. n
      PROVE  \E l \in 1 .. n + 1 : l # i /\ from(l) = k
  <2>1. CASE k < i
    <3>1. k \in 1 .. n + 1 /\ k # i /\ from(k) = k
      BY <1>0, <1>2, <2>1
    <3>. QED BY <3>1
  <2>2. CASE k >= i
    <3>1. k + 1 \in 1 .. n + 1 /\ k + 1 # i /\ from(k + 1) = k
      BY <1>0, <1>2, <2>2
    <3>. QED BY <3>1
  <2>. QED BY <1>0, <1>2, <2>1, <2>2
<1>6. ASSUME NEW k \in 1 .. n + 1, k # i
      PROVE  /\ k < i => from(k) < i
             /\ ~(k < i) => ~(from(k) < i)
  BY <1>0, <1>2, <1>6
<1> HIDE DEF from
<1>7. \A k \in 1 .. n + 1 : k # i => r[k] # p
  BY <1>3 DEF Listed, n
<1>8. Once(r)
  <2> SUFFICES ASSUME NEW k \in 1 .. n + 1, NEW l \in 1 .. n + 1, r[k] = r[l]
               PROVE  k = l
    BY <1>1 DEF Once
  <2>1. CASE k = i \/ l = i
    BY <1>2, <1>7, <2>1
  <2>2. CASE k # i /\ l # i
    <3>1. q[from(k)] = q[from(l)] /\ from(k) \in 1 .. n /\ from(l) \in 1 .. n
      BY <1>3, <2>2
    <3>2. from(k) = from(l)
      BY <3>1 DEF Once, n
    <3>. QED BY <1>4, <2>2, <3>2
  <2>. QED BY <2>1, <2>2
<1>9. Listed(r) = Listed(q) \cup {p}
  <2>1. ASSUME NEW x \in Listed(r) PROVE x \in Listed(q) \cup {p}
    <3>1. PICK k \in 1 .. n + 1 : x = r[k]
      BY <1>1 DEF Listed
    <3>2. CASE k = i
      BY <1>2, <3>1, <3>2
    <3>3. CASE k # i
      BY <1>3, <3>1, <3>3 DEF Listed, n
    <3>. QED BY <3>2, <3>3
  <2>2. ASSUME NEW x \in Listed(q) PROVE x \in Listed(r)
    <3>1. PICK k \in 1 .. n : x = q[k]
      BY DEF Listed, n
    <3>2. PICK l \in 1 .. n + 1 : l # i /\ from(l) = k
      BY <1>5
    <3>3. r[l] = x
      BY <1>3, <3>1, <3>2
    <3>. QED BY <1>1, <3>3 DEF Listed
  <2>3. p \in Listed(r)
    BY <1>1, <1>2 DEF Listed
  <2>. QED BY <2>1, <2>2, <2>3
<1>10. Downwards(r, c)
  <2> SUFFICES ASSUME NEW k \in 1 .. n + 1, NEW l \in 1 .. n + 1, k < l
               PROVE  c[r[l]].size <= c[r[k]].size
    BY <1>1 DEF Downwards
  <2>0. \A j \in 1 .. n : IF j < i THEN c[p].size <= c[q[j]].size ELSE c[q[j]].size <= c[p].size
    BY DEF n
  <2>1. CASE l = i
    <3>1. k # i /\ k < i
      BY <1>2, <2>1
    <3>2. from(k) \in 1 .. n /\ from(k) < i /\ r[k] = q[from(k)]
      BY <1>3, <1>6, <3>1
    <3>. QED BY <1>2, <2>0, <2>1, <3>2
  <2>2. CASE k = i
    <3>1. l # i /\ ~(l < i)
      BY <1>2, <2>2
    <3>2. from(l) \in 1 .. n /\ ~(from(l) < i) /\ r[l] = q[from(l)]
      BY <1>3, <1>6, <3>1
    <3>. QED BY <1>2, <2>0, <2>2, <3>2
  <2>3. CASE k # i /\ l # i
    <3>1. from(k) < from(l) /\ from(k) \in 1 .. n /\ from(l) \in 1 .. n
      BY <1>3, <1>4, <2>3
    <3>. QED BY <1>3, <2>3, <3>1 DEF Downwards, n
  <2>. QED BY <2>1, <2>2, <2>3
<1>. QED BY <1>1, <1>8, <1>9, <1>10 DEF r, n
(* What the lists are for a set F of chunks of the sizes that c gives.     *)
OneBin(i, q, marked, c) ==
  /\ Once(q) /\ Downwards(q, c)
  /\ i = last_remainder => Len(q) <= 1
  /\ i # last_remainder => \A p \in Listed(q) : BinOf(c[p].size) = i /\ BlockOf(i) \in marked

BinsFor(bins, marked, c, F) ==
  /\ bins \in [1 .. NAV - 1 -> Seq(Nat)]
  /\ \A i \in 1 .. NAV - 1 : OneBin(i, bins[i], marked, c)
  /\ \A i, j \in 1 .. NAV - 1 : i # j => Listed(bins[i]) \cap Listed(bins[j]) = {}
  /\ F = UNION {Listed(bins[i]) : i \in 1 .. NAV - 1}

Sized(c, F) == \A p \in F : c[p].size \in Nat /\ c[p].size % 2 = 0 /\ c[p].size >= MINSIZE

LEMMA ListedIn ==
  ASSUME NEW bins, NEW marked, NEW c, NEW F, BinsFor(bins, marked, c, F)
  PROVE  /\ F \subseteq Nat
         /\ \A i \in 1 .. NAV - 1 : Listed(bins[i]) \subseteq F
         /\ \A i \in 1 .. NAV - 1 : /\ bins[i] \in Seq(Nat) /\ Len(bins[i]) \in Nat
                                    /\ DOMAIN bins[i] = 1 .. Len(bins[i])
                                    /\ \A k \in 1 .. Len(bins[i]) : bins[i][k] \in Nat /\ bins[i][k] \in F
<1>1. ASSUME NEW i \in 1 .. NAV - 1
      PROVE  /\ Listed(bins[i]) \subseteq F /\ Listed(bins[i]) \subseteq Nat
             /\ bins[i] \in Seq(Nat) /\ Len(bins[i]) \in Nat /\ DOMAIN bins[i] = 1 .. Len(bins[i])
             /\ \A k \in 1 .. Len(bins[i]) : bins[i][k] \in Nat /\ bins[i][k] \in F
  <2>1. bins[i] \in Seq(Nat)
    BY DEF BinsFor
  <2>2. Len(bins[i]) \in Nat /\ DOMAIN bins[i] = 1 .. Len(bins[i])
    BY <2>1, LenProperties
  <2>3. \A k \in 1 .. Len(bins[i]) : bins[i][k] \in Nat
    BY <2>1, ElementOfSeq
  <2>4. Listed(bins[i]) \subseteq F
    BY DEF BinsFor
  <2>. QED BY <2>1, <2>2, <2>3, <2>4 DEF Listed
<1>. QED BY <1>1 DEF BinsFor

(* The size of the last remainder does not matter.                         *)
LEMMA SameSizes ==
  ASSUME NEW bins, NEW marked, NEW c, NEW F, BinsFor(bins, marked, c, F),
         NEW c2, \A p \in F \ Listed(bins[last_remainder]) : c2[p].size = c[p].size
  PROVE  BinsFor(bins, marked, c2, F)
<1>1. ASSUME NEW i \in 1 .. NAV - 1 PROVE OneBin(i, bins[i], marked, c2)
  <2>1. OneBin(i, bins[i], marked, c) /\ Listed(bins[i]) \subseteq F /\ Len(bins[i]) \in Nat
    BY ListedIn DEF BinsFor
  <2>2. CASE i # last_remainder
    <3>0. last_remainder \in 1 .. NAV - 1
      BY Tables DEF last_remainder
    <3>1. Listed(bins[i]) \cap Listed(bins[last_remainder]) = {}
      BY <2>2, <3>0 DEF BinsFor
    <3>2. \A k \in 1 .. Len(bins[i]) : c2[bins[i][k]].size = c[bins[i][k]].size
      BY <2>1, <3>1 DEF Listed
    <3>3. Downwards(bins[i], c2)
      BY <2>1, <3>2 DEF OneBin, Downwards
    <3>4. \A p \in Listed(bins[i]) : c2[p].size = c[p].size
      BY <2>1, <3>1
    <3>. QED BY <2>1, <2>2, <3>3, <3>4 DEF OneBin
  <2>3. CASE i = last_remainder
    <3>1. Len(bins[i]) <= 1 /\ Once(bins[i])
      BY <2>1, <2>3 DEF OneBin
    <3>2. Downwards(bins[i], c2)
      BY <2>1, <3>1 DEF Downwards
    <3>. QED BY <2>3, <3>1, <3>2 DEF OneBin
  <2>. QED BY <2>2, <2>3
<1>. QED BY <1>1 DEF BinsFor

LEMMA BinReplaced ==
  ASSUME NEW bins, NEW marked, NEW c, NEW F, BinsFor(bins, marked, c, F),
         NEW i \in 1 .. NAV - 1, NEW q \in Seq(Nat), NEW marked2, marked \subseteq marked2,
         OneBin(i, q, marked2, c), Listed(q) \cap (F \ Listed(bins[i])) = {}
  PROVE  BinsFor([bins EXCEPT ![i] = q], marked2, c, (F \ Listed(bins[i])) \cup Listed(q))
<1> DEFINE new == [bins EXCEPT ![i] = q]
<1>1. /\ new \in [1 .. NAV - 1 -> Seq(Nat)] /\ new[i] = q
      /\ \A j \in 1 .. NAV - 1 : j # i => new[j] = bins[j]
  BY DEF BinsFor
<1> HIDE DEF new
<1>2. \A j, k \in 1 .. NAV - 1 : j # k => Listed(bins[j]) \cap Listed(bins[k]) = {}
  BY DEF BinsFor
<1>3. F = UNION {Listed(bins[j]) : j \in 1 .. NAV - 1}
  BY DEF BinsFor
<1>4. ASSUME NEW j \in 1 .. NAV - 1 PROVE OneBin(j, new[j], marked2, c)
  <2>1. CASE j = i
    BY <1>1, <2>1
  <2>2. CASE j # i
    <3>1. OneBin(j, bins[j], marked, c)
      BY DEF BinsFor
    <3>. QED BY <1>1, <2>2, <3>1 DEF OneBin
  <2>. QED BY <2>1, <2>2
<1>5. \A j \in 1 .. NAV - 1 : j # i => Listed(bins[j]) \subseteq F \ Listed(bins[i])
  BY <1>2, <1>3
<1>6. ASSUME NEW j \in 1 .. NAV - 1, NEW k \in 1 .. NAV - 1, j # k
      PROVE  Listed(new[j]) \cap Listed(new[k]) = {}
  <2>1. CASE j = i
    BY <1>1, <1>5, <1>6, <2>1
  <2>2. CASE k = i
    BY <1>1, <1>5, <1>6, <2>2
  <2>3. CASE j # i /\ k # i
    BY <1>1, <1>2, <1>6, <2>3
  <2>. QED BY <2>1, <2>2, <2>3
<1>7. ASSUME NEW x \in (F \ Listed(bins[i])) \cup Listed(q)
      PROVE  x \in UNION {Listed(new[j]) : j \in 1 .. NAV - 1}
  <2>1. CASE x \in Listed(q)
    BY <1>1, <2>1
  <2>2. CASE x \in F \ Listed(bins[i])
    <3>1. PICK j \in 1 .. NAV - 1 : x \in Listed(bins[j])
      BY <1>3, <2>2
    <3>. QED BY <1>1, <2>2, <3>1
  <2>. QED BY <2>1, <2>2
<1>8. ASSUME NEW x \in UNION {Listed(new[j]) : j \in 1 .. NAV - 1}
      PROVE  x \in (F \ Listed(bins[i])) \cup Listed(q)
  <2>1. PICK j \in 1 .. NAV - 1 : x \in Listed(new[j])
    OBVIOUS
  <2>. QED BY <1>1, <1>5, <2>1
<1>. QED BY <1>1, <1>4, <1>6, <1>7, <1>8 DEF BinsFor, new

LEMMA Unlinked ==
  ASSUME NEW bins, NEW marked, NEW c, NEW F, BinsFor(bins, marked, c, F), NEW p
  PROVE  LET new == [i \in DOMAIN bins |-> Without(bins[i], p)]
         IN /\ BinsFor(new, marked, c, F \ {p})
            /\ \A i \in 1 .. NAV - 1 : p \notin Listed(bins[i]) => new[i] = bins[i]
            /\ \A i \in 1 .. NAV - 1 : Listed(new[i]) = Listed(bins[i]) \ {p}
<1> DEFINE new == [i \in DOMAIN bins |-> Without(bins[i], p)]
<1>1. DOMAIN bins = 1 .. NAV - 1
  BY DEF BinsFor
<1>2. \A i \in 1 .. NAV - 1 : new[i] = Without(bins[i], p)
  BY <1>1
<1>3. DOMAIN new = 1 .. NAV - 1 /\ new = [i \in 1 .. NAV - 1 |-> new[i]]
  BY <1>1
<1> HIDE DEF new
<1>4. ASSUME NEW i \in 1 .. NAV - 1
      PROVE  /\ new[i] \in Seq(Nat) /\ Len(new[i]) \in Nat /\ Len(new[i]) <= Len(bins[i]) /\ Once(new[i])
             /\ Listed(new[i]) = Listed(bins[i]) \ {p}
             /\ \A d : Downwards(bins[i], d) => Downwards(new[i], d)
             /\ p \notin Listed(bins[i]) => new[i] = bins[i]
  <2>1. bins[i] \in Seq(Nat) /\ Once(bins[i])
    BY DEF BinsFor, OneBin
  <2>. QED BY <1>2, <2>1, RemovedFrom
<1>5. new \in [1 .. NAV - 1 -> Seq(Nat)]
  BY <1>3, <1>4
<1>6. ASSUME NEW i \in 1 .. NAV - 1 PROVE OneBin(i, new[i], marked, c)
  <2>1. OneBin(i, bins[i], marked, c) /\ Len(bins[i]) \in Nat
    BY ListedIn DEF BinsFor
  <2>2. i = last_remainder => Len(new[i]) <= 1
    BY <1>4, <2>1 DEF OneBin
  <2>3. i # last_remainder => \A x \in Listed(new[i]) : BinOf(c[x].size) = i /\ BlockOf(i) \in marked
    BY <1>4, <2>1 DEF OneBin
  <2>4. Once(new[i]) /\ Downwards(new[i], c)
    BY <1>4, <2>1 DEF OneBin
  <2>. QED BY <2>2, <2>3, <2>4 DEF OneBin
<1>7. \A i, j \in 1 .. NAV - 1 : i # j => Listed(new[i]) \cap Listed(new[j]) = {}
  BY <1>4 DEF BinsFor
<1>8. F \ {p} = UNION {Listed(new[i]) : i \in 1 .. NAV - 1}
  <2>1. F = UNION {Listed(bins[i]) : i \in 1 .. NAV - 1}
    BY DEF BinsFor
  <2>2. ASSUME NEW x \in F \ {p} PROVE x \in UNION {Listed(new[i]) : i \in 1 .. NAV - 1}
    <3>1. PICK i \in 1 .. NAV - 1 : x \in Listed(bins[i])
      BY <2>1
    <3>. QED BY <1>4, <2>2, <3>1
  <2>3. ASSUME NEW x \in UNION {Listed(new[i]) : i \in 1 .. NAV - 1} PROVE x \in F \ {p}
    <3>1. PICK i \in 1 .. NAV - 1 : x \in Listed(new[i])
      OBVIOUS
    <3>. QED BY <1>4, <2>1, <3>1
  <2>. QED BY <2>2, <2>3
<1>9. BinsFor(new, marked, c, F \ {p})
  BY <1>5, <1>6, <1>7, <1>8 DEF BinsFor
<1>. QED BY <1>4, <1>9 DEF new
(* The places before a limit are as many as the least that is not.         *)
LEMMA CountBefore ==
  ASSUME NEW n \in Nat, NEW T \in SUBSET (1 .. n),
         \A k, l \in 1 .. n : k < l /\ l \in T => k \in T
  PROVE  /\ Cardinality(T) \in 0 .. n
         /\ \A k \in 1 .. n : k \in T <=> k < Cardinality(T) + 1
<1> DEFINE rest == {k \in Nat : k >= 1 /\ k \notin T}
<1>1. rest \in SUBSET Nat /\ n + 1 \in rest
  OBVIOUS
<1> DEFINE m == Min(rest)
<1>2. m \in rest /\ \A y \in rest : m <= y
  BY <1>1, LeastOf
<1> HIDE DEF m, rest
<1>3. m \in Nat /\ m >= 1 /\ m <= n + 1 /\ m \notin T
  BY <1>1, <1>2 DEF rest
<1>4. ASSUME NEW k \in 1 .. n PROVE k \in T <=> k < m
  <2>1. CASE k < m
    <3>1. k \notin rest
      BY <1>2, <1>3, <2>1
    <3>. QED BY <2>1, <3>1 DEF rest
  <2>2. CASE k = m
    BY <1>3, <2>2
  <2>3. CASE k > m
    <3>1. m \in 1 .. n
      BY <1>3, <2>3
    <3>. QED BY <1>3, <2>3, <3>1
  <2>. QED BY <1>3, <2>1, <2>2, <2>3
<1>5. T = 1 .. m - 1
  <2>1. ASSUME NEW k \in T PROVE k \in 1 .. m - 1
    <3>1. k \in 1 .. n /\ k < m
      BY <1>4
    <3>. QED BY <1>3, <3>1
  <2>2. ASSUME NEW k \in 1 .. m - 1 PROVE k \in T
    <3>1. k \in 1 .. n /\ k < m
      BY <1>3
    <3>. QED BY <1>4, <3>1
  <2>. QED BY <2>1, <2>2
<1>6. Cardinality(T) = m - 1
  <2>1. Cardinality(1 .. m - 1) = IF 1 > m - 1 THEN 0 ELSE m - 1 - 1 + 1
    BY <1>3, FS_Interval
  <2>. QED BY <1>3, <1>5, <2>1
<1>. QED BY <1>3, <1>4, <1>6

Heaps == [brk : Nat, based : BOOLEAN, top : Nat, chunks : ChunkMaps,
          bins : [1 .. NAV - 1 -> Seq(Nat)], binblocks : SUBSET Int, stale : SUBSET Int]

LEMMA Blocked ==
  ASSUME NEW i \in Int PROVE BlockOf(i) \in Int
<1>1. BinBlockWidth \in Nat \ {0}
  BY Tables
<1>. QED BY <1>1 DEF BlockOf

LEMMA Fronted ==
  ASSUME NEW h \in Heaps, NEW F, BinsFor(h.bins, h.binblocks, h.chunks, F),
         NEW p \in Nat, p \notin F, 0 \notin F, Sized(h.chunks, F \cup {p})
  PROVE  LET g == frontlink(h, p, h.chunks[p].size)
         IN /\ g = [h EXCEPT !.bins = g.bins, !.binblocks = g.binblocks]
            /\ BinsFor(g.bins, g.binblocks, h.chunks, F \cup {p})
            /\ g.bins[last_remainder] = h.bins[last_remainder]
            /\ g.binblocks \in SUBSET Int /\ h.binblocks \subseteq g.binblocks
<1> DEFINE c == h.chunks
           sz == c[p].size
           i == BinOf(sz)
           bin == h.bins[i]
           larger == {k \in DOMAIN bin : sz < chunksize(h, bin[k])}
           small == sz < MaxSmallBinSize
           q == IF small THEN <<p>> \o bin ELSE InsertAt(bin, Cardinality(larger) + 1, p)
           marked == IF small \/ bin = <<>> THEN h.binblocks \cup {BlockOf(i)} ELSE h.binblocks
           g == [h EXCEPT !.bins = [h.bins EXCEPT ![i] = q], !.binblocks = marked]
<1>1. frontlink(h, p, sz) = g
  <2>1. h = [brk |-> h.brk, based |-> h.based, top |-> h.top, chunks |-> h.chunks,
             bins |-> h.bins, binblocks |-> h.binblocks, stale |-> h.stale]
    BY DEF Heaps
  <2>. QED BY <2>1 DEF frontlink
<1>2. sz \in Nat /\ sz % 2 = 0 /\ sz >= MINSIZE
  BY DEF Sized
<1>3. i \in 2 .. NAV - 2 /\ i \in 1 .. NAV - 1 /\ i # last_remainder /\ i \in Int
  BY <1>2, BinInRange, Tables DEF last_remainder
<1>4. /\ bin \in Seq(Nat) /\ Len(bin) \in Nat /\ DOMAIN bin = 1 .. Len(bin)
      /\ \A k \in 1 .. Len(bin) : bin[k] \in Nat /\ bin[k] \in F
  BY <1>3, ListedIn
<1>5. OneBin(i, bin, h.binblocks, c) /\ Listed(bin) \subseteq F /\ p \notin Listed(bin)
  BY <1>3, ListedIn DEF BinsFor
<1>6. ASSUME NEW k \in 1 .. Len(bin)
      PROVE  /\ chunksize(h, bin[k]) = c[bin[k]].size /\ c[bin[k]].size \in Nat
             /\ c[bin[k]].size % 2 = 0 /\ c[bin[k]].size >= MINSIZE /\ BinOf(c[bin[k]].size) = i
  <2>1. bin[k] \in F /\ bin[k] # 0
    BY <1>4
  <2>2. BinOf(c[bin[k]].size) = i
    BY <1>3, <1>5 DEF OneBin, Listed
  <2>. QED BY <2>1, <2>2 DEF Sized, chunksize, null
<1> HIDE DEF c, sz, i, bin, larger, q, marked, g
<1>7. q \in Seq(Nat) /\ Once(q) /\ Downwards(q, c) /\ Listed(q) = Listed(bin) \cup {p}
  <2>1. CASE small
    <3>1. ASSUME NEW k \in 1 .. Len(bin) PROVE c[bin[k]].size <= c[p].size
      <4>1. c[bin[k]].size < MaxSmallBinSize
        <5>1. ~(c[bin[k]].size >= MaxSmallBinSize)
          <6>1. i < MaxSmallBinSize \div 2
            BY <1>2, <2>1, BinInRange DEF i
          <6>. QED BY <1>3, <1>6, <6>1, BinInRange, Tables
        <5>. QED BY <1>6, <5>1, Tables
      <4>2. c[bin[k]].size \div 2 = sz \div 2
        BY <1>2, <1>6, <2>1, <4>1, BinInRange DEF i
      <4>. QED BY <1>2, <1>6, <4>2 DEF sz
    <3>2. 1 \in 1 .. Len(bin) + 1
      BY <1>4
    <3>3. \A k \in 1 .. Len(bin) : IF k < 1 THEN c[p].size <= c[bin[k]].size
                                            ELSE c[bin[k]].size <= c[p].size
      BY <3>1
    <3>4. LET r == InsertAt(bin, 1, p)
          IN r \in Seq(Nat) /\ Once(r) /\ Downwards(r, c) /\ Listed(r) = Listed(bin) \cup {p}
      BY <1>4, <1>5, <3>2, <3>3, InsertedTo DEF OneBin
    <3>5. InsertAt(bin, 1, p) = <<p>> \o bin
      <4>1. SubSeq(bin, 1, 1 - 1) = <<>> /\ SubSeq(bin, 1, Len(bin)) = bin
        BY <1>4, SMT
      <4>. QED BY <1>4, <4>1 DEF InsertAt
    <3>. QED BY <2>1, <3>4, <3>5 DEF q
  <2>2. CASE ~small
    <3> DEFINE n == Cardinality(larger) + 1
    <3>1. larger \in SUBSET (1 .. Len(bin))
      BY <1>4 DEF larger
    <3>2. \A k \in 1 .. Len(bin) : k \in larger <=> sz < c[bin[k]].size
      BY <1>4, <1>6 DEF larger
    <3>3. ASSUME NEW k \in 1 .. Len(bin), NEW l \in 1 .. Len(bin), k < l, l \in larger
          PROVE  k \in larger
      <4>1. c[bin[l]].size <= c[bin[k]].size
        BY <1>5, <3>3 DEF OneBin, Downwards
      <4>. QED BY <1>2, <1>6, <3>2, <3>3, <4>1
    <3>4. /\ Cardinality(larger) \in 0 .. Len(bin)
          /\ \A k \in 1 .. Len(bin) : k \in larger <=> k < Cardinality(larger) + 1
      BY <1>4, <3>1, <3>3, CountBefore
    <3>5. n \in 1 .. Len(bin) + 1
      BY <1>4, <3>4
    <3>6. \A k \in 1 .. Len(bin) : IF k < n THEN c[p].size <= c[bin[k]].size
                                            ELSE c[bin[k]].size <= c[p].size
      BY <1>2, <1>6, <3>2, <3>4 DEF sz
    <3> HIDE DEF n
    <3>7. LET r == InsertAt(bin, n, p)
          IN r \in Seq(Nat) /\ Once(r) /\ Downwards(r, c) /\ Listed(r) = Listed(bin) \cup {p}
      BY <1>4, <1>5, <3>5, <3>6, InsertedTo DEF OneBin
    <3>. QED BY <2>2, <3>7 DEF q, n
  <2>. QED BY <2>1, <2>2
<1>8. h.binblocks \subseteq marked /\ BlockOf(i) \in marked /\ marked \in SUBSET Int
  <2>1. h.binblocks \in SUBSET Int /\ BlockOf(i) \in Int
    BY <1>3, Blocked DEF Heaps
  <2>2. bin # <<>> => BlockOf(i) \in h.binblocks
    <3>1. bin # <<>> => bin[1] \in Listed(bin)
      BY <1>4 DEF Listed
    <3>. QED BY <1>3, <1>5, <3>1 DEF OneBin
  <2>. QED BY <2>1, <2>2 DEF marked
<1>9. OneBin(i, q, marked, c)
  <2>1. BinOf(c[p].size) = i
    BY DEF i, sz
  <2>2. \A x \in Listed(q) : BinOf(c[x].size) = i
    BY <1>3, <1>5, <1>7, <2>1 DEF OneBin
  <2>. QED BY <1>3, <1>7, <1>8, <2>2 DEF OneBin
<1>10. Listed(q) \cap (F \ Listed(h.bins[i])) = {}
  BY <1>7 DEF bin
<1>11. BinsFor([h.bins EXCEPT ![i] = q], marked, c, (F \ Listed(h.bins[i])) \cup Listed(q))
  BY <1>3, <1>7, <1>8, <1>9, <1>10, BinReplaced DEF c
<1>12. (F \ Listed(h.bins[i])) \cup Listed(q) = F \cup {p}
  BY <1>5, <1>7 DEF bin
<1>13. /\ g.bins = [h.bins EXCEPT ![i] = q] /\ g.binblocks = marked
       /\ g = [h EXCEPT !.bins = g.bins, !.binblocks = g.binblocks]
  BY DEF g, Heaps
<1>14. g.bins[last_remainder] = h.bins[last_remainder]
  <2>1. h.bins \in [1 .. NAV - 1 -> Seq(Nat)]
    BY DEF Heaps
  <2>. QED BY <1>3, <1>13, <2>1
<1>. QED BY <1>1, <1>8, <1>11, <1>12, <1>13, <1>14 DEF c, sz-----------------------------------------------------------------------------
(* One chunk, or two of which the first is in use, take the place of those *)
(* from lo on up to hi, or up to the break.                                *)
LEMMA OneChunk ==
  ASSUME NEW c \in ChunkMaps, NEW t \in Nat, NEW brk \in Nat, Tiles(c, t, brk),
         NEW c2 \in ChunkMaps, NEW lo \in DOMAIN c, NEW hi \in DOMAIN c, lo < hi,
         DOMAIN c2 = {q \in DOMAIN c : q <= lo \/ q >= hi},
         \A q \in DOMAIN c2 : q # lo /\ q # hi => c2[q] = c[q],
         c2[lo].size = hi - lo, c2[lo].prev_inuse = c[lo].prev_inuse,
         ~c[lo].prev_inuse => c2[lo].prev_size = c[lo].prev_size,
         c2[hi].size = c[hi].size,
         ~c2[hi].prev_inuse => /\ hi # t /\ c[After(c, hi)].prev_inuse /\ c[lo].prev_inuse
                               /\ c2[hi].prev_size = hi - lo
  PROVE  /\ Tiles(c2, t, brk)
         /\ FreeIn(c2, t) = {p \in FreeIn(c, t) : p < lo \/ p >= hi}
                              \cup (IF c2[hi].prev_inuse THEN {} ELSE {lo})
         /\ UsedIn(c2, t) = {p \in UsedIn(c, t) : p < lo \/ p >= hi}
                              \cup (IF c2[hi].prev_inuse THEN {lo} ELSE {})
         /\ \A p \in DOMAIN c : p < lo \/ p >= hi => c2[p].size = c[p].size
<1>0. /\ DOMAIN c \subseteq Nat /\ DOMAIN c2 \subseteq Nat /\ lo \in Nat /\ hi \in Nat
      /\ \A p \in DOMAIN c : c[p].size \in Nat /\ c[p].prev_size \in Nat /\ c[p].prev_inuse \in BOOLEAN
      /\ \A p \in DOMAIN c2 : c2[p].size \in Nat /\ c2[p].prev_size \in Nat /\ c2[p].prev_inuse \in BOOLEAN
  BY ChunkTyped
<1>1. Placed(c, t, lo) /\ Placed(c, t, hi)
  BY DEF Tiles
<1>2. lo \in DOMAIN c2 /\ hi \in DOMAIN c2 /\ After(c2, lo) = hi
  BY <1>0 DEF After
<1> DEFINE N == {lo}
<1>3. c2[lo].size >= MINSIZE
  <2>1. hi >= After(c, lo) /\ c[lo].size >= 4
    BY <1>0, <1>1 DEF Placed, Apart, MINSIZE
  <2>. QED BY <1>0, <2>1 DEF After, MINSIZE
<1>4. Replaced(c, c2, lo, hi, N)
  <2>1. DOMAIN c2 = {q \in DOMAIN c : q < lo \/ q >= hi} \cup N
    BY <1>0
  <2>2. \A q \in DOMAIN c : q < lo \/ q > hi => c2[q] = c[q]
    BY <1>0
  <2>3. N \subseteq lo .. hi - 1
    BY <1>0
  <2>4. lo % 2 = 0 /\ Apart(c2, lo, lo)
    BY <1>0, <1>1 DEF Placed, Apart
  <2>. QED BY <1>3, <2>1, <2>2, <2>3, <2>4 DEF Replaced
<1>5. ASSUME NEW p \in N \cup {hi}
      PROVE  /\ p # lo => BeforeKnown(c2, p)
             /\ p \in FreeIn(c2, t) \cup {t} => c2[p].prev_inuse
  <2>1. p # lo => BeforeKnown(c2, p)
    BY <1>0, <1>2 DEF BeforeKnown
  <2>2. CASE p = lo
    <3>1. lo # t
      BY <1>0, <1>1 DEF Placed
    <3>. QED BY <1>2, <2>1, <2>2, <3>1 DEF FreeIn
  <2>3. CASE p = hi /\ ~c2[hi].prev_inuse
    <3>1. hi # t /\ c[After(c, hi)].prev_inuse /\ After(c, hi) \in DOMAIN c /\ c[hi].size >= 4
      BY <1>1, <2>3 DEF Placed, MINSIZE
    <3>2. c2[After(c, hi)] = c[After(c, hi)] /\ After(c2, hi) = After(c, hi)
      BY <1>0, <3>1 DEF After
    <3>. QED BY <2>1, <2>3, <3>1, <3>2 DEF FreeIn
  <2>. QED BY <2>1, <2>2, <2>3
<1>6. \A p \in N : After(c2, p) \in N \cup {hi}
  BY <1>2
<1>7. /\ Tiles(c2, t, brk)
      /\ FreeIn(c2, t) = {p \in FreeIn(c, t) : p < lo \/ p >= hi}
                              \cup {p \in N : ~c2[After(c2, p)].prev_inuse}
      /\ UsedIn(c2, t) = {p \in UsedIn(c, t) : p < lo \/ p >= hi}
                              \cup {p \in N : c2[After(c2, p)].prev_inuse}
      /\ \A p \in DOMAIN c : p < lo \/ p >= hi => c2[p].size = c[p].size
  <2> HIDE DEF N
  <2>. QED BY <1>4, <1>5, <1>6, ReplaceMiddle
<1>8. /\ {p \in N : ~c2[After(c2, p)].prev_inuse} = IF c2[hi].prev_inuse THEN {} ELSE {lo}
      /\ {p \in N : c2[After(c2, p)].prev_inuse} = IF c2[hi].prev_inuse THEN {lo} ELSE {}
  BY <1>2
<1>. QED BY <1>7, <1>8

Halved(c, c2, lo, mid, hi) ==
  /\ DOMAIN c2 = {q \in DOMAIN c : q <= lo \/ q >= hi} \cup {mid}
  /\ \A q \in DOMAIN c2 : q # lo /\ q # mid /\ q # hi => c2[q] = c[q]
  /\ c2[lo].size = mid - lo /\ c2[lo].prev_inuse = c[lo].prev_inuse
  /\ ~c[lo].prev_inuse => c2[lo].prev_size = c[lo].prev_size
  /\ c2[mid].size = hi - mid /\ c2[mid].prev_inuse /\ c2[hi].size = c[hi].size

LEMMA TwoChunks ==
  ASSUME NEW c \in ChunkMaps, NEW t \in Nat, NEW brk \in Nat, Tiles(c, t, brk),
         NEW c2 \in ChunkMaps, NEW lo \in DOMAIN c, NEW hi \in DOMAIN c,
         NEW mid \in Nat, mid % 2 = 0, mid - lo >= MINSIZE, hi - mid >= MINSIZE,
         Halved(c, c2, lo, mid, hi),
         ~c2[hi].prev_inuse => /\ hi # t /\ c[After(c, hi)].prev_inuse
                               /\ c2[hi].prev_size = hi - mid
  PROVE  /\ Tiles(c2, t, brk)
         /\ FreeIn(c2, t) = {p \in FreeIn(c, t) : p < lo \/ p >= hi}
                              \cup (IF c2[hi].prev_inuse THEN {} ELSE {mid})
         /\ UsedIn(c2, t) = {p \in UsedIn(c, t) : p < lo \/ p >= hi}
                              \cup (IF c2[hi].prev_inuse THEN {lo, mid} ELSE {lo})
         /\ \A p \in DOMAIN c : p < lo \/ p >= hi => c2[p].size = c[p].size
<1> USE DEF Halved
<1>0. /\ DOMAIN c \subseteq Nat /\ DOMAIN c2 \subseteq Nat /\ lo \in Nat /\ hi \in Nat
      /\ \A p \in DOMAIN c : c[p].size \in Nat /\ c[p].prev_size \in Nat /\ c[p].prev_inuse \in BOOLEAN
      /\ \A p \in DOMAIN c2 : c2[p].size \in Nat /\ c2[p].prev_size \in Nat /\ c2[p].prev_inuse \in BOOLEAN
  BY ChunkTyped
<1>1. Placed(c, t, lo) /\ Placed(c, t, hi)
  BY DEF Tiles
<1>a. lo < mid /\ mid < hi /\ lo < hi
  BY <1>0 DEF MINSIZE
<1>2. /\ lo \in DOMAIN c2 /\ mid \in DOMAIN c2 /\ hi \in DOMAIN c2
      /\ After(c2, lo) = mid /\ After(c2, mid) = hi
  BY <1>0, <1>a DEF After
<1> DEFINE N == {lo, mid}
<1>4. Replaced(c, c2, lo, hi, N)
  <2>1. DOMAIN c2 = {q \in DOMAIN c : q < lo \/ q >= hi} \cup N
    BY <1>0
  <2>2. \A q \in DOMAIN c : q < lo \/ q > hi => c2[q] = c[q]
    BY <1>0, <1>a
  <2>3. N \subseteq lo .. hi - 1
    BY <1>0, <1>a
  <2>4. \A p, q \in N : Apart(c2, p, q)
    BY <1>0, <1>2, <1>a DEF Apart
  <2>5. \A p \in N : p % 2 = 0 /\ c2[p].size >= MINSIZE
    BY <1>1 DEF Placed
  <2>. QED BY <2>1, <2>2, <2>3, <2>4, <2>5 DEF Replaced
<1>5. ASSUME NEW p \in N \cup {hi}
      PROVE  /\ p # lo => BeforeKnown(c2, p)
             /\ p \in FreeIn(c2, t) \cup {t} => c2[p].prev_inuse
  <2>1. p # lo => BeforeKnown(c2, p)
    BY <1>0, <1>2 DEF BeforeKnown
  <2>2. CASE p = lo
    <3>1. lo # t
      BY <1>0, <1>1, <1>a DEF Placed
    <3>. QED BY <1>2, <2>1, <2>2, <3>1 DEF FreeIn
  <2>3. CASE p = mid
    BY <2>1, <2>3
  <2>4. CASE p = hi /\ ~c2[hi].prev_inuse
    <3>1. hi # t /\ c[After(c, hi)].prev_inuse /\ After(c, hi) \in DOMAIN c /\ c[hi].size >= 4
      BY <1>1, <2>4 DEF Placed, MINSIZE
    <3>2. c2[After(c, hi)] = c[After(c, hi)] /\ After(c2, hi) = After(c, hi)
      BY <1>0, <1>a, <3>1 DEF After
    <3>. QED BY <2>1, <2>4, <3>1, <3>2 DEF FreeIn
  <2>. QED BY <2>1, <2>2, <2>3, <2>4
<1>6. \A p \in N : After(c2, p) \in N \cup {hi}
  BY <1>2
<1>7. /\ Tiles(c2, t, brk)
      /\ FreeIn(c2, t) = {p \in FreeIn(c, t) : p < lo \/ p >= hi}
                              \cup {p \in N : ~c2[After(c2, p)].prev_inuse}
      /\ UsedIn(c2, t) = {p \in UsedIn(c, t) : p < lo \/ p >= hi}
                              \cup {p \in N : c2[After(c2, p)].prev_inuse}
      /\ \A p \in DOMAIN c : p < lo \/ p >= hi => c2[p].size = c[p].size
  <2> HIDE DEF N
  <2>. QED BY <1>a, <1>4, <1>5, <1>6, ReplaceMiddle
<1>8. /\ {p \in N : ~c2[After(c2, p)].prev_inuse} = IF c2[hi].prev_inuse THEN {} ELSE {mid}
      /\ {p \in N : c2[After(c2, p)].prev_inuse} = IF c2[hi].prev_inuse THEN {lo, mid} ELSE {lo}
  BY <1>2
<1>. QED BY <1>7, <1>8

LEMMA TopChunk ==
  ASSUME NEW c \in ChunkMaps, NEW t \in Nat, NEW brk \in Nat, Tiles(c, t, brk),
         NEW c2 \in ChunkMaps, NEW brk2 \in Nat, NEW lo \in DOMAIN c,
         DOMAIN c2 = {q \in DOMAIN c : q <= lo},
         \A q \in DOMAIN c2 : q # lo => c2[q] = c[q],
         c2[lo].size >= MINSIZE, After(c2, lo) = brk2, c[lo].prev_inuse, c2[lo].prev_inuse
  PROVE  /\ Tiles(c2, lo, brk2)
         /\ FreeIn(c2, lo) = {p \in FreeIn(c, t) : p < lo}
         /\ UsedIn(c2, lo) = {p \in UsedIn(c, t) : p < lo}
         /\ \A p \in DOMAIN c : p < lo => c2[p].size = c[p].size
<1>0. /\ DOMAIN c \subseteq Nat /\ DOMAIN c2 \subseteq Nat /\ lo \in Nat /\ lo \in DOMAIN c2
      /\ \A p \in DOMAIN c : c[p].size \in Nat /\ c[p].prev_size \in Nat /\ c[p].prev_inuse \in BOOLEAN
      /\ \A p \in DOMAIN c2 : c2[p].size \in Nat /\ c2[p].prev_size \in Nat /\ c2[p].prev_inuse \in BOOLEAN
  BY ChunkTyped
<1>1. Placed(c, t, lo) /\ t \in DOMAIN c /\ \A p \in DOMAIN c : Placed(c, t, p) /\ p <= t
  BY <1>0 DEF Tiles, Placed
<1> DEFINE hi == t + 1
<1>2. hi \in Nat /\ \A p \in DOMAIN c : p < hi
  BY <1>0, <1>1
<1> DEFINE N == {lo}
<1>4. Replaced(c, c2, lo, hi, N)
  <2>1. DOMAIN c2 = {q \in DOMAIN c : q < lo \/ q >= hi} \cup N
    BY <1>0, <1>2
  <2>2. \A q \in DOMAIN c : q < lo \/ q > hi => c2[q] = c[q]
    BY <1>0, <1>2
  <2>3. N \subseteq lo .. hi - 1
    BY <1>0, <1>1
  <2>4. lo % 2 = 0 /\ Apart(c2, lo, lo)
    BY <1>0, <1>1 DEF Placed, Apart
  <2>. QED BY <2>1, <2>2, <2>3, <2>4 DEF Replaced
<1>5. ASSUME NEW p \in N
      PROVE  /\ p <= lo
             /\ p # lo => After(c2, p) \in N
             /\ p # lo => BeforeKnown(c2, p)
             /\ p \in FreeIn(c2, lo) \cup {lo} => c2[p].prev_inuse
  BY <1>0
<1>7. EndReplaced(c, t, c2, lo, brk2, lo, N)
  <2>1. EndsIn(c2, lo, N, lo, brk2)
    BY <1>5 DEF EndsIn
  <2>2. lo \in Nat
    BY <1>0
  <2> HIDE DEF N, hi
  <2>. QED BY <1>2, <1>4, <2>1, <2>2, ReplaceTop
<1>. QED BY <1>7 DEF EndReplaced

TopHalved(c, c2, lo, mid, brk) ==
  /\ DOMAIN c2 = {q \in DOMAIN c : q <= lo} \cup {mid}
  /\ \A q \in DOMAIN c2 : q # lo /\ q # mid => c2[q] = c[q]
  /\ c2[lo].size = mid - lo /\ c2[lo].prev_inuse = c[lo].prev_inuse
  /\ ~c[lo].prev_inuse => c2[lo].prev_size = c[lo].prev_size
  /\ c2[mid].size = brk - mid /\ c2[mid].prev_inuse

LEMMA TopTwo ==
  ASSUME NEW c \in ChunkMaps, NEW t \in Nat, NEW brk \in Nat, Tiles(c, t, brk),
         NEW c2 \in ChunkMaps, NEW lo \in DOMAIN c,
         NEW mid \in Nat, mid % 2 = 0, mid - lo >= MINSIZE, brk - mid >= MINSIZE,
         TopHalved(c, c2, lo, mid, brk)
  PROVE  /\ Tiles(c2, mid, brk)
         /\ FreeIn(c2, mid) = {p \in FreeIn(c, t) : p < lo}
         /\ UsedIn(c2, mid) = {p \in UsedIn(c, t) : p < lo} \cup {lo}
         /\ \A p \in DOMAIN c : p < lo => c2[p].size = c[p].size
<1> USE DEF TopHalved
<1>0. /\ DOMAIN c \subseteq Nat /\ DOMAIN c2 \subseteq Nat /\ lo \in Nat /\ lo \in DOMAIN c2
      /\ mid \in DOMAIN c2
      /\ \A p \in DOMAIN c : c[p].size \in Nat /\ c[p].prev_size \in Nat /\ c[p].prev_inuse \in BOOLEAN
      /\ \A p \in DOMAIN c2 : c2[p].size \in Nat /\ c2[p].prev_size \in Nat /\ c2[p].prev_inuse \in BOOLEAN
  BY ChunkTyped
<1>1. /\ Placed(c, t, lo) /\ t \in DOMAIN c /\ t + c[t].size = brk
      /\ \A p \in DOMAIN c : Placed(c, t, p) /\ p <= t
  BY <1>0 DEF Tiles, Placed, After
<1>2. \A p \in DOMAIN c : p < brk
  <2>1. c[t].size >= 4
    BY <1>1 DEF Placed, MINSIZE
  <2>. QED BY <1>0, <1>1, <2>1
<1>a. lo < mid /\ mid < brk /\ After(c2, lo) = mid /\ After(c2, mid) = brk
  BY <1>0 DEF MINSIZE, After
<1> DEFINE N == {lo, mid}
<1>4. Replaced(c, c2, lo, brk, N)
  <2>1. DOMAIN c2 = {q \in DOMAIN c : q < lo \/ q >= brk} \cup N
    BY <1>0, <1>2
  <2>2. \A q \in DOMAIN c : q < lo \/ q > brk => c2[q] = c[q]
    BY <1>0, <1>2, <1>a
  <2>3. N \subseteq lo .. brk - 1
    BY <1>0, <1>a
  <2>4. \A p, q \in N : Apart(c2, p, q)
    BY <1>0, <1>a DEF Apart
  <2>5. \A p \in N : p % 2 = 0 /\ c2[p].size >= MINSIZE
    BY <1>1 DEF Placed
  <2>. QED BY <2>1, <2>2, <2>3, <2>4, <2>5 DEF Replaced
<1>5. ASSUME NEW p \in N
      PROVE  /\ p <= mid
             /\ p # mid => After(c2, p) \in N
             /\ p # lo => BeforeKnown(c2, p)
             /\ p \in FreeIn(c2, mid) \cup {mid} => c2[p].prev_inuse
  <2>1. p <= mid /\ (p # mid => After(c2, p) \in N)
    BY <1>0, <1>a
  <2>2. p # lo => BeforeKnown(c2, p)
    BY DEF BeforeKnown
  <2>3. p \in FreeIn(c2, mid) \cup {mid} => c2[p].prev_inuse
    BY <1>a DEF FreeIn
  <2>. QED BY <2>1, <2>2, <2>3
<1>7. EndReplaced(c, t, c2, mid, brk, lo, N)
  <2>1. EndsIn(c2, lo, N, mid, brk)
    BY <1>a, <1>5 DEF EndsIn
  <2> HIDE DEF N
  <2>. QED BY <1>2, <1>4, <2>1, ReplaceTop
<1>8. /\ {p \in N : p # mid /\ ~c2[After(c2, p)].prev_inuse} = {}
      /\ {p \in N : p # mid /\ c2[After(c2, p)].prev_inuse} = {lo}
  BY <1>0, <1>a
<1>. QED BY <1>7, <1>8 DEF EndReplaced

-----------------------------------------------------------------------------
Free(h) == FreeIn(h.chunks, h.top)
Used(h) == UsedIn(h.chunks, h.top)

(* The part of the invariant that leaves the lists out.                    *)
Tiled(h) ==
  /\ h \in Heaps /\ h.stale = {}
  /\ Start <= h.brk /\ h.brk <= End
  /\ \A p \in DOMAIN h.chunks : p >= Start
  /\ Tiles(h.chunks, h.top, h.brk)

Binned(h, F) == BinsFor(h.bins, h.binblocks, h.chunks, F)

HeapOK(h) == Tiled(h) /\ Binned(h, Free(h))

(* Two heaps that differ in their chunks only.                             *)
Alike(h, g) ==
  /\ h \in Heaps /\ g \in Heaps
  /\ g.brk = h.brk /\ g.based = h.based /\ g.top = h.top /\ g.bins = h.bins
  /\ g.binblocks = h.binblocks /\ g.stale = h.stale

HeadIn(c, c2, p, size, prev) ==
  /\ DOMAIN c2 = {q \in DOMAIN c : q <= p \/ q >= p + size} \cup {p}
  /\ c2[p].size = size /\ c2[p].prev_inuse = prev
  /\ p \in DOMAIN c /\ ~prev => c2[p].prev_size = c[p].prev_size
  /\ \A q \in DOMAIN c2 : q # p => c2[q] = c[q]

FootIn(c, c2, p, size) ==
  /\ DOMAIN c2 = DOMAIN c
  /\ c2[p].size = c[p].size /\ ~c2[p].prev_inuse /\ c2[p].prev_size = size
  /\ \A q \in DOMAIN c2 : q # p => c2[q] = c[q]

LEMMA Fields ==
  ASSUME NEW h \in Heaps
  PROVE  /\ h.brk \in Nat /\ h.top \in Nat /\ h.chunks \in ChunkMaps /\ h.based \in BOOLEAN
         /\ h.bins \in [1 .. NAV - 1 -> Seq(Nat)] /\ h.binblocks \in SUBSET Int
         /\ h.stale \in SUBSET Int
         /\ DOMAIN h.chunks \subseteq Nat
         /\ \A p \in DOMAIN h.chunks :
              /\ h.chunks[p] \in Chunk /\ h.chunks[p].size \in Nat /\ h.chunks[p].prev_inuse \in BOOLEAN
              /\ h.chunks[p].prev_size \in Nat
<1>1. /\ h.brk \in Nat /\ h.top \in Nat /\ h.chunks \in ChunkMaps /\ h.based \in BOOLEAN
      /\ h.bins \in [1 .. NAV - 1 -> Seq(Nat)] /\ h.binblocks \in SUBSET Int
      /\ h.stale \in SUBSET Int
  BY DEF Heaps
<1>. QED BY <1>1, ChunkTyped

LEMMA Replacing ==
  ASSUME NEW h \in Heaps, NEW c \in ChunkMaps
  PROVE  LET g == [h EXCEPT !.chunks = c] IN Alike(h, g) /\ g.chunks = c
BY DEF Alike, Heaps

LEMMA HeadSet ==
  ASSUME NEW h \in Heaps, NEW p \in Nat, NEW size \in Nat, NEW prev \in BOOLEAN
  PROVE  LET g == set_head(h, p, size, prev)
         IN Alike(h, g) /\ HeadIn(h.chunks, g.chunks, p, size, prev)
<1> DEFINE c == h.chunks
           keep == {q \in DOMAIN h.chunks : q <= p \/ q >= p + size}
           old == IF p \in DOMAIN h.chunks THEN h.chunks[p].prev_size ELSE 0
           head == [size |-> size, prev_inuse |-> prev, prev_size |-> IF prev THEN 0 ELSE old]
           c2 == [q \in keep \cup {p} |-> IF q = p THEN head ELSE c[q]]
<1>1. DOMAIN c \subseteq Nat /\ \A q \in DOMAIN c : c[q] \in Chunk /\ c[q].prev_size \in Nat
  BY Fields
<1>2. old \in Nat
  BY <1>1
<1>3. head \in Chunk
  BY <1>2 DEF Chunk
<1>4. c2 \in [keep \cup {p} -> Chunk] /\ keep \cup {p} \in SUBSET Nat
  BY <1>1, <1>3
<1>5. c2 \in ChunkMaps
  BY <1>4 DEF ChunkMaps
<1>6. set_head(h, p, size, prev) = [h EXCEPT !.chunks = c2]
  BY DEF set_head, Heaps
<1>7. HeadIn(c, c2, p, size, prev)
  BY DEF HeadIn
<1> HIDE DEF c2
<1>. QED BY <1>5, <1>6, <1>7, Replacing

LEMMA FootSet ==
  ASSUME NEW h \in Heaps, NEW p \in DOMAIN h.chunks, NEW size \in Nat
  PROVE  LET g == set_foot(h, p, size)
         IN Alike(h, g) /\ FootIn(h.chunks, g.chunks, p, size)
<1> DEFINE c == h.chunks
           head == [size |-> c[p].size, prev_inuse |-> FALSE, prev_size |-> size]
           c2 == [c EXCEPT ![p] = head]
<1>1. PICK D \in SUBSET Nat : c \in [D -> Chunk]
  BY Fields DEF ChunkMaps
<1>2. c[p] \in Chunk /\ c[p].size \in Nat
  BY Fields
<1>3. head \in Chunk
  BY <1>2 DEF Chunk
<1>4. c2 \in ChunkMaps
  BY <1>1, <1>3 DEF ChunkMaps
<1>5. [c[p] EXCEPT !.prev_inuse = FALSE, !.prev_size = size] = head
  <2>1. \A r, q \in Chunk :
          r.size = q.size /\ r.prev_inuse = q.prev_inuse /\ r.prev_size = q.prev_size => r = q
    BY DEF Chunk
  <2>2. \A r \in Chunk :
          LET q == [r EXCEPT !.prev_inuse = FALSE, !.prev_size = size]
          IN q \in Chunk /\ q.size = r.size /\ ~q.prev_inuse /\ q.prev_size = size
    BY DEF Chunk
  <2>3. head.size = c[p].size /\ head.prev_inuse = FALSE /\ head.prev_size = size
    OBVIOUS
  <2> HIDE DEF head
  <2>4. [c[p] EXCEPT !.prev_inuse = FALSE, !.prev_size = size].prev_inuse = FALSE
    BY <1>2 DEF Chunk
  <2>. QED BY <1>2, <1>3, <2>1, <2>2, <2>3, <2>4
<1>6. set_foot(h, p, size) = [h EXCEPT !.chunks = c2]
  BY <1>1, <1>2, <1>5 DEF set_foot, Heaps, Chunk
<1>7. FootIn(c, c2, p, size)
  BY <1>1 DEF FootIn
<1> HIDE DEF c2
<1>. QED BY <1>4, <1>6, <1>7, Replacing

LEMMA AlikeTwice ==
  ASSUME NEW h, NEW g, NEW k, Alike(h, g), Alike(g, k)
  PROVE  Alike(h, k)
BY DEF Alike
(* What Tiled() says of one chunk.                                         *)
LEMMA OfChunk ==
  ASSUME NEW h, Tiled(h), NEW p \in DOMAIN h.chunks
  PROVE  LET c == h.chunks
             n == After(c, p)
         IN /\ p \in Nat /\ p > 0 /\ p # null /\ p % 2 = 0 /\ p >= Start /\ n \in Nat /\ p < n
            /\ c[p] \in Chunk /\ c[p].size \in Nat /\ c[p].size >= MINSIZE /\ c[p].prev_inuse \in BOOLEAN
            /\ c[p].prev_size \in Nat /\ chunksize(h, p) = c[p].size /\ n = p + c[p].size
            /\ p <= h.top /\ h.top \in DOMAIN c /\ h.top # null /\ n <= h.brk
            /\ p # h.top => /\ n \in DOMAIN c /\ n <= h.top /\ c[p].size % 2 = 0
                            /\ p \in Free(h) <=> ~c[n].prev_inuse
                            /\ p \in Used(h) <=> c[n].prev_inuse
            /\ \A q \in DOMAIN c : q <= p \/ q >= n
            /\ ~c[p].prev_inuse => LET r == p - c[p].prev_size
                                   IN /\ r \in DOMAIN c /\ r \in Free(h) /\ After(c, r) = p
                                      /\ r # h.top /\ r < p
            /\ p \in Free(h) \cup {h.top} => c[p].prev_inuse
<1> DEFINE c == h.chunks  n == After(c, p)
<1>1. /\ h \in Heaps /\ c \in ChunkMaps /\ h.top \in Nat /\ h.brk \in Nat /\ DOMAIN c \subseteq Nat
      /\ \A q \in DOMAIN c : c[q] \in Chunk /\ c[q].size \in Nat /\ c[q].prev_inuse \in BOOLEAN /\ c[q].prev_size \in Nat
  BY Fields DEF Tiled
<1>2. Tiles(c, h.top, h.brk) /\ \A q \in DOMAIN c : q >= Start /\ Placed(c, h.top, q)
  BY DEF Tiled, Tiles
<1>3. h.top \in DOMAIN c /\ h.top # null /\ After(c, h.top) = h.brk
  BY <1>2 DEF Tiles
<1>4. \A q \in DOMAIN c : /\ q > 0 /\ q % 2 = 0 /\ c[q].size >= 4 /\ q <= h.top
                          /\ q # h.top => After(c, q) \in DOMAIN c
                          /\ \A r \in DOMAIN c : Apart(c, q, r)
                          /\ q \in FreeIn(c, h.top) \cup {h.top} => c[q].prev_inuse
  BY <1>2 DEF Placed, MINSIZE
<1>5. n \in Nat /\ p < n /\ n = p + c[p].size /\ c[p].size >= MINSIZE
  BY <1>1, <1>4 DEF After, MINSIZE
<1>6. chunksize(h, p) = c[p].size /\ p # null
  BY <1>1, <1>4 DEF chunksize, null
<1>7. p # h.top => n \in DOMAIN c /\ n <= h.top /\ c[p].size % 2 = 0
  BY <1>1, <1>4, <1>5
<1>8. n <= h.brk
  <2>1. CASE p = h.top
    BY <1>1, <1>3, <1>5, <2>1
  <2>2. CASE p # h.top
    BY <1>1, <1>3, <1>4, <1>5, <1>7, <2>2 DEF After
  <2>. QED BY <2>1, <2>2
<1>9. \A q \in DOMAIN c : q <= p \/ q >= n
  BY <1>4 DEF Apart
<1>10. p # h.top => /\ p \in Free(h) <=> ~c[n].prev_inuse
                    /\ p \in Used(h) <=> c[n].prev_inuse
  BY DEF Free, Used, FreeIn, UsedIn
<1>11. ASSUME ~c[p].prev_inuse
       PROVE  LET r == p - c[p].prev_size
              IN r \in DOMAIN c /\ r \in Free(h) /\ After(c, r) = p /\ r # h.top /\ r < p
  <2> DEFINE r == p - c[p].prev_size
  <2>1. r \in DOMAIN c /\ After(c, r) = p
    BY <1>2, <1>11 DEF Placed, BeforeKnown
  <2> HIDE DEF r
  <2>2. r < p
    BY <1>1, <1>4, <2>1 DEF After
  <2>3. r # h.top
    BY <1>1, <1>4, <2>1, <2>2
  <2>4. r \in Free(h)
    BY <1>11, <2>1, <2>3 DEF Free, FreeIn
  <2>. QED BY <2>1, <2>2, <2>3, <2>4 DEF r
<1>12. p \in Free(h) \cup {h.top} => c[p].prev_inuse
  BY <1>4 DEF Free
<1>13. p \in Nat /\ p > 0 /\ p % 2 = 0 /\ p >= Start /\ c[p] \in Chunk /\ c[p].size \in Nat /\ c[p].prev_inuse \in BOOLEAN
       /\ c[p].prev_size \in Nat /\ p <= h.top
  BY <1>1, <1>2, <1>4
<1> HIDE DEF c, n
<1>. QED BY <1>3, <1>5, <1>6, <1>7, <1>8, <1>9, <1>10, <1>11, <1>12, <1>13 DEF c, n

LEMMA Apiece ==
  ASSUME NEW h, Tiled(h)
  PROVE  /\ Free(h) \subseteq DOMAIN h.chunks /\ Used(h) \subseteq DOMAIN h.chunks
         /\ h.top \notin Free(h) /\ h.top \notin Used(h) /\ Free(h) \cap Used(h) = {}
         /\ DOMAIN h.chunks \ {h.top} = Free(h) \cup Used(h)
         /\ Sized(h.chunks, Free(h)) /\ 0 \notin Free(h) /\ 0 \notin DOMAIN h.chunks
<1>1. /\ Free(h) \subseteq DOMAIN h.chunks /\ Used(h) \subseteq DOMAIN h.chunks
      /\ h.top \notin Free(h) /\ h.top \notin Used(h) /\ Free(h) \cap Used(h) = {}
  BY DEF Free, Used, FreeIn, UsedIn
<1>2. DOMAIN h.chunks \ {h.top} = Free(h) \cup Used(h)
  <2>1. \A p \in DOMAIN h.chunks \ {h.top} : p \in Free(h) \cup Used(h)
    BY OfChunk
  <2>. QED BY <1>1, <2>1
<1>3. Sized(h.chunks, Free(h)) /\ 0 \notin Free(h) /\ 0 \notin DOMAIN h.chunks
  BY <1>1, OfChunk DEF Sized, null
<1>. QED BY <1>1, <1>2, <1>3

Outside(S, lo, hi) == {p \in S : p < lo \/ p >= hi}

LEMMA Span ==
  ASSUME NEW h, Tiled(h), NEW p \in DOMAIN h.chunks, NEW S, S \subseteq DOMAIN h.chunks
  PROVE  /\ Outside(S, p, After(h.chunks, p)) = S \ {p}
         /\ \A hi \in DOMAIN h.chunks : p < hi => hi >= After(h.chunks, p)
<1>1. \A q \in DOMAIN h.chunks : q \in Nat /\ (q <= p \/ q >= After(h.chunks, p))
  BY OfChunk
<1>2. p < After(h.chunks, p) /\ After(h.chunks, p) \in Nat
  BY OfChunk
<1>3. Outside(S, p, After(h.chunks, p)) = S \ {p}
  BY <1>1, <1>2 DEF Outside
<1>. QED BY <1>1, <1>2, <1>3

LEMMA SpanTwo ==
  ASSUME NEW h, Tiled(h), NEW p \in DOMAIN h.chunks, NEW q \in DOMAIN h.chunks,
         q = After(h.chunks, p), NEW S, S \subseteq DOMAIN h.chunks
  PROVE  Outside(S, p, After(h.chunks, q)) = S \ {p, q} /\ p < q /\ q < After(h.chunks, q)
<1>1. \A x \in DOMAIN h.chunks : x \in Nat /\ (x <= p \/ x >= q) /\ (x <= q \/ x >= After(h.chunks, q))
  BY OfChunk
<1>2. p < q /\ q < After(h.chunks, q) /\ After(h.chunks, q) \in Nat
  BY OfChunk
<1>. QED BY <1>1, <1>2 DEF Outside

LEMMA SpanThree ==
  ASSUME NEW h, Tiled(h), NEW o \in DOMAIN h.chunks, NEW p \in DOMAIN h.chunks, NEW q \in DOMAIN h.chunks,
         p = After(h.chunks, o), q = After(h.chunks, p), NEW S, S \subseteq DOMAIN h.chunks
  PROVE  /\ Outside(S, o, After(h.chunks, q)) = S \ {o, p, q}
         /\ o < p /\ p < q /\ q < After(h.chunks, q)
<1>1. \A x \in DOMAIN h.chunks :
        x \in Nat /\ (x <= o \/ x >= p) /\ (x <= p \/ x >= q) /\ (x <= q \/ x >= After(h.chunks, q))
  BY OfChunk
<1>2. o < p /\ p < q /\ q < After(h.chunks, q) /\ After(h.chunks, q) \in Nat
  BY OfChunk
<1>. QED BY <1>1, <1>2 DEF Outside
Joined(c, c2, lo, hi) ==
  /\ DOMAIN c2 = {q \in DOMAIN c : q <= lo \/ q >= hi}
  /\ \A q \in DOMAIN c2 : q # lo /\ q # hi => c2[q] = c[q]
  /\ c2[lo].size = hi - lo /\ c2[lo].prev_inuse = c[lo].prev_inuse
  /\ ~c[lo].prev_inuse => c2[lo].prev_size = c[lo].prev_size
  /\ c2[hi].size = c[hi].size

(* The chunk before hi becomes a free one of n words.                      *)
FreeBefore(h, c2, hi, n) ==
  hi # h.top /\ hi \notin Free(h) /\ c2[hi].prev_size = n

Keeps(h, g, lo, hi) ==
  \A p \in DOMAIN h.chunks :
    p < lo \/ p >= hi => p \in DOMAIN g.chunks /\ g.chunks[p].size = h.chunks[p].size

LEMMA HeapJoined ==
  ASSUME NEW h, Tiled(h), NEW g, Alike(h, g), NEW lo \in DOMAIN h.chunks, NEW hi \in DOMAIN h.chunks,
         lo < hi, Joined(h.chunks, g.chunks, lo, hi),
         ~g.chunks[hi].prev_inuse => h.chunks[lo].prev_inuse /\ FreeBefore(h, g.chunks, hi, hi - lo)
  PROVE  /\ Tiled(g) /\ Keeps(h, g, lo, hi) /\ lo \in DOMAIN g.chunks
         /\ Free(g) = Outside(Free(h), lo, hi) \cup (IF g.chunks[hi].prev_inuse THEN {} ELSE {lo})
         /\ Used(g) = Outside(Used(h), lo, hi) \cup (IF g.chunks[hi].prev_inuse THEN {lo} ELSE {})
<1> DEFINE c == h.chunks  c2 == g.chunks
<1>1. /\ h \in Heaps /\ c \in ChunkMaps /\ h.top \in Nat /\ h.brk \in Nat /\ Tiles(c, h.top, h.brk)
      /\ g \in Heaps /\ c2 \in ChunkMaps /\ g.top = h.top /\ g.brk = h.brk /\ g.stale = {}
      /\ DOMAIN c \subseteq Nat
  BY Fields DEF Tiled, Alike
<1>2. /\ DOMAIN c2 = {q \in DOMAIN c : q <= lo \/ q >= hi}
      /\ \A q \in DOMAIN c2 : q # lo /\ q # hi => c2[q] = c[q]
      /\ c2[lo].size = hi - lo /\ c2[lo].prev_inuse = c[lo].prev_inuse
      /\ ~c[lo].prev_inuse => c2[lo].prev_size = c[lo].prev_size
      /\ c2[hi].size = c[hi].size
  BY DEF Joined
<1>3. ~c2[hi].prev_inuse => /\ hi # h.top /\ c[After(c, hi)].prev_inuse /\ c[lo].prev_inuse
                            /\ c2[hi].prev_size = hi - lo
  <2>1. hi # h.top => (hi \in Free(h) <=> ~c[After(c, hi)].prev_inuse)
    BY OfChunk
  <2>. QED BY <2>1 DEF FreeBefore
<1> HIDE DEF c, c2
<1>4. /\ Tiles(c2, h.top, h.brk)
      /\ FreeIn(c2, h.top) = {p \in FreeIn(c, h.top) : p < lo \/ p >= hi}
                               \cup (IF c2[hi].prev_inuse THEN {} ELSE {lo})
      /\ UsedIn(c2, h.top) = {p \in UsedIn(c, h.top) : p < lo \/ p >= hi}
                               \cup (IF c2[hi].prev_inuse THEN {lo} ELSE {})
      /\ \A p \in DOMAIN c : p < lo \/ p >= hi => c2[p].size = c[p].size
  <2>1. lo \in DOMAIN c /\ hi \in DOMAIN c
    BY DEF c
  <2>. QED BY <1>1, <1>2, <1>3, <2>1, OneChunk
<1>5. \A p \in DOMAIN c2 : p >= Start
  BY <1>2 DEF Tiled, c
<1>6. Tiled(g)
  BY <1>1, <1>4, <1>5 DEF Tiled, c2
<1>7. Keeps(h, g, lo, hi) /\ lo \in DOMAIN c2
  BY <1>1, <1>2, <1>4 DEF Keeps, c, c2
<1>. QED BY <1>1, <1>4, <1>6, <1>7 DEF Free, Used, Outside, c, c2

LEMMA HeapHalved ==
  ASSUME NEW h, Tiled(h), NEW g, Alike(h, g), NEW lo \in DOMAIN h.chunks, NEW hi \in DOMAIN h.chunks,
         NEW mid \in Nat, mid % 2 = 0, mid - lo >= MINSIZE, hi - mid >= MINSIZE,
         Halved(h.chunks, g.chunks, lo, mid, hi),
         ~g.chunks[hi].prev_inuse => FreeBefore(h, g.chunks, hi, hi - mid)
  PROVE  /\ Tiled(g) /\ Keeps(h, g, lo, hi) /\ lo \in DOMAIN g.chunks /\ mid \in DOMAIN g.chunks
         /\ Free(g) = Outside(Free(h), lo, hi) \cup (IF g.chunks[hi].prev_inuse THEN {} ELSE {mid})
         /\ Used(g) = Outside(Used(h), lo, hi) \cup (IF g.chunks[hi].prev_inuse THEN {lo, mid} ELSE {lo})
<1> DEFINE c == h.chunks  c2 == g.chunks
<1>1. /\ h \in Heaps /\ c \in ChunkMaps /\ h.top \in Nat /\ h.brk \in Nat /\ Tiles(c, h.top, h.brk)
      /\ g \in Heaps /\ c2 \in ChunkMaps /\ g.top = h.top /\ g.brk = h.brk /\ g.stale = {}
      /\ DOMAIN c \subseteq Nat
  BY Fields DEF Tiled, Alike
<1>2. /\ DOMAIN c2 = {q \in DOMAIN c : q <= lo \/ q >= hi} \cup {mid}
      /\ \A q \in DOMAIN c2 : q # lo /\ q # mid /\ q # hi => c2[q] = c[q]
  BY DEF Halved
<1>3. ~c2[hi].prev_inuse => /\ hi # h.top /\ c[After(c, hi)].prev_inuse
                            /\ c2[hi].prev_size = hi - mid
  <2>1. hi # h.top => (hi \in Free(h) <=> ~c[After(c, hi)].prev_inuse)
    BY OfChunk
  <2>. QED BY <2>1 DEF FreeBefore
<1> HIDE DEF c, c2
<1>4. /\ Tiles(c2, h.top, h.brk)
      /\ FreeIn(c2, h.top) = {p \in FreeIn(c, h.top) : p < lo \/ p >= hi}
                               \cup (IF c2[hi].prev_inuse THEN {} ELSE {mid})
      /\ UsedIn(c2, h.top) = {p \in UsedIn(c, h.top) : p < lo \/ p >= hi}
                               \cup (IF c2[hi].prev_inuse THEN {lo, mid} ELSE {lo})
      /\ \A p \in DOMAIN c : p < lo \/ p >= hi => c2[p].size = c[p].size
  <2>1. lo \in DOMAIN c /\ hi \in DOMAIN c /\ Halved(c, c2, lo, mid, hi)
    BY DEF c, c2
  <2>. QED BY <1>1, <1>3, <2>1, TwoChunks
<1>5. \A p \in DOMAIN c2 : p >= Start
  <2>1. lo >= Start /\ lo \in Nat /\ Start \in Nat
    BY <1>1, MallocAssumption DEF Tiled, c
  <2>2. mid >= Start
    BY <2>1 DEF MINSIZE
  <2>. QED BY <1>2, <2>2 DEF Tiled, c
<1>6. Tiled(g)
  BY <1>1, <1>4, <1>5 DEF Tiled, c2
<1>7. Keeps(h, g, lo, hi) /\ lo \in DOMAIN c2 /\ mid \in DOMAIN c2
  <2>1. lo <= lo /\ lo \in DOMAIN c
    BY <1>1 DEF c
  <2>. QED BY <1>1, <1>2, <1>4, <2>1 DEF Keeps, c, c2
<1>. QED BY <1>1, <1>4, <1>6, <1>7 DEF Free, Used, Outside, c, c2

(* One chunk up to the break, or two, the second of which is top.          *)
Below(S, t) == {p \in S : p < t}

TopOnly(h, g) ==
  /\ g \in Heaps /\ g.stale = {} /\ g.brk <= End
  /\ g.top \in DOMAIN h.chunks /\ h.chunks[g.top].prev_inuse
  /\ DOMAIN g.chunks = {q \in DOMAIN h.chunks : q <= g.top}
  /\ \A q \in DOMAIN g.chunks : q # g.top => g.chunks[q] = h.chunks[q]
  /\ g.chunks[g.top].prev_inuse /\ g.chunks[g.top].size >= MINSIZE /\ After(g.chunks, g.top) = g.brk

LEMMA HeapTop ==
  ASSUME NEW h, Tiled(h), NEW g, TopOnly(h, g)
  PROVE  /\ Tiled(g)
         /\ Free(g) = Below(Free(h), g.top)
         /\ Used(g) = Below(Used(h), g.top)
         /\ \A p \in DOMAIN h.chunks : p < g.top => g.chunks[p].size = h.chunks[p].size
<1> DEFINE c == h.chunks  c2 == g.chunks  t2 == g.top
<1> USE DEF TopOnly
<1>1. /\ h \in Heaps /\ c \in ChunkMaps /\ h.top \in Nat /\ h.brk \in Nat /\ Tiles(c, h.top, h.brk)
      /\ c2 \in ChunkMaps /\ t2 \in Nat /\ g.brk \in Nat /\ DOMAIN c \subseteq Nat
  BY Fields DEF Tiled
<1>2. /\ Tiles(c2, t2, g.brk)
      /\ FreeIn(c2, t2) = {p \in FreeIn(c, h.top) : p < t2}
      /\ UsedIn(c2, t2) = {p \in UsedIn(c, h.top) : p < t2}
      /\ \A p \in DOMAIN c : p < t2 => c2[p].size = c[p].size
  <2> HIDE DEF c, c2, t2
  <2>. QED BY <1>1, TopChunk DEF c, c2, t2
<1>3. \A p \in DOMAIN c2 : p >= Start
  BY DEF Tiled
<1>4. Start <= g.brk
  <2>1. t2 >= Start /\ Start \in Nat /\ c2[t2].size \in Nat
    BY <1>1, <1>3, Fields, MallocAssumption DEF Tiled
  <2>. QED BY <1>1, <2>1 DEF After
<1>. QED BY <1>1, <1>2, <1>3, <1>4 DEF Tiled, Free, Used, Below

LEMMA HeapTopTwo ==
  ASSUME NEW h, Tiled(h), NEW g \in Heaps, g.stale = {}, g.brk = h.brk,
         NEW lo \in DOMAIN h.chunks, g.top % 2 = 0, g.top - lo >= MINSIZE, g.brk - g.top >= MINSIZE,
         TopHalved(h.chunks, g.chunks, lo, g.top, g.brk)
  PROVE  /\ Tiled(g) /\ lo \in DOMAIN g.chunks
         /\ Free(g) = Below(Free(h), lo)
         /\ Used(g) = Below(Used(h), lo) \cup {lo}
         /\ \A p \in DOMAIN h.chunks : p < lo => g.chunks[p].size = h.chunks[p].size
<1> DEFINE c == h.chunks  c2 == g.chunks  t2 == g.top
<1>1. /\ h \in Heaps /\ c \in ChunkMaps /\ h.top \in Nat /\ h.brk \in Nat /\ Tiles(c, h.top, h.brk)
      /\ c2 \in ChunkMaps /\ t2 \in Nat /\ g.brk \in Nat /\ DOMAIN c \subseteq Nat /\ lo \in Nat
  BY Fields DEF Tiled
<1>2. /\ Tiles(c2, t2, h.brk)
      /\ FreeIn(c2, t2) = {p \in FreeIn(c, h.top) : p < lo}
      /\ UsedIn(c2, t2) = {p \in UsedIn(c, h.top) : p < lo} \cup {lo}
      /\ \A p \in DOMAIN c : p < lo => c2[p].size = c[p].size
  <2> HIDE DEF c, c2, t2
  <2>. QED BY <1>1, TopTwo DEF c, c2, t2
<1>3. \A p \in DOMAIN c2 : p >= Start
  <2>0. DOMAIN c2 = {q \in DOMAIN c : q <= lo} \cup {t2}
    BY DEF TopHalved
  <2>1. lo >= Start /\ Start \in Nat
    BY MallocAssumption DEF Tiled
  <2>2. t2 >= Start
    BY <1>1, <2>1 DEF MINSIZE
  <2>. QED BY <2>0, <2>2 DEF Tiled
<1>4. lo \in DOMAIN c2
  BY <1>1 DEF TopHalved
<1>. QED BY <1>1, <1>2, <1>3, <1>4 DEF Tiled, Free, Used, Below-----------------------------------------------------------------------------
(* Two heaps that differ in their lists only.                              *)
Rebinned(h, g) ==
  /\ h \in Heaps /\ g \in Heaps
  /\ g.brk = h.brk /\ g.based = h.based /\ g.top = h.top /\ g.chunks = h.chunks /\ g.stale = h.stale

LEMMA RebinnedTiled ==
  ASSUME NEW h, Tiled(h), NEW g, Rebinned(h, g)
  PROVE  Tiled(g) /\ Free(g) = Free(h) /\ Used(g) = Used(h)
BY DEF Tiled, Rebinned, Free, Used

LEMMA UnlinkedHeap ==
  ASSUME NEW h \in Heaps, NEW F, Binned(h, F), NEW p
  PROVE  LET g == unlink(h, p)
         IN /\ Rebinned(h, g) /\ Binned(g, F \ {p})
            /\ g.binblocks = h.binblocks
            /\ \A i \in 1 .. NAV - 1 : p \notin Listed(h.bins[i]) => g.bins[i] = h.bins[i]
            /\ \A i \in 1 .. NAV - 1 : Listed(g.bins[i]) = Listed(h.bins[i]) \ {p}
<1> DEFINE new == [i \in DOMAIN h.bins |-> Without(h.bins[i], p)]
<1>1. unlink(h, p) = [h EXCEPT !.bins = new]
  BY DEF unlink, Heaps
<1>2. /\ BinsFor(new, h.binblocks, h.chunks, F \ {p})
      /\ \A i \in 1 .. NAV - 1 : p \notin Listed(h.bins[i]) => new[i] = h.bins[i]
      /\ \A i \in 1 .. NAV - 1 : Listed(new[i]) = Listed(h.bins[i]) \ {p}
  BY Unlinked DEF Binned
<1> HIDE DEF new
<1>3. new \in [1 .. NAV - 1 -> Seq(Nat)]
  BY <1>2 DEF BinsFor
<1> DEFINE g == [h EXCEPT !.bins = new]
<1>4. Rebinned(h, g) /\ g.bins = new /\ g.binblocks = h.binblocks /\ g.chunks = h.chunks
  BY <1>3 DEF Rebinned, Heaps
<1> HIDE DEF g
<1>. QED BY <1>1, <1>2, <1>4 DEF g, Binned

LEMMA FrontedHeap ==
  ASSUME NEW h \in Heaps, NEW F, Binned(h, F), NEW p \in Nat, p \notin F, 0 \notin F,
         Sized(h.chunks, F \cup {p}), NEW size, size = h.chunks[p].size
  PROVE  LET g == frontlink(h, p, size)
         IN /\ Rebinned(h, g) /\ Binned(g, F \cup {p})
            /\ g.bins[last_remainder] = h.bins[last_remainder]
            /\ h.binblocks \subseteq g.binblocks
<1> DEFINE g == frontlink(h, p, h.chunks[p].size)
<1>1. /\ g = [h EXCEPT !.bins = g.bins, !.binblocks = g.binblocks]
      /\ BinsFor(g.bins, g.binblocks, h.chunks, F \cup {p})
      /\ g.bins[last_remainder] = h.bins[last_remainder]
      /\ g.binblocks \in SUBSET Int /\ h.binblocks \subseteq g.binblocks
  BY Fronted DEF Binned
<1> HIDE DEF g
<1>2. g.bins \in [1 .. NAV - 1 -> Seq(Nat)]
  BY <1>1 DEF BinsFor
<1>3. \A b, m, k : /\ b \in [1 .. NAV - 1 -> Seq(Nat)] /\ m \in SUBSET Int
                    /\ k = [h EXCEPT !.bins = b, !.binblocks = m]
                   => Rebinned(h, k) /\ k.chunks = h.chunks
  BY DEF Rebinned, Heaps
<1>4. Rebinned(h, g) /\ g.chunks = h.chunks
  BY <1>1, <1>2, <1>3
<1>. QED BY <1>1, <1>4 DEF g, Binned

LEMMA RemainderLinked ==
  ASSUME NEW h \in Heaps, NEW F, Binned(h, F), NEW p \in Nat,
         p \notin F \ Listed(h.bins[last_remainder])
  PROVE  LET g == link_last_remainder(h, p)
         IN /\ Rebinned(h, g) /\ g.bins[last_remainder] = <<p>> /\ g.binblocks = h.binblocks
            /\ Binned(g, (F \ Listed(h.bins[last_remainder])) \cup {p})
<1> DEFINE q == <<p>>
<1>1. /\ q \in Seq(Nat) /\ Len(q) = 1 /\ Listed(q) = {p} /\ Once(q)
      /\ \A c : Downwards(q, c)
  <2>1. q \in Seq(Nat) /\ Len(q) = 1 /\ q[1] = p
    OBVIOUS
  <2> HIDE DEF q
  <2>2. Listed(q) = {p}
    BY <2>1 DEF Listed
  <2>. QED BY <2>1, <2>2 DEF Once, Downwards
<1> HIDE DEF q
<1>2. last_remainder \in 1 .. NAV - 1 /\ 1 \in 1 .. NAV - 1
  BY Tables DEF last_remainder
<1>3. OneBin(last_remainder, q, h.binblocks, h.chunks)
  BY <1>1 DEF OneBin
<1> DEFINE new == [h.bins EXCEPT ![last_remainder] = q]
<1>4. BinsFor(new, h.binblocks, h.chunks, (F \ Listed(h.bins[last_remainder])) \cup {p})
  BY <1>1, <1>2, <1>3, BinReplaced DEF Binned
<1>5. new[last_remainder] = q
  BY <1>2 DEF Heaps
<1> HIDE DEF new
<1>6. new \in [1 .. NAV - 1 -> Seq(Nat)]
  BY <1>4 DEF BinsFor
<1> DEFINE g == [h EXCEPT !.bins = new]
<1>7. Rebinned(h, g) /\ g.bins = new /\ g.binblocks = h.binblocks /\ g.chunks = h.chunks
  BY <1>6 DEF Rebinned, Heaps
<1>8. link_last_remainder(h, p) = g
  BY DEF link_last_remainder, new, q, Heaps
<1> HIDE DEF g
<1>. QED BY <1>4, <1>5, <1>7, <1>8 DEF Binned, q

LEMMA RemainderCleared ==
  ASSUME NEW h \in Heaps, NEW F, Binned(h, F)
  PROVE  LET g == clear_last_remainder(h)
         IN /\ Rebinned(h, g) /\ g.bins[last_remainder] = <<>> /\ g.binblocks = h.binblocks
            /\ Binned(g, F \ Listed(h.bins[last_remainder]))
            /\ \A i \in 1 .. NAV - 1 : i # last_remainder => g.bins[i] = h.bins[i]
<1> DEFINE q == <<>>
<1>1. /\ q \in Seq(Nat) /\ Len(q) = 0 /\ Listed(q) = {} /\ Once(q)
      /\ \A c : Downwards(q, c)
  <2>1. q \in Seq(Nat) /\ Len(q) = 0
    OBVIOUS
  <2> HIDE DEF q
  <2>2. Listed(q) = {}
    BY <2>1 DEF Listed
  <2>. QED BY <2>1, <2>2 DEF Once, Downwards
<1> HIDE DEF q
<1>2. last_remainder \in 1 .. NAV - 1
  BY Tables DEF last_remainder
<1>3. OneBin(last_remainder, q, h.binblocks, h.chunks)
  BY <1>1 DEF OneBin
<1> DEFINE new == [h.bins EXCEPT ![last_remainder] = q]
<1>4. BinsFor(new, h.binblocks, h.chunks, (F \ Listed(h.bins[last_remainder])) \cup {})
  BY <1>1, <1>2, <1>3, BinReplaced DEF Binned
<1>4a. BinsFor(new, h.binblocks, h.chunks, F \ Listed(h.bins[last_remainder]))
  BY <1>4
<1>5. new[last_remainder] = q /\ \A i \in 1 .. NAV - 1 : i # last_remainder => new[i] = h.bins[i]
  BY <1>2 DEF Heaps
<1> HIDE DEF new
<1>6. new \in [1 .. NAV - 1 -> Seq(Nat)]
  BY <1>4 DEF BinsFor
<1> DEFINE g == [h EXCEPT !.bins = new]
<1>7. Rebinned(h, g) /\ g.bins = new /\ g.binblocks = h.binblocks /\ g.chunks = h.chunks
  BY <1>6 DEF Rebinned, Heaps
<1>8. clear_last_remainder(h) = g
  BY DEF clear_last_remainder, new, q, Heaps
<1> HIDE DEF g
<1>. QED BY <1>4a, <1>5, <1>7, <1>8 DEF Binned, q

(* The words from lo to hi become one free chunk.                          *)
MergeOf(h, lo, hi, size) == set_foot(set_head(h, lo, size, TRUE), hi, size)

LEMMA MergedChunk ==
  ASSUME NEW h, Tiled(h), NEW lo \in DOMAIN h.chunks, NEW hi \in DOMAIN h.chunks, lo < hi,
         h.chunks[lo].prev_inuse, hi # h.top, hi \notin Free(h), NEW size, size = hi - lo,
         NEW g, g = MergeOf(h, lo, hi, size)
  PROVE  /\ Alike(h, g) /\ Tiled(g) /\ Keeps(h, g, lo, hi) /\ lo \in DOMAIN g.chunks
         /\ g.chunks[lo].size = size
         /\ Free(g) = Outside(Free(h), lo, hi) \cup {lo}
         /\ Used(g) = Outside(Used(h), lo, hi)
<1> DEFINE g1 == set_head(h, lo, size, TRUE)
<1>0. g = set_foot(g1, hi, size)
  BY DEF MergeOf
<1>1. lo \in Nat /\ hi \in Nat /\ size \in Nat /\ lo + size = hi /\ h \in Heaps /\ DOMAIN h.chunks \subseteq Nat
  BY OfChunk, Fields DEF Tiled
<1>2. Alike(h, g1) /\ HeadIn(h.chunks, g1.chunks, lo, size, TRUE)
  BY <1>1, HeadSet
<1> HIDE DEF g1
<1>3. g1 \in Heaps /\ hi \in DOMAIN g1.chunks
  BY <1>1, <1>2 DEF HeadIn, Alike
<1>4. Alike(g1, g) /\ FootIn(g1.chunks, g.chunks, hi, size)
  BY <1>0, <1>1, <1>3, FootSet
<1>a. lo # hi /\ hi # lo /\ lo + size = hi
  BY <1>1
<1>b. /\ DOMAIN g.chunks = DOMAIN g1.chunks
      /\ \A q \in DOMAIN g.chunks : q # hi => g.chunks[q] = g1.chunks[q]
      /\ g.chunks[hi].size = g1.chunks[hi].size
      /\ ~g.chunks[hi].prev_inuse /\ g.chunks[hi].prev_size = size
  BY <1>4 DEF FootIn
<1>c. /\ DOMAIN g1.chunks = {q \in DOMAIN h.chunks : q <= lo \/ q >= hi}
      /\ \A q \in DOMAIN g1.chunks : q # lo => g1.chunks[q] = h.chunks[q]
      /\ g1.chunks[lo].size = size /\ g1.chunks[lo].prev_inuse = TRUE
  <2>1. {q \in DOMAIN h.chunks : q <= lo \/ q >= lo + size} \cup {lo} = {q \in DOMAIN h.chunks : q <= lo \/ q >= hi}
    BY <1>1
  <2>. QED BY <1>2, <2>1 DEF HeadIn
<1>5. Joined(h.chunks, g.chunks, lo, hi) /\ ~g.chunks[hi].prev_inuse /\ g.chunks[hi].prev_size = size
  <2>1. lo \in DOMAIN g.chunks /\ hi \in DOMAIN g.chunks
    BY <1>1, <1>b, <1>c
  <2>2. g.chunks[lo].size = size /\ g.chunks[lo].prev_inuse
    BY <1>a, <1>b, <1>c, <2>1
  <2>3. g.chunks[hi].size = h.chunks[hi].size
    BY <1>a, <1>b, <1>c, <2>1
  <2>. QED BY <1>b, <1>c, <2>2, <2>3 DEF Joined
<1>6. Alike(h, g)
  BY <1>2, <1>4, AlikeTwice
<1>7. FreeBefore(h, g.chunks, hi, hi - lo)
  BY <1>5 DEF FreeBefore
<1>8. /\ Tiled(g) /\ Keeps(h, g, lo, hi) /\ lo \in DOMAIN g.chunks
      /\ Free(g) = Outside(Free(h), lo, hi) \cup (IF g.chunks[hi].prev_inuse THEN {} ELSE {lo})
      /\ Used(g) = Outside(Used(h), lo, hi) \cup (IF g.chunks[hi].prev_inuse THEN {lo} ELSE {})
  BY <1>5, <1>6, <1>7, HeapJoined
<1>9. g.chunks[lo].size = size
  BY <1>5 DEF Joined
<1>. QED BY <1>5, <1>6, <1>8, <1>9
(* p is no more in use, and nothing else is.                               *)
Loses(h, g, p) ==
  /\ HeapOK(g) /\ Used(g) = Used(h) \ {p}
  /\ \A q \in Used(g) : g.chunks[q].size = h.chunks[q].size

LEMMA RebinnedTwice ==
  ASSUME NEW h, NEW g, NEW k, Rebinned(h, g), Rebinned(g, k)
  PROVE  Rebinned(h, k)
BY DEF Rebinned

LEMMA ListedOne ==
  ASSUME NEW p, NEW q, q = <<p>>
  PROVE  Listed(q) = {p}
<1>1. Len(q) = 1 /\ q[1] = p
  OBVIOUS
<1>. QED BY <1>1 DEF Listed

(* After the merge of q up to after, when the lists are those of F.        *)
LEMMA MergedRemainder ==
  ASSUME NEW h, Tiled(h), NEW lo \in DOMAIN h.chunks, NEW hi \in DOMAIN h.chunks, lo < hi,
         h.chunks[lo].prev_inuse, hi # h.top, hi \notin Free(h), NEW size, size = hi - lo,
         h.bins[last_remainder] = <<lo>>, Binned(h, Outside(Free(h), lo, hi) \cup {lo}),
         NEW m, m = MergeOf(h, lo, hi, size)
  PROVE  /\ HeapOK(m) /\ Keeps(h, m, lo, hi)
         /\ Used(m) = Outside(Used(h), lo, hi)
<1> DEFINE F == Outside(Free(h), lo, hi)
<1>1. /\ Alike(h, m) /\ Tiled(m) /\ Keeps(h, m, lo, hi)
      /\ Free(m) = F \cup {lo}
      /\ Used(m) = Outside(Used(h), lo, hi)
  BY MergedChunk
<1>2. \A p \in F : m.chunks[p].size = h.chunks[p].size
  BY <1>1, Apiece DEF Keeps, Outside
<1>3. Listed(m.bins[last_remainder]) = {lo}
  BY <1>1, ListedOne DEF Alike
<1>4. BinsFor(m.bins, m.binblocks, h.chunks, F \cup {lo})
  BY <1>1 DEF Binned, Alike
<1>5. \A p \in (F \cup {lo}) \ Listed(m.bins[last_remainder]) : m.chunks[p].size = h.chunks[p].size
  BY <1>2, <1>3
<1>6. BinsFor(m.bins, m.binblocks, m.chunks, F \cup {lo})
  BY <1>4, <1>5, SameSizes
<1>. QED BY <1>1, <1>6 DEF HeapOK, Binned

LEMMA MergedFronted ==
  ASSUME NEW h, Tiled(h), NEW lo \in DOMAIN h.chunks, NEW hi \in DOMAIN h.chunks, lo < hi,
         h.chunks[lo].prev_inuse, hi # h.top, hi \notin Free(h), NEW size, size = hi - lo,
         Binned(h, Outside(Free(h), lo, hi)),
         NEW m, m = MergeOf(h, lo, hi, size), NEW k, k = frontlink(m, lo, size)
  PROVE  /\ HeapOK(k) /\ Keeps(h, k, lo, hi)
         /\ Used(k) = Outside(Used(h), lo, hi)
<1> DEFINE F == Outside(Free(h), lo, hi)
<1>1. /\ Alike(h, m) /\ Tiled(m) /\ Keeps(h, m, lo, hi)
      /\ m.chunks[lo].size = size
      /\ Free(m) = F \cup {lo}
      /\ Used(m) = Outside(Used(h), lo, hi)
  BY MergedChunk
<1>2. \A p \in F : m.chunks[p].size = h.chunks[p].size
  BY <1>1, Apiece DEF Keeps, Outside
<1>3. lo \in Nat /\ m \in Heaps /\ lo \notin F
  <2>1. lo \in Nat /\ hi \in Nat
    BY OfChunk
  <2>. QED BY <1>1, <2>1 DEF Alike, Outside
<1>4. BinsFor(m.bins, m.binblocks, h.chunks, F)
  BY <1>1 DEF Binned, Alike
<1>5. Binned(m, F)
  BY <1>2, <1>4, SameSizes DEF Binned
<1>6. 0 \notin F /\ Sized(m.chunks, F \cup {lo})
  BY <1>1, Apiece
<1>7. Rebinned(m, k) /\ Binned(k, F \cup {lo})
  BY <1>1, <1>3, <1>5, <1>6, FrontedHeap
<1>8. Tiled(k) /\ Free(k) = Free(m) /\ Used(k) = Used(m) /\ k.chunks = m.chunks
  BY <1>1, <1>7, RebinnedTiled DEF Rebinned
<1>. QED BY <1>1, <1>7, <1>8 DEF HeapOK, Keeps

LEMMA FreedIntoBin ==
  ASSUME NEW h, HeapOK(h), NEW p \in Used(h), After(h.chunks, p) # h.top
  PROVE  Loses(h, FreeIntoBin(h, p), p)
<1> DEFINE c == h.chunks
           next == p + chunksize(h, p)
           back == ~prev_inuse(h, p)
           ahead == ~inuse(h, next)
           q == IF back THEN prev_chunk(h, p) ELSE p
           after == IF ahead THEN next + chunksize(h, next) ELSE next
           size == after - q
           backlr == back /\ IsLastRemainder(h, q)
           aheadlr == ahead /\ ~backlr /\ IsLastRemainder(h, next)
           apart1 == IF back /\ ~backlr THEN unlink(h, q) ELSE h
           apart2 == IF ahead /\ ~aheadlr THEN unlink(apart1, next) ELSE apart1
           relinked == IF aheadlr THEN link_last_remainder(apart2, q) ELSE apart2
           m == MergeOf(relinked, q, after, size)
           g == IF backlr \/ aheadlr THEN m ELSE frontlink(m, q, size)
           B == IF back THEN {q} ELSE {}
           A == IF ahead THEN {next} ELSE {}
           F == Free(h) \ (B \cup A)
<1>0. FreeIntoBin(h, p) = g
  BY DEF FreeIntoBin, MergeOf
<1>1. Tiled(h) /\ Binned(h, Free(h)) /\ h \in Heaps
  BY DEF HeapOK, Tiled
<1>2. p \in DOMAIN c /\ p \notin Free(h) /\ p # h.top
  BY <1>1, Apiece
<1>4. /\ next = After(c, p) /\ next \in DOMAIN c /\ next # h.top /\ p < next /\ p \in Nat /\ next \in Nat
  BY <1>1, <1>2, OfChunk
<1>5. /\ next + chunksize(h, next) = After(c, next) /\ After(c, next) \in DOMAIN c /\ next < After(c, next)
      /\ ahead <=> next \in Free(h)
  BY <1>1, <1>4, OfChunk DEF inuse, prev_inuse
<1>6. back => /\ q \in DOMAIN c /\ q \in Free(h) /\ After(c, q) = p /\ q < p /\ c[q].prev_inuse
  BY <1>1, <1>2, OfChunk DEF prev_inuse, prev_chunk
<1>7. ~back => q = p /\ c[q].prev_inuse
  BY <1>1, <1>2, OfChunk DEF prev_inuse
<1>8. /\ ahead => after = After(c, next)
      /\ ~ahead => after = next
  BY <1>5
<1>9. after \in DOMAIN c /\ after # h.top /\ after \notin Free(h)
  <2>1. CASE ahead
    <3>1. next \in Free(h) /\ ~c[After(c, next)].prev_inuse
      BY <1>1, <1>4, <1>5, <2>1, OfChunk
    <3>. QED BY <1>1, <1>5, <1>8, <2>1, <3>1, OfChunk
  <2>2. CASE ~ahead
    BY <1>4, <1>5, <1>8, <2>2
  <2>. QED BY <2>1, <2>2
<1> HIDE DEF next, back, ahead, q, after, size, backlr, aheadlr
<1>10. q \in DOMAIN c /\ q < after /\ c[q].prev_inuse /\ q # next /\ q \in Nat
  <2>1. after >= next /\ after \in Nat
    BY <1>1, <1>4, <1>5, <1>8, <1>9, OfChunk
  <2>2. q \in DOMAIN c /\ q \in Nat /\ q <= p
    BY <1>1, <1>2, <1>4, <1>6, <1>7, OfChunk
  <2>. QED BY <1>4, <1>6, <1>7, <2>1, <2>2
<1>11. /\ Outside(Free(h), q, after) = F
       /\ Outside(Used(h), q, after) = Used(h) \ {p}
  <2>0. Free(h) \subseteq DOMAIN c /\ Used(h) \subseteq DOMAIN c /\ Free(h) \cap Used(h) = {}
    BY <1>1, Apiece
  <2>1. CASE back /\ ahead
    <3>1. \A S : S \subseteq DOMAIN c => Outside(S, q, after) = S \ {q, p, next}
      BY <1>1, <1>2, <1>4, <1>6, <1>8, <2>1, SpanThree
    <3>. QED BY <1>2, <1>5, <1>6, <2>0, <2>1, <3>1
  <2>2. CASE back /\ ~ahead
    <3>1. \A S : S \subseteq DOMAIN c => Outside(S, q, after) = S \ {q, p}
      BY <1>1, <1>2, <1>4, <1>6, <1>8, <2>2, SpanTwo
    <3>. QED BY <1>2, <1>6, <2>0, <2>2, <3>1
  <2>3. CASE ~back /\ ahead
    <3>1. \A S : S \subseteq DOMAIN c => Outside(S, q, after) = S \ {p, next}
      BY <1>1, <1>2, <1>4, <1>7, <1>8, <2>3, SpanTwo
    <3>. QED BY <1>2, <1>5, <2>0, <2>3, <3>1
  <2>4. CASE ~back /\ ~ahead
    <3>1. \A S : S \subseteq DOMAIN c => Outside(S, q, after) = S \ {p}
      BY <1>1, <1>2, <1>4, <1>7, <1>8, <2>4, Span
    <3>. QED BY <1>2, <2>0, <2>4, <3>1
  <2>. QED BY <2>1, <2>2, <2>3, <2>4
<1>12. last_remainder \in 1 .. NAV - 1
  BY Tables DEF last_remainder
<1>13. /\ Rebinned(h, apart1) /\ Binned(apart1, Free(h) \ (IF back /\ ~backlr THEN {q} ELSE {}))
       /\ q \notin Listed(h.bins[last_remainder]) => apart1.bins[last_remainder] = h.bins[last_remainder]
       /\ ~(back /\ ~backlr) => apart1 = h
  <2>1. CASE back /\ ~backlr
    BY <1>1, <1>12, <2>1, UnlinkedHeap
  <2>2. CASE ~(back /\ ~backlr)
    <3>1. Rebinned(h, h)
      BY <1>1 DEF Rebinned
    <3>2. Free(h) \ {} = Free(h)
      OBVIOUS
    <3>. QED BY <1>1, <2>2, <3>1, <3>2
  <2>. QED BY <2>1, <2>2
<1> HIDE DEF apart1
<1>14. CASE aheadlr
  <2>1. ahead /\ ~backlr /\ h.bins[last_remainder] = <<next>>
    BY <1>14 DEF aheadlr, IsLastRemainder
  <2>2. Listed(h.bins[last_remainder]) = {next}
    BY <2>1, ListedOne
  <2>3. apart1.bins[last_remainder] = h.bins[last_remainder] /\ apart1 \in Heaps
    BY <1>10, <1>13, <2>2 DEF Rebinned
  <2>4. Binned(apart1, Free(h) \ B)
    BY <1>13, <2>1
  <2>5. apart2 = apart1 /\ relinked = link_last_remainder(apart1, q)
    BY <1>14
  <2>6. q \notin (Free(h) \ B) \ {next}
    BY <1>2, <1>7
  <2>7. /\ Rebinned(apart1, relinked) /\ relinked.bins[last_remainder] = <<q>>
        /\ Binned(relinked, ((Free(h) \ B) \ {next}) \cup {q})
    BY <1>10, <2>2, <2>3, <2>4, <2>5, <2>6, RemainderLinked
  <2> HIDE DEF relinked
  <2>8. ((Free(h) \ B) \ {next}) \cup {q} = F \cup {q}
    BY <2>1
  <2>9. Rebinned(h, relinked)
    BY <1>13, <2>7, RebinnedTwice
  <2>10. /\ Tiled(relinked) /\ Free(relinked) = Free(h) /\ Used(relinked) = Used(h)
         /\ relinked.chunks = c /\ relinked.top = h.top
    BY <1>1, <2>9, RebinnedTiled DEF Rebinned
  <2>12. g = m
    BY <1>14
  <2> HIDE DEF g
  <2>11. HeapOK(m) /\ Keeps(relinked, m, q, after) /\ Used(m) = Outside(Used(relinked), q, after)
    <3>2. m = MergeOf(relinked, q, after, size) /\ size = after - q
      BY DEF size
    <3> HIDE DEF m
    <3>3. Binned(relinked, Outside(Free(relinked), q, after) \cup {q})
      BY <1>11, <2>7, <2>8, <2>10
    <3>. QED BY <1>9, <1>10, <2>7, <2>10, <3>2, <3>3, MergedRemainder
  <2> HIDE DEF m
  <2>13. \A x \in Used(m) : m.chunks[x].size = c[x].size
    BY <1>1, <2>10, <2>11, Apiece DEF Keeps, Outside
  <2>. QED BY <1>0, <1>11, <2>10, <2>11, <2>12, <2>13 DEF Loses
<1>15. CASE ~aheadlr
  <2>1. relinked = apart2
    BY <1>15
  <2>2. /\ Rebinned(apart1, apart2)
        /\ Binned(apart2, (Free(h) \ (IF back /\ ~backlr THEN {q} ELSE {})) \ A)
        /\ next \notin Listed(apart1.bins[last_remainder]) => apart2.bins[last_remainder] = apart1.bins[last_remainder]
    <3>1. CASE ahead
      <4> DEFINE F1 == Free(h) \ (IF back /\ ~backlr THEN {q} ELSE {})
      <4>1. apart1 \in Heaps /\ Binned(apart1, F1) /\ apart2 = unlink(apart1, next)
        BY <1>13, <1>15, <3>1 DEF Rebinned
      <4> HIDE DEF F1, apart2
      <4>2. /\ Rebinned(apart1, apart2) /\ Binned(apart2, F1 \ {next})
            /\ next \notin Listed(apart1.bins[last_remainder]) => apart2.bins[last_remainder] = apart1.bins[last_remainder]
        BY <1>12, <4>1, UnlinkedHeap
      <4>. QED BY <3>1, <4>2 DEF F1
    <3>2. CASE ~ahead
      <4>1. Rebinned(apart1, apart1)
        BY <1>13 DEF Rebinned
      <4>2. \A S : S \ {} = S
        OBVIOUS
      <4>. QED BY <1>13, <3>2, <4>1, <4>2
    <3>. QED BY <3>1, <3>2
  <2> HIDE DEF apart2
  <2>3. Rebinned(h, apart2)
    BY <1>13, <2>2, RebinnedTwice
  <2>4. /\ Tiled(apart2) /\ Free(apart2) = Free(h) /\ Used(apart2) = Used(h)
        /\ apart2.chunks = c /\ apart2.top = h.top
    BY <1>1, <2>3, RebinnedTiled DEF Rebinned
  <2>5. backlr => /\ apart2.bins[last_remainder] = <<q>> /\ Binned(apart2, F \cup {q})
    <3> SUFFICES ASSUME backlr PROVE apart2.bins[last_remainder] = <<q>> /\ Binned(apart2, F \cup {q})
      OBVIOUS
    <3>1. back /\ h.bins[last_remainder] = <<q>> /\ apart1 = h
      BY <1>13 DEF backlr, IsLastRemainder
    <3>2. Listed(h.bins[last_remainder]) = {q}
      BY <3>1, ListedOne
    <3>3. (Free(h) \ (IF back /\ ~backlr THEN {q} ELSE {})) \ A = F \cup {q}
      BY <1>6, <1>10, <3>1
    <3>. QED BY <1>10, <2>2, <3>1, <3>2, <3>3
  <2>6. ~backlr => Binned(apart2, F)
    <3>1. ~backlr => (Free(h) \ (IF back /\ ~backlr THEN {q} ELSE {})) \ A = F
      OBVIOUS
    <3>. QED BY <2>2, <3>1
  <2> DEFINE k == IF backlr THEN m ELSE frontlink(m, q, size)
  <2>7. HeapOK(k) /\ Keeps(apart2, k, q, after) /\ Used(k) = Outside(Used(apart2), q, after)
    <3>1. m = MergeOf(apart2, q, after, size) /\ size = after - q
      BY <2>1 DEF size
    <3> HIDE DEF m
    <3>2. CASE backlr
      <4>1. Binned(apart2, Outside(Free(apart2), q, after) \cup {q}) /\ apart2.bins[last_remainder] = <<q>>
        BY <1>11, <2>4, <2>5, <3>2
      <4>2. k = m
        BY <3>2
      <4> HIDE DEF k
      <4>. QED BY <1>9, <1>10, <2>4, <3>1, <4>1, <4>2, MergedRemainder
    <3>3. CASE ~backlr
      <4>1. Binned(apart2, Outside(Free(apart2), q, after))
        BY <1>11, <2>4, <2>6, <3>3
      <4>2. k = frontlink(m, q, size)
        BY <3>3
      <4> HIDE DEF k
      <4>. QED BY <1>9, <1>10, <2>4, <3>1, <4>1, <4>2, MergedFronted
    <3>. QED BY <3>2, <3>3
  <2>8. g = k
    BY <1>15
  <2> HIDE DEF m, g, k
  <2>13. \A x \in Used(k) : k.chunks[x].size = c[x].size
    BY <1>1, <2>4, <2>7, Apiece DEF Keeps, Outside
  <2>. QED BY <1>0, <1>11, <2>4, <2>7, <2>8, <2>13 DEF Loses
<1>. QED BY <1>14, <1>15-----------------------------------------------------------------------------
TopReady(h, k, size) ==
  /\ k \in Heaps /\ k.chunks = h.chunks /\ k.stale = {}
  /\ k.top \in DOMAIN h.chunks /\ h.chunks[k.top].prev_inuse
  /\ size >= MINSIZE /\ k.brk = k.top + size /\ k.brk <= End
  /\ \A x \in DOMAIN h.chunks : x < k.top + size
  /\ BinsFor(k.bins, k.binblocks, h.chunks, Below(Free(h), k.top))

(* A heap h whose top has been made anew, of size words, where k has it.   *)
TopMade(h, k, g, size) ==
  /\ HeapOK(g) /\ Alike(k, g)
  /\ Used(g) = Below(Used(h), k.top) /\ Free(g) = Below(Free(h), k.top)
  /\ \A p \in DOMAIN h.chunks : p < k.top => g.chunks[p].size = h.chunks[p].size
  /\ g.top = k.top /\ g.chunks[g.top].size = size

TopSet(k, g, size) == Alike(k, g) /\ HeadIn(k.chunks, g.chunks, k.top, size, TRUE)

LEMMA TopAnew ==
  ASSUME NEW h, Tiled(h), NEW k, NEW size \in Nat, TopReady(h, k, size),
         NEW g, TopSet(k, g, size)
  PROVE  TopMade(h, k, g, size)
<1>1. k.top \in Nat /\ DOMAIN h.chunks \subseteq Nat
  BY Fields DEF Tiled, TopReady
<1>3. g \in Heaps /\ g.stale = {} /\ g.brk = k.brk /\ g.top = k.top
      /\ g.bins = k.bins /\ g.binblocks = k.binblocks
  BY DEF Alike, TopSet, TopReady
<1>4. /\ DOMAIN g.chunks = {q \in DOMAIN h.chunks : q <= g.top}
      /\ \A q \in DOMAIN g.chunks : q # g.top => g.chunks[q] = h.chunks[q]
      /\ g.chunks[g.top].prev_inuse /\ g.chunks[g.top].size = size
  <2>1. {q \in DOMAIN h.chunks : q <= k.top \/ q >= k.top + size} \cup {k.top} = {q \in DOMAIN h.chunks : q <= k.top}
    BY <1>1 DEF TopReady
  <2>. QED BY <1>3, <2>1 DEF HeadIn, TopSet, TopReady
<1>5. After(g.chunks, g.top) = g.brk
  BY <1>3, <1>4 DEF After, TopReady
<1>6. TopOnly(h, g)
  BY <1>3, <1>4, <1>5 DEF TopOnly, TopReady
<1>7. /\ Tiled(g)
      /\ Free(g) = Below(Free(h), g.top)
      /\ Used(g) = Below(Used(h), g.top)
      /\ \A p \in DOMAIN h.chunks : p < g.top => g.chunks[p].size = h.chunks[p].size
  BY <1>6, HeapTop
<1>8. BinsFor(g.bins, g.binblocks, g.chunks, Free(g))
  <2>1. \A p \in Free(g) : g.chunks[p].size = h.chunks[p].size
    BY <1>7, Apiece DEF Below
  <2>2. BinsFor(k.bins, k.binblocks, h.chunks, Below(Free(h), k.top))
    BY DEF TopReady
  <2>3. BinsFor(g.bins, g.binblocks, h.chunks, Free(g))
    BY <1>3, <1>7, <2>2
  <2>. QED BY <2>1, <2>3, SameSizes
<1>9. Alike(k, g)
  BY DEF TopSet
<1>. QED BY <1>3, <1>4, <1>7, <1>8, <1>9 DEF HeapOK, Binned, TopMade

LEMMA TopHead ==
  ASSUME NEW h, Tiled(h), NEW k, NEW size \in Nat, TopReady(h, k, size)
  PROVE  TopMade(h, k, set_head(k, k.top, size, TRUE), size)
<1> DEFINE g == set_head(k, k.top, size, TRUE)
<1>1. k.top \in Nat /\ k \in Heaps
  BY Fields DEF TopReady
<1>2. Alike(k, g) /\ HeadIn(k.chunks, g.chunks, k.top, size, TRUE)
  BY <1>1, HeadSet
<1> HIDE DEF g
<1>3. TopSet(k, g, size)
  BY <1>2 DEF TopSet
<1>4. TopMade(h, k, g, size)
  BY <1>3, TopAnew
<1>. QED BY <1>4 DEF g

LEMMA BelowTop ==
  ASSUME NEW h, Tiled(h)
  PROVE  /\ \A p \in Free(h) \cup Used(h) : p < h.top
         /\ Below(Free(h), h.top) = Free(h) /\ Below(Used(h), h.top) = Used(h)
<1>1. ASSUME NEW p \in Free(h) \cup Used(h) PROVE p < h.top
  <2>1. p \in DOMAIN h.chunks /\ p # h.top
    BY Apiece
  <2>2. p \in Nat /\ p <= h.top /\ h.top \in Nat
    BY <2>1, OfChunk, Fields DEF Tiled
  <2>. QED BY <2>1, <2>2
<1>. QED BY <1>1 DEF Below

(* The top chunk of a heap that has one.                                   *)
LEMMA OfTop ==
  ASSUME NEW h, Tiled(h), h.top # null
  PROVE  /\ h.top \in DOMAIN h.chunks /\ h.top \in Nat /\ h.chunks[h.top].prev_inuse
         /\ chunksize(h, h.top) = h.chunks[h.top].size /\ h.chunks[h.top].size \in Nat
         /\ h.brk = h.top + h.chunks[h.top].size /\ h.brk \in Nat
         /\ h.chunks[h.top].size >= MINSIZE /\ h.top % 2 = 0 /\ h.top >= Start
         /\ \A x \in DOMAIN h.chunks : x \in Nat /\ x <= h.top /\ x < h.brk
<1>1. h.top \in DOMAIN h.chunks /\ After(h.chunks, h.top) = h.brk
  BY DEF Tiled, Tiles
<1>2. \A x \in DOMAIN h.chunks : x \in Nat /\ x <= h.top /\ x < After(h.chunks, x) /\ After(h.chunks, x) <= h.brk
                                 /\ After(h.chunks, x) \in Nat
  BY OfChunk
<1>3. h.brk \in Nat
  BY Fields DEF Tiled
<1>. QED BY <1>1, <1>2, <1>3, OfChunk DEF After

LEMMA Quotient ==
  ASSUME NEW a \in Int, NEW n \in Nat \ {0}
  PROVE  /\ a \div n \in Int /\ (a \div n) * n \in Int /\ (a \div n) * n <= a
<1>1. a = (a \div n) * n + (a % n) /\ (a % n) \in 0 .. n - 1 /\ a \div n \in Int
  BY SMT
<1> DEFINE m == (a \div n) * n
<1>3. m \in Int
  BY <1>1
<1> HIDE DEF m
<1>4. a = m + (a % n)
  BY <1>1 DEF m
<1>5. m <= a
  BY <1>1, <1>3, <1>4
<1>. QED BY <1>1, <1>3, <1>5 DEF m

(* Nothing but top and the break changes.                                  *)
Kept(h, g) ==
  /\ HeapOK(g) /\ Used(g) = Used(h)
  /\ \A q \in Used(g) : g.chunks[q].size = h.chunks[q].size

LEMMA Trimmed ==
  ASSUME NEW h, HeapOK(h), h.top # null
  PROVE  Kept(h, malloc_trim(h, TopPad))
<1> DEFINE size == chunksize(h, h.top)
           a == size - TopPad - MINSIZE + PageSize - 1
           extra == (a \div PageSize - 1) * PageSize
           k == sbrk(h, -extra)
           g == set_head(k, h.top, size - extra, TRUE)
<1>1. Tiled(h) /\ h \in Heaps /\ Binned(h, Free(h))
  BY DEF HeapOK, Tiled
<1>2. malloc_trim(h, TopPad) = IF extra < PageSize \/ h.brk # h.top + size THEN h ELSE g
  BY DEF malloc_trim
<1>3. PageSize \in Nat \ {0} /\ TopPad \in Nat
  BY MallocAssumption
<1>4. /\ h.top \in DOMAIN h.chunks /\ h.top \in Nat /\ h.chunks[h.top].prev_inuse
      /\ size = h.chunks[h.top].size /\ size \in Nat /\ h.brk = h.top + size /\ h.brk \in Nat
      /\ \A x \in DOMAIN h.chunks : x \in Nat /\ x <= h.top
  BY <1>1, OfTop
<1> HIDE DEF size
<1>5. a \in Int
  BY <1>3, <1>4 DEF MINSIZE
<1> HIDE DEF a
<1>6. extra \in Int /\ extra <= a - PageSize
  <2> DEFINE m == (a \div PageSize) * PageSize
  <2>1. a \div PageSize \in Int /\ m \in Int /\ m <= a
    BY <1>3, <1>5, Quotient
  <2>2. extra = m - PageSize
    BY <1>3, <2>1
  <2> HIDE DEF m, extra
  <2>. QED BY <1>3, <1>5, <2>1, <2>2
<1> HIDE DEF extra
<1>7. CASE extra < PageSize
  BY <1>1, <1>2, <1>7 DEF Kept
<1>8. CASE ~(extra < PageSize)
  <2>1. extra > 0 /\ size - extra \in Nat /\ size - extra >= MINSIZE /\ -extra < 0 /\ h.brk + (-extra) = h.top + (size - extra)
    BY <1>3, <1>4, <1>6, <1>8 DEF a, MINSIZE
  <2>2. /\ k \in Heaps /\ k.chunks = h.chunks /\ k.stale = {} /\ k.top = h.top /\ k.bins = h.bins
        /\ k.binblocks = h.binblocks /\ k.brk = h.top + (size - extra)
    <3>1. h.stale = {}
      BY <1>1 DEF Tiled
    <3> DEFINE s == IF -extra < 0 THEN h.stale \ (h.brk + (-extra) .. h.brk - 1)
                                 ELSE h.stale \ (h.brk .. h.brk + (-extra) - 1)
    <3>2. s = {}
      BY <3>1
    <3>3. k = [h EXCEPT !.brk = h.brk + (-extra), !.stale = s]
      BY <1>1 DEF sbrk, Heaps
    <3> HIDE DEF s, k
    <3>4. h.brk + (-extra) \in Nat
      BY <1>4, <2>1
    <3>. QED BY <1>1, <2>1, <3>2, <3>3, <3>4 DEF Heaps
  <2> HIDE DEF k
  <2>3. BinsFor(k.bins, k.binblocks, h.chunks, Below(Free(h), k.top))
    BY <1>1, <2>2, BelowTop DEF Binned
  <2>4. \A x \in DOMAIN h.chunks : x < k.top + (size - extra)
    BY <1>4, <2>1, <2>2 DEF MINSIZE
  <2>5. k.brk <= End
    <3>1. h.brk <= End /\ End \in Nat
      BY <1>1, MallocAssumption DEF Tiled
    <3>. QED BY <1>4, <1>6, <2>1, <2>2, <3>1
  <2>6. /\ HeapOK(g)
        /\ Used(g) = Below(Used(h), k.top)
        /\ \A p \in DOMAIN h.chunks : p < k.top => g.chunks[p].size = h.chunks[p].size
    <3>1. g = set_head(k, k.top, size - extra, TRUE)
      BY <2>2
    <3>2. TopReady(h, k, size - extra)
      BY <1>4, <2>1, <2>2, <2>3, <2>4, <2>5 DEF TopReady
    <3> DEFINE left == size - extra
    <3>3. left \in Nat /\ TopReady(h, k, left)
      BY <2>1, <3>2
    <3> HIDE DEF left
    <3>4. TopMade(h, k, set_head(k, k.top, left, TRUE), left)
      BY <1>1, <3>3, TopHead
    <3>5. TopMade(h, k, g, left)
      BY <3>1, <3>4 DEF left
    <3> HIDE DEF g
    <3>. QED BY <3>5 DEF TopMade
  <2>7. malloc_trim(h, TopPad) = g
    BY <1>2, <1>4, <1>8
  <2> HIDE DEF g
  <2>8. Used(g) = Used(h) /\ \A p \in Used(h) : g.chunks[p].size = h.chunks[p].size
    BY <1>1, <2>2, <2>6, BelowTop, Apiece
  <2>. QED BY <2>6, <2>7, <2>8 DEF Kept
<1>. QED BY <1>7, <1>8

LEMMA FreedIntoTop ==
  ASSUME NEW h, HeapOK(h), NEW p \in Used(h), After(h.chunks, p) = h.top
  PROVE  Loses(h, FreeIntoTop(h, p), p)
<1> DEFINE c == h.chunks
           alone == prev_inuse(h, p)
           q == IF alone THEN p ELSE prev_chunk(h, p)
           size == h.top + chunksize(h, h.top) - q
           u == unlink(h, q)
           k == [u EXCEPT !.top = q]
           m == set_head(k, q, size, TRUE)
<1>1. Tiled(h) /\ h \in Heaps /\ Binned(h, Free(h))
  BY DEF HeapOK, Tiled
<1>2. p \in DOMAIN c /\ p \notin Free(h) /\ p # h.top /\ p < h.top /\ p \in Nat /\ h.top # null
  <2>1. p \in DOMAIN c /\ p \notin Free(h) /\ p # h.top
    BY <1>1, Apiece
  <2>. QED BY <1>1, <2>1, BelowTop, OfChunk
<1>3. /\ h.top \in DOMAIN c /\ h.top \in Nat /\ h.brk = h.top + chunksize(h, h.top) /\ h.brk \in Nat
      /\ chunksize(h, h.top) \in Nat /\ chunksize(h, h.top) >= MINSIZE
      /\ \A x \in DOMAIN c : x \in Nat /\ x < h.brk
  BY <1>1, <1>2, OfTop
<1>4. alone => q = p /\ c[q].prev_inuse
  BY DEF prev_inuse
<1>5. ~alone => /\ q \in DOMAIN c /\ q \in Free(h) /\ After(c, q) = p /\ q < p /\ c[q].prev_inuse
  BY <1>1, <1>2, OfChunk DEF prev_inuse, prev_chunk
<1>6. /\ q \in DOMAIN c /\ q \in Nat /\ c[q].prev_inuse /\ q <= p
      /\ Below(Free(h), q) = Free(h) \ {q}
      /\ Below(Used(h), q) = Used(h) \ {p}
  <2>1. q \in DOMAIN c /\ c[q].prev_inuse /\ q <= p /\ q \in Nat
    BY <1>1, <1>2, <1>4, <1>5, OfChunk
  <2>2. \A x \in DOMAIN c : x \in Nat /\ (x <= p \/ x >= h.top) /\ (~alone => x <= q \/ x >= p)
    BY <1>1, <1>2, <1>5, OfChunk
  <2>3. \A x \in Free(h) \cup Used(h) : x \in DOMAIN c /\ x < h.top
    BY <1>1, Apiece, BelowTop
  <2>4. \A x \in Free(h) \cup Used(h) : x < q \/ x = q \/ x = p
    BY <1>2, <1>3, <1>4, <2>1, <2>2, <2>3
  <2>5. Below(Free(h), q) = Free(h) \ {q}
    BY <1>2, <2>1, <2>4 DEF Below
  <2>6. ~alone => q \notin Used(h)
    BY <1>1, <1>5, Apiece
  <2>7. Below(Used(h), q) = Used(h) \ {p}
    BY <1>2, <1>4, <2>1, <2>4, <2>6 DEF Below
  <2>. QED BY <2>1, <2>5, <2>7
<1> HIDE DEF alone, q
<1>7. /\ Rebinned(h, u) /\ Binned(u, Free(h) \ {q})
  BY <1>1, UnlinkedHeap
<1> HIDE DEF u
<1>8. /\ k \in Heaps /\ k.chunks = c /\ k.stale = {} /\ k.top = q /\ k.brk = h.brk
      /\ k.bins = u.bins /\ k.binblocks = u.binblocks
  <2>1. u \in Heaps /\ u.chunks = c /\ u.stale = {} /\ u.brk = h.brk
    BY <1>1, <1>7 DEF Rebinned, Tiled
  <2>. QED BY <1>6, <2>1 DEF Heaps
<1> HIDE DEF k
<1>9. size \in Nat /\ size >= MINSIZE /\ k.brk = k.top + size
  <2>1. size = h.brk - q /\ q < h.top
    BY <1>2, <1>3, <1>6
  <2>. QED BY <1>3, <1>6, <1>8, <2>1 DEF MINSIZE
<1> HIDE DEF size
<1>10. BinsFor(k.bins, k.binblocks, c, Below(Free(h), k.top))
  BY <1>6, <1>7, <1>8 DEF Binned, Rebinned
<1>11. /\ HeapOK(m) /\ Alike(k, m)
       /\ Used(m) = Below(Used(h), k.top)
       /\ \A x \in DOMAIN c : x < k.top => m.chunks[x].size = c[x].size
  <2>1. m = set_head(k, k.top, size, TRUE)
    BY <1>8
  <2>2. k.brk <= End
    BY <1>1, <1>8 DEF Tiled
  <2>3. \A x \in DOMAIN h.chunks : x < k.top + size
    BY <1>3, <1>8, <1>9
  <2>4. TopReady(h, k, size)
    BY <1>6, <1>8, <1>9, <1>10, <2>2, <2>3 DEF TopReady
  <2>5. TopMade(h, k, set_head(k, k.top, size, TRUE), size)
    BY <1>1, <1>9, <2>4, TopHead
  <2>6. TopMade(h, k, m, size)
    BY <2>1, <2>5
  <2> HIDE DEF m
  <2>. QED BY <2>6 DEF TopMade
<1>12. FreeIntoTop(h, p) = IF size >= TrimThreshold THEN malloc_trim(m, TopPad) ELSE m
  BY DEF FreeIntoTop, alone, q, size, u, k
<1> HIDE DEF m
<1>13. Kept(m, malloc_trim(m, TopPad)) /\ Kept(m, m)
  <2>1. m.top # null
    BY <1>2, <1>6, <1>8, <1>11, <1>1, OfChunk DEF Alike
  <2>. QED BY <1>11, <2>1, Trimmed DEF Kept
<1>14. Used(m) = Used(h) \ {p} /\ \A x \in Used(m) : m.chunks[x].size = c[x].size
  BY <1>1, <1>6, <1>8, <1>11, Apiece DEF Below
<1>15. \A g : Kept(m, g) => Loses(h, g, p)
  BY <1>14 DEF Kept, Loses
<1>. QED BY <1>12, <1>13, <1>15

(* fREe() takes the chunk of the block away, and that only.                *)
LEMMA Freed ==
  ASSUME NEW h, HeapOK(h), NEW p \in Used(h), NEW mem, mem2chunk(mem) = p
  PROVE  Loses(h, fREe(h, mem), p)
<1>1. p \in DOMAIN h.chunks /\ Tiled(h)
  BY Apiece DEF HeapOK
<1>2. p + chunksize(h, p) = After(h.chunks, p)
  BY <1>1, OfChunk
<1>. QED BY <1>2, FreedIntoTop, FreedIntoBin DEF fREe-----------------------------------------------------------------------------
(* p comes into use, with at least nb words, and nothing else changes.     *)
Gains(h, g, p, nb) ==
  /\ HeapOK(g) /\ Used(g) = Used(h) \cup {p} /\ p \notin Used(h) /\ g.chunks[p].size >= nb
  /\ \A q \in Used(h) : g.chunks[q].size = h.chunks[q].size
  /\ p = h.top => g.top = After(g.chunks, p)

(* The header of a chunk is written with a use bit that says in use.       *)
LEMMA InUseSet ==
  ASSUME NEW h, Tiled(h), NEW hi \in DOMAIN h.chunks, NEW g, g = set_inuse_bit_at(h, hi)
  PROVE  /\ Alike(h, g) /\ DOMAIN g.chunks = DOMAIN h.chunks
         /\ \A q \in DOMAIN h.chunks : q # hi => g.chunks[q] = h.chunks[q]
         /\ g.chunks[hi].prev_inuse /\ g.chunks[hi].size = h.chunks[hi].size
<1> DEFINE size == h.chunks[hi].size
           k == set_head(h, hi, size, TRUE)
<1>1. hi \in Nat /\ size \in Nat /\ chunksize(h, hi) = size /\ h \in Heaps
  BY OfChunk DEF Tiled
<1>2. g = k
  BY <1>1 DEF set_inuse_bit_at
<1>3. \A q \in DOMAIN h.chunks : q <= hi \/ q >= hi + size
  BY <1>1, OfChunk DEF After
<1> HIDE DEF size
<1>4. Alike(h, k) /\ HeadIn(h.chunks, k.chunks, hi, size, TRUE)
  BY <1>1, HeadSet
<1> HIDE DEF k
<1>5. Alike(h, g) /\ HeadIn(h.chunks, g.chunks, hi, size, TRUE)
  BY <1>2, <1>4
<1>6. {q \in DOMAIN h.chunks : q <= hi \/ q >= hi + size} \cup {hi} = DOMAIN h.chunks
  BY <1>3
<1>. QED BY <1>5, <1>6 DEF HeadIn, size

LEMMA TakenWhole ==
  ASSUME NEW h, HeapOK(h), NEW p \in Free(h), NEW nb \in Nat, h.chunks[p].size >= nb
  PROVE  Gains(h, TakeWhole(h, p).heap, p, nb) /\ TakeWhole(h, p).mem = chunk2mem(p)
<1> DEFINE c == h.chunks
           hi == p + chunksize(h, p)
           u == unlink(h, p)
           g == set_inuse_bit_at(u, hi)
<1>1. Tiled(h) /\ h \in Heaps /\ Binned(h, Free(h))
  BY DEF HeapOK, Tiled
<1>2. p \in DOMAIN c /\ p # h.top /\ p \notin Used(h)
  BY <1>1, Apiece
<1>3. hi = After(c, p) /\ hi \in DOMAIN c /\ p < hi /\ p \in Nat /\ hi \in Nat /\ c[p].size = hi - p
  BY <1>1, <1>2, OfChunk
<1>4. TakeWhole(h, p).heap = g /\ TakeWhole(h, p).mem = chunk2mem(p)
  BY DEF TakeWhole, Result
<1>5. Rebinned(h, u) /\ Binned(u, Free(h) \ {p})
  BY <1>1, UnlinkedHeap
<1> HIDE DEF u, hi
<1>6. Tiled(u) /\ Free(u) = Free(h) /\ Used(u) = Used(h) /\ u.chunks = c /\ u.top = h.top
  BY <1>1, <1>5, RebinnedTiled DEF Rebinned
<1>7. /\ Alike(u, g) /\ DOMAIN g.chunks = DOMAIN c
      /\ \A q \in DOMAIN c : q # hi => g.chunks[q] = c[q]
      /\ g.chunks[hi].prev_inuse /\ g.chunks[hi].size = c[hi].size
  BY <1>3, <1>6, InUseSet
<1> HIDE DEF g
<1>8. Joined(c, g.chunks, p, hi)
  <2>1. \A q \in DOMAIN c : q <= p \/ q >= hi
    BY <1>1, <1>2, <1>3, OfChunk
  <2>2. {q \in DOMAIN c : q <= p \/ q >= hi} = DOMAIN c
    BY <2>1
  <2>3. p # hi
    BY <1>3
  <2>. QED BY <1>2, <1>3, <1>7, <2>2, <2>3 DEF Joined
<1>9. /\ Tiled(g) /\ Keeps(u, g, p, hi)
      /\ Free(g) = Outside(Free(u), p, hi) \cup (IF g.chunks[hi].prev_inuse THEN {} ELSE {p})
      /\ Used(g) = Outside(Used(u), p, hi) \cup (IF g.chunks[hi].prev_inuse THEN {p} ELSE {})
  BY <1>2, <1>3, <1>6, <1>7, <1>8, HeapJoined
<1>10. Outside(Free(h), p, hi) = Free(h) \ {p} /\ Outside(Used(h), p, hi) = Used(h)
  <2>1. Free(h) \subseteq DOMAIN c /\ Used(h) \subseteq DOMAIN c
    BY <1>1, Apiece
  <2>2. \A S : S \subseteq DOMAIN c => Outside(S, p, hi) = S \ {p}
    BY <1>1, <1>2, <1>3, Span
  <2>. QED BY <1>2, <2>1, <2>2
<1>11. Free(g) = Free(h) \ {p} /\ Used(g) = Used(h) \cup {p}
  BY <1>6, <1>7, <1>9, <1>10
<1>12. \A q \in DOMAIN c : g.chunks[q].size = c[q].size
  BY <1>7
<1>13. Binned(g, Free(g))
  <2>1. BinsFor(g.bins, g.binblocks, c, Free(h) \ {p})
    BY <1>5, <1>6, <1>7 DEF Binned, Alike
  <2>2. \A q \in (Free(h) \ {p}) \ Listed(g.bins[last_remainder]) : g.chunks[q].size = c[q].size
    BY <1>1, <1>12, Apiece
  <2>. QED BY <1>11, <2>1, <2>2, SameSizes DEF Binned
<1>14. \A q \in Used(h) \cup {p} : g.chunks[q].size = c[q].size
  BY <1>1, <1>2, <1>12, Apiece
<1>15. g.chunks[p].size >= nb
  BY <1>14
<1>16. HeapOK(g)
  BY <1>9, <1>13 DEF HeapOK
<1>17. Gains(h, g, p, nb)
  BY <1>2, <1>11, <1>14, <1>15, <1>16 DEF Gains
<1>. QED BY <1>4, <1>17
(* From lo to hi there are two chunks, whatever was there.                 *)
Cut(c, c2, lo, mid, hi) ==
  /\ DOMAIN c2 = {q \in DOMAIN c : q <= lo \/ q >= hi} \cup {mid}
  /\ \A q \in DOMAIN c2 : q # lo /\ q # mid => c2[q] = c[q]
  /\ c2[lo].size = mid - lo /\ c2[lo].prev_inuse = c[lo].prev_inuse
  /\ ~c[lo].prev_inuse => c2[lo].prev_size = c[lo].prev_size
  /\ c2[mid].size = hi - mid /\ c2[mid].prev_inuse

CutOf(h, lo, mid, hi) == set_head(set_head_size(h, lo, mid - lo), mid, hi - mid, TRUE)

LEMMA CutMade ==
  ASSUME NEW h \in Heaps, NEW lo \in DOMAIN h.chunks, NEW mid \in Nat, NEW hi \in Nat, lo < mid, mid < hi,
         NEW k, k = CutOf(h, lo, mid, hi)
  PROVE  Alike(h, k) /\ Cut(h.chunks, k.chunks, lo, mid, hi)
<1> DEFINE c == h.chunks
           a == mid - lo
           b == hi - mid
           prev == c[lo].prev_inuse
           g == set_head(h, lo, a, prev)
<1>1. lo \in Nat /\ DOMAIN c \subseteq Nat /\ prev \in BOOLEAN /\ a \in Nat /\ b \in Nat /\ lo + a = mid /\ mid + b = hi
  BY Fields
<1>2. k = set_head(g, mid, b, TRUE)
  BY DEF CutOf, set_head_size, prev_inuse
<1> HIDE DEF prev, a, b
<1>3. Alike(h, g) /\ HeadIn(c, g.chunks, lo, a, prev)
  BY <1>1, HeadSet
<1> HIDE DEF g
<1>4. Alike(g, k) /\ HeadIn(g.chunks, k.chunks, mid, b, TRUE)
  <2>1. g \in Heaps
    BY <1>3 DEF Alike
  <2>2. Alike(g, set_head(g, mid, b, TRUE)) /\ HeadIn(g.chunks, set_head(g, mid, b, TRUE).chunks, mid, b, TRUE)
    BY <1>1, <2>1, HeadSet
  <2>. QED BY <1>2, <2>2
<1>5. Alike(h, k)
  BY <1>3, <1>4, AlikeTwice
<1>6. /\ DOMAIN g.chunks = {q \in DOMAIN c : q <= lo \/ q >= mid}
      /\ g.chunks[lo].size = a /\ g.chunks[lo].prev_inuse = prev
      /\ ~prev => g.chunks[lo].prev_size = c[lo].prev_size
      /\ \A q \in DOMAIN g.chunks : q # lo => g.chunks[q] = c[q]
  <2>1. {q \in DOMAIN c : q <= lo \/ q >= lo + a} \cup {lo} = {q \in DOMAIN c : q <= lo \/ q >= mid}
    BY <1>1
  <2>. QED BY <1>3, <2>1 DEF HeadIn
<1>7. /\ DOMAIN k.chunks = {q \in DOMAIN g.chunks : q <= mid \/ q >= hi} \cup {mid}
      /\ k.chunks[mid].size = b /\ k.chunks[mid].prev_inuse
      /\ \A q \in DOMAIN k.chunks : q # mid => k.chunks[q] = g.chunks[q]
  <2>1. {q \in DOMAIN g.chunks : q <= mid \/ q >= mid + b} = {q \in DOMAIN g.chunks : q <= mid \/ q >= hi}
    BY <1>1
  <2>. QED BY <1>4, <2>1 DEF HeadIn
<1>8. DOMAIN k.chunks = {q \in DOMAIN c : q <= lo \/ q >= hi} \cup {mid}
  BY <1>1, <1>6, <1>7
<1>9. k.chunks[lo] = g.chunks[lo]
  BY <1>1, <1>7, <1>8
<1>10. \A q \in DOMAIN k.chunks : q # lo /\ q # mid => k.chunks[q] = c[q]
  BY <1>6, <1>7
<1>11. Cut(c, k.chunks, lo, mid, hi)
  BY <1>6, <1>7, <1>8, <1>9, <1>10 DEF Cut, a, b, prev
<1>. QED BY <1>5, <1>11
LEMMA FootOfCut ==
  ASSUME NEW h, Tiled(h), NEW lo \in DOMAIN h.chunks, NEW hi \in DOMAIN h.chunks,
         NEW mid \in Nat, lo < mid, mid < hi,
         NEW k, Alike(h, k), Cut(h.chunks, k.chunks, lo, mid, hi),
         NEW size, size = hi - mid, NEW g, g = set_foot(k, hi, size)
  PROVE  /\ Alike(h, g) /\ Halved(h.chunks, g.chunks, lo, mid, hi)
         /\ ~g.chunks[hi].prev_inuse /\ g.chunks[hi].prev_size = size
<1>1. lo \in Nat /\ hi \in Nat /\ size \in Nat /\ k \in Heaps /\ lo # hi /\ mid # hi
  <2>1. lo \in Nat /\ hi \in Nat
    BY OfChunk
  <2>2. k \in Heaps
    BY DEF Alike
  <2>. QED BY <2>1, <2>2
<1>2. hi \in DOMAIN k.chunks
  BY <1>1 DEF Cut
<1>3. Alike(k, g) /\ FootIn(k.chunks, g.chunks, hi, size)
  BY <1>1, <1>2, FootSet
<1>4. Alike(h, g)
  BY <1>3, AlikeTwice
<1>5. /\ DOMAIN g.chunks = DOMAIN k.chunks
      /\ \A q \in DOMAIN k.chunks : q # hi => g.chunks[q] = k.chunks[q]
      /\ g.chunks[hi].size = k.chunks[hi].size
      /\ ~g.chunks[hi].prev_inuse /\ g.chunks[hi].prev_size = size
  BY <1>3 DEF FootIn
<1>6. /\ g.chunks[lo] = k.chunks[lo] /\ g.chunks[mid] = k.chunks[mid]
      /\ g.chunks[hi].size = h.chunks[hi].size
  <2>1. lo \in DOMAIN k.chunks /\ mid \in DOMAIN k.chunks
    BY <1>1 DEF Cut
  <2>2. k.chunks[hi] = h.chunks[hi]
    BY <1>1, <1>2 DEF Cut
  <2>. QED BY <1>1, <1>5, <2>1, <2>2
<1>7. Halved(h.chunks, g.chunks, lo, mid, hi)
  BY <1>5, <1>6 DEF Halved, Cut
<1>. QED BY <1>4, <1>5, <1>7

LEMMA BitOfCut ==
  ASSUME NEW h, Tiled(h), NEW lo \in DOMAIN h.chunks, NEW hi \in DOMAIN h.chunks,
         NEW mid \in Nat, lo < mid, mid < hi,
         NEW k, Alike(h, k), Cut(h.chunks, k.chunks, lo, mid, hi), NEW g, g = set_inuse_bit_at(k, hi)
  PROVE  Alike(h, g) /\ Halved(h.chunks, g.chunks, lo, mid, hi) /\ g.chunks[hi].prev_inuse
<1> DEFINE size == h.chunks[hi].size
           s == set_head(k, hi, size, TRUE)
<1>1. lo \in Nat /\ hi \in Nat /\ size \in Nat /\ k \in Heaps /\ lo # hi /\ mid # hi /\ hi # null
  BY OfChunk DEF Alike
<1>2. hi \in DOMAIN k.chunks /\ k.chunks[hi] = h.chunks[hi]
  BY <1>1 DEF Cut
<1>3. g = s
  BY <1>1, <1>2 DEF set_inuse_bit_at, chunksize
<1>4. \A q \in DOMAIN k.chunks : q <= hi \/ q >= hi + size
  <2>1. \A q \in DOMAIN h.chunks : q <= hi \/ q >= hi + size
    BY OfChunk DEF After
  <2>. QED BY <1>1, <2>1 DEF Cut
<1> HIDE DEF size
<1>5. Alike(k, s) /\ HeadIn(k.chunks, s.chunks, hi, size, TRUE)
  BY <1>1, HeadSet
<1> HIDE DEF s
<1>6. Alike(h, g)
  BY <1>3, <1>5, AlikeTwice
<1>7. /\ DOMAIN g.chunks = DOMAIN k.chunks
      /\ \A q \in DOMAIN k.chunks : q # hi => g.chunks[q] = k.chunks[q]
      /\ g.chunks[hi].size = size /\ g.chunks[hi].prev_inuse
  <2>1. {q \in DOMAIN k.chunks : q <= hi \/ q >= hi + size} \cup {hi} = DOMAIN k.chunks
    BY <1>2, <1>4
  <2>. QED BY <1>3, <1>5, <2>1 DEF HeadIn
<1>8. g.chunks[lo] = k.chunks[lo] /\ g.chunks[mid] = k.chunks[mid]
  BY <1>1, <1>7 DEF Cut
<1>9. Halved(h.chunks, g.chunks, lo, mid, hi)
  BY <1>7, <1>8 DEF Halved, Cut, size
<1>. QED BY <1>6, <1>7, <1>9

LEMMA Split ==
  ASSUME NEW h, HeapOK(h), NEW p \in Free(h), NEW nb \in Nat, nb % 2 = 0, nb >= MINSIZE,
         h.chunks[p].size - nb >= MINSIZE, Listed(h.bins[last_remainder]) \subseteq {p}
  PROVE  Gains(h, SplitChunk(h, p, nb).heap, p, nb) /\ SplitChunk(h, p, nb).mem = chunk2mem(p)
<1> DEFINE c == h.chunks
           rest == chunksize(h, p) - nb
           mid == p + nb
           hi == p + nb + rest
           u == unlink(h, p)
           l == link_last_remainder(u, mid)
           k == CutOf(l, p, mid, hi)
           cut == set_head(l, p, nb, TRUE)
           g == set_foot(set_head(cut, mid, rest, TRUE), hi, rest)
<1>0. SplitChunk(h, p, nb).heap = g /\ SplitChunk(h, p, nb).mem = chunk2mem(p)
  BY DEF SplitChunk, Result
<1>1. Tiled(h) /\ h \in Heaps /\ Binned(h, Free(h))
  BY DEF HeapOK, Tiled
<1>2. p \in DOMAIN c /\ p # h.top /\ p \notin Used(h) /\ Free(h) \subseteq DOMAIN c /\ Used(h) \subseteq DOMAIN c
  BY <1>1, Apiece
<1>3. /\ hi = After(c, p) /\ hi \in DOMAIN c /\ p < hi /\ p \in Nat /\ hi \in Nat
      /\ mid \in Nat /\ p < mid /\ mid < hi /\ mid - p = nb /\ hi - mid = rest /\ rest \in Nat
      /\ rest >= MINSIZE /\ mid % 2 = 0
  <2>1. c[p].size \in Nat /\ p \in Nat /\ p % 2 = 0 /\ chunksize(h, p) = c[p].size /\ After(c, p) \in DOMAIN c
        /\ After(c, p) = p + c[p].size
    BY <1>1, <1>2, OfChunk
  <2>. QED BY <2>1 DEF MINSIZE
<1>4. c[p].prev_inuse = TRUE /\ hi # h.top /\ hi \notin Free(h)
  <2>1. c[p].prev_inuse /\ c[p].prev_inuse \in BOOLEAN /\ ~c[hi].prev_inuse
    BY <1>1, <1>2, <1>3, OfChunk
  <2>. QED BY <1>1, <1>3, <2>1, OfChunk
<1>5. Rebinned(h, u) /\ Binned(u, Free(h) \ {p})
      /\ Listed(u.bins[last_remainder]) = {}
  <2>1. last_remainder \in 1 .. NAV - 1
    BY Tables DEF last_remainder
  <2>2. Rebinned(h, u) /\ Binned(u, Free(h) \ {p}) /\ Listed(u.bins[last_remainder]) = Listed(h.bins[last_remainder]) \ {p}
    <3>1. Rebinned(h, unlink(h, p)) /\ Binned(unlink(h, p), Free(h) \ {p})
          /\ \A i \in 1 .. NAV - 1 : Listed(unlink(h, p).bins[i]) = Listed(h.bins[i]) \ {p}
      BY <1>1, UnlinkedHeap
    <3>. QED BY <2>1, <3>1
  <2> HIDE DEF u
  <2>. QED BY <2>2
<1>6. mid \notin DOMAIN c
  BY <1>1, <1>2, <1>3, OfChunk
<1> HIDE DEF u, hi, mid, rest
<1>7. Rebinned(u, l) /\ l.bins[last_remainder] = <<mid>> /\ Binned(l, (Free(h) \ {p}) \cup {mid})
  <2>1. u \in Heaps /\ mid \notin (Free(h) \ {p}) \ Listed(u.bins[last_remainder])
    BY <1>2, <1>5, <1>6 DEF Rebinned
  <2>2. Binned(l, ((Free(h) \ {p}) \ Listed(u.bins[last_remainder])) \cup {mid})
        /\ Rebinned(u, l) /\ l.bins[last_remainder] = <<mid>>
    BY <1>3, <1>5, <2>1, RemainderLinked
  <2>3. (Free(h) \ {p}) \ Listed(u.bins[last_remainder]) = Free(h) \ {p}
    BY <1>5
  <2>. QED BY <2>2, <2>3
<1> HIDE DEF l
<1>8. Tiled(l) /\ Free(l) = Free(h) /\ Used(l) = Used(h) /\ l.chunks = c /\ l.top = h.top /\ l \in Heaps
  BY <1>1, <1>5, <1>7, RebinnedTwice, RebinnedTiled DEF Rebinned
<1>9. Alike(l, k) /\ Cut(c, k.chunks, p, mid, hi)
  BY <1>2, <1>3, <1>8, CutMade
<1>10. g = set_foot(k, hi, rest)
  <2>1. prev_inuse(l, p) = TRUE
    BY <1>4, <1>8 DEF prev_inuse
  <2>2. k = set_head(cut, mid, rest, TRUE)
    BY <1>3, <2>1 DEF CutOf, set_head_size
  <2>. QED BY <2>2
<1> HIDE DEF k, g
<1>11. Alike(l, g) /\ Halved(c, g.chunks, p, mid, hi) /\ ~g.chunks[hi].prev_inuse /\ g.chunks[hi].prev_size = rest
  BY <1>2, <1>3, <1>8, <1>9, <1>10, FootOfCut
<1>12. /\ Tiled(g) /\ Keeps(l, g, p, hi) /\ p \in DOMAIN g.chunks
       /\ Free(g) = Outside(Free(h), p, hi) \cup (IF g.chunks[hi].prev_inuse THEN {} ELSE {mid})
       /\ Used(g) = Outside(Used(h), p, hi) \cup (IF g.chunks[hi].prev_inuse THEN {p, mid} ELSE {p})
  <2>1. FreeBefore(l, g.chunks, hi, hi - mid)
    BY <1>3, <1>4, <1>8, <1>11 DEF FreeBefore
  <2>2. mid - p >= MINSIZE /\ hi - mid >= MINSIZE
    BY <1>3
  <2>. QED BY <1>2, <1>3, <1>8, <1>11, <2>1, <2>2, HeapHalved
<1>13. Outside(Free(h), p, hi) = Free(h) \ {p} /\ Outside(Used(h), p, hi) = Used(h)
  <2>1. \A S : S \subseteq DOMAIN c => Outside(S, p, hi) = S \ {p}
    BY <1>1, <1>2, <1>3, Span
  <2>. QED BY <1>2, <2>1
<1>14. Free(g) = (Free(h) \ {p}) \cup {mid} /\ Used(g) = Used(h) \cup {p}
  BY <1>11, <1>12, <1>13
<1>15. \A q \in (Free(h) \ {p}) \cup Used(h) : g.chunks[q].size = c[q].size
  <2>1. \A q \in DOMAIN c : q < p \/ q >= hi => g.chunks[q].size = c[q].size
    BY <1>8, <1>12 DEF Keeps
  <2>. QED BY <1>2, <1>13, <2>1 DEF Outside
<1>16. Binned(g, Free(g))
  <2>1. BinsFor(g.bins, g.binblocks, c, (Free(h) \ {p}) \cup {mid})
    BY <1>7, <1>8, <1>11 DEF Binned, Alike
  <2>2. Listed(g.bins[last_remainder]) = {mid}
    BY <1>7, <1>11, ListedOne DEF Alike
  <2>3. \A q \in ((Free(h) \ {p}) \cup {mid}) \ Listed(g.bins[last_remainder]) : g.chunks[q].size = c[q].size
    BY <1>15, <2>2
  <2>. QED BY <1>14, <2>1, <2>3, SameSizes DEF Binned
<1>17. g.chunks[p].size >= nb
  BY <1>3, <1>11 DEF Halved
<1>18. HeapOK(g)
  BY <1>12, <1>16 DEF HeapOK
<1>19. Gains(h, g, p, nb)
  BY <1>2, <1>14, <1>15, <1>17, <1>18 DEF Gains
<1>. QED BY <1>0, <1>19

LEMMA Carved ==
  ASSUME NEW h, HeapOK(h), NEW p \in Free(h), NEW nb \in Nat, nb % 2 = 0, nb >= MINSIZE,
         h.chunks[p].size >= nb, Listed(h.bins[last_remainder]) \subseteq {p}
  PROVE  Gains(h, Carve(h, p, nb).heap, p, nb) /\ Carve(h, p, nb).mem = chunk2mem(p)
<1>1. chunksize(h, p) = h.chunks[p].size
  BY Apiece, OfChunk DEF HeapOK
<1>. QED BY <1>1, Split, TakenWhole DEF Carve-----------------------------------------------------------------------------
(* The search of the lists.                                                *)
LEMMA InBin ==
  ASSUME NEW h, HeapOK(h), NEW i \in 1 .. NAV - 1
  PROVE  /\ Listed(h.bins[i]) \subseteq Free(h)
         /\ DOMAIN h.bins[i] = 1 .. Len(h.bins[i]) /\ Len(h.bins[i]) \in Nat
         /\ \A p \in Listed(h.bins[i]) :
              /\ chunksize(h, p) = h.chunks[p].size /\ h.chunks[p].size \in Nat /\ h.chunks[p].size >= MINSIZE
              /\ i # last_remainder => BinOf(h.chunks[p].size) = i /\ BlockOf(i) \in h.binblocks
<1>1. Tiled(h) /\ BinsFor(h.bins, h.binblocks, h.chunks, Free(h))
  BY DEF HeapOK, Binned
<1>2. /\ Listed(h.bins[i]) \subseteq Free(h)
      /\ DOMAIN h.bins[i] = 1 .. Len(h.bins[i]) /\ Len(h.bins[i]) \in Nat
  BY <1>1, ListedIn
<1>3. \A p \in Free(h) : chunksize(h, p) = h.chunks[p].size /\ h.chunks[p].size \in Nat /\ h.chunks[p].size >= MINSIZE
  BY <1>1, Apiece, OfChunk
<1>4. i # last_remainder => \A p \in Listed(h.bins[i]) : BinOf(h.chunks[p].size) = i /\ BlockOf(i) \in h.binblocks
  BY <1>1 DEF BinsFor, OneBin
<1>. QED BY <1>2, <1>3, <1>4

(* A free chunk is the last remainder, or in the bin of its size.          *)
LEMMA BinHolds ==
  ASSUME NEW h, HeapOK(h), NEW p \in Free(h), p \notin Listed(h.bins[last_remainder])
  PROVE  BinOf(h.chunks[p].size) \in 2 .. NAV - 2 /\ p \in Listed(h.bins[BinOf(h.chunks[p].size)])
<1>1. Free(h) = UNION {Listed(h.bins[i]) : i \in 1 .. NAV - 1}
  BY DEF HeapOK, Binned, BinsFor
<1>2. PICK i \in 1 .. NAV - 1 : p \in Listed(h.bins[i])
  BY <1>1
<1>3. i # last_remainder
  BY <1>2
<1>4. BinOf(h.chunks[p].size) = i /\ h.chunks[p].size \in Nat /\ h.chunks[p].size >= MINSIZE
  BY <1>2, <1>3, InBin
<1>5. BinOf(h.chunks[p].size) \in 2 .. NAV - 2
  BY <1>4, BinInRange
<1>. QED BY <1>2, <1>4, <1>5

(* Whether a bin has a chunk of nb words does not depend on the order.     *)
Suits(h, i, nb) ==
  \E p \in Free(h) \ Listed(h.bins[last_remainder]) :
    BinOf(h.chunks[p].size) = i /\ h.chunks[p].size >= nb

LEMMA Fits ==
  ASSUME NEW h, HeapOK(h), NEW i \in 2 .. NAV - 1, NEW nb \in Nat
  PROVE  Suits(h, i, nb) <=> Fitting(h, i, nb) # {}
<1>1. i \in 1 .. NAV - 1 /\ i # last_remainder /\ last_remainder \in 1 .. NAV - 1
  BY Tables DEF last_remainder
<1>2. ASSUME NEW k \in Fitting(h, i, nb) PROVE Suits(h, i, nb)
  <2> DEFINE p == h.bins[i][k]
  <2>1. k \in 1 .. Len(h.bins[i]) /\ chunksize(h, p) >= nb
    BY <1>1, <1>2, InBin DEF Fitting
  <2>2. p \in Listed(h.bins[i])
    BY <2>1 DEF Listed
  <2> HIDE DEF p
  <2>3. p \in Free(h) /\ BinOf(h.chunks[p].size) = i /\ h.chunks[p].size >= nb
    BY <1>1, <2>1, <2>2, InBin
  <2>4. p \notin Listed(h.bins[last_remainder])
    BY <1>1, <2>2 DEF HeapOK, Binned, BinsFor
  <2>. QED BY <2>3, <2>4 DEF Suits
<1>3. ASSUME Suits(h, i, nb) PROVE Fitting(h, i, nb) # {}
  <2>1. PICK p \in Free(h) \ Listed(h.bins[last_remainder]) :
          BinOf(h.chunks[p].size) = i /\ h.chunks[p].size >= nb
    BY <1>3 DEF Suits
  <2>2. p \in Listed(h.bins[i])
    BY <2>1, BinHolds
  <2>3. PICK k \in 1 .. Len(h.bins[i]) : p = h.bins[i][k]
    BY <2>2 DEF Listed
  <2>4. k \in Fitting(h, i, nb)
    BY <1>1, <2>1, <2>2, <2>3, InBin DEF Fitting
  <2>. QED BY <2>4
<1>. QED BY <1>2, <1>3

LEMMA Found ==
  ASSUME NEW h, HeapOK(h), NEW i \in 1 .. NAV - 1, NEW nb \in Nat, Fitting(h, i, nb) # {},
         NEW p, p = FirstFit(h, i, nb)
  PROVE  /\ p \in Free(h) /\ p \in Listed(h.bins[i]) /\ p \in Nat /\ h.chunks[p].size >= nb
         /\ chunksize(h, p) = h.chunks[p].size /\ h.chunks[p].size \in Nat
<1> DEFINE S == Fitting(h, i, nb)  n == Len(h.bins[i])
<1>1. n \in Nat /\ S \in SUBSET (0 .. n) /\ S \subseteq 1 .. n
  BY InBin DEF Fitting
<1> HIDE DEF n, S
<1>2. Max(S) \in S
  BY <1>1, GreatestOf DEF S
<1>3. p = h.bins[i][Max(S)]
  BY DEF FirstFit, S
<1>4. chunksize(h, p) >= nb /\ p \in Listed(h.bins[i])
  BY <1>1, <1>2, <1>3 DEF S, n, Fitting, Listed
<1>5. p \in Free(h) /\ chunksize(h, p) = h.chunks[p].size /\ h.chunks[p].size \in Nat
  BY <1>4, InBin
<1>6. p \in Nat
  BY <1>5, Apiece, OfChunk DEF HeapOK
<1>. QED BY <1>4, <1>5, <1>6

(* When the bins from that of nb on have nothing, nothing suits.           *)
LEMMA Searched ==
  ASSUME NEW h, HeapOK(h), NEW nb \in Nat, nb >= MINSIZE, h.bins[last_remainder] = <<>>,
         \A i \in BinOf(nb) .. NAV - 1 : ~Suits(h, i, nb)
  PROVE  \A p \in Free(h) : h.chunks[p].size < nb
<1> SUFFICES ASSUME NEW p \in Free(h), ~(h.chunks[p].size < nb) PROVE FALSE
  OBVIOUS
<1>1. Listed(h.bins[last_remainder]) = {}
  BY DEF Listed
<1>2. BinOf(h.chunks[p].size) \in 2 .. NAV - 2
  BY <1>1, BinHolds
<1>3. h.chunks[p].size \in Nat /\ h.chunks[p].size >= nb
  <2>1. h.chunks[p].size \in Nat
    BY Apiece, OfChunk DEF HeapOK
  <2>. QED BY <2>1
<1>4. BinOf(nb) <= BinOf(h.chunks[p].size) /\ BinOf(nb) \in 2 .. NAV - 2 /\ NAV \in Nat
  BY <1>3, BinsUp, BinInRange, Tables
<1>5. Suits(h, BinOf(h.chunks[p].size), nb)
  BY <1>1, <1>3 DEF Suits
<1>. QED BY <1>2, <1>4, <1>5-----------------------------------------------------------------------------
Words_(nb) == nb \in Nat /\ nb % 2 = 0 /\ nb >= MINSIZE

(* The answer r gives a chunk of at least nb words of the heap h.          *)
Got(h, r, nb) == r.mem # null /\ r.mem \in Nat /\ mem2chunk(r.mem) \in Nat /\ Gains(h, r.heap, mem2chunk(r.mem), nb)

LEMMA GotChunk ==
  ASSUME NEW h, HeapOK(h), NEW r, NEW p \in Free(h), NEW nb, Gains(h, r.heap, p, nb), r.mem = chunk2mem(p)
  PROVE  Got(h, r, nb)
<1>1. p \in Nat
  BY Apiece, OfChunk DEF HeapOK
<1>2. r.mem # null /\ r.mem \in Nat /\ mem2chunk(r.mem) = p
  BY <1>1 DEF chunk2mem, mem2chunk, null
<1>. QED BY <1>1, <1>2 DEF Got

LEMMA GotOver ==
  ASSUME NEW h, NEW g, Rebinned(h, g), NEW r, NEW nb, Got(g, r, nb)
  PROVE  Got(h, r, nb)
BY DEF Got, Gains, Rebinned, Used

LEMMA SmallBins ==
  ASSUME NEW nb, Words_(nb), is_small_request(nb), NEW s \in Nat, s >= MINSIZE,
         BinOf(s) \in {BinOf(nb), BinOf(nb) + 1}
  PROVE  s - nb < MINSIZE
<1>1. MaxSmallBinSize \in Nat /\ MaxSmallBinSize % 2 = 0 /\ nb \in Nat /\ nb % 2 = 0 /\ nb < MaxSmallBinSize - 2
  BY Tables DEF Words_, is_small_request
<1>2. BinOf(nb) = nb \div 2
  BY <1>1, BinInRange DEF Words_
<1>3. nb \div 2 + 1 < MaxSmallBinSize \div 2
  BY <1>1
<1>4. s < MaxSmallBinSize
  <2>1. s >= MaxSmallBinSize => MaxSmallBinSize \div 2 <= BinOf(s)
    BY BinInRange
  <2> DEFINE m == MaxSmallBinSize \div 2  b == nb \div 2
  <2>2. m \in Nat /\ b \in Nat /\ b + 1 < m /\ BinOf(s) \in {b, b + 1} /\ (s >= MaxSmallBinSize => m <= BinOf(s))
    BY <1>1, <1>2, <1>3, <2>1
  <2> HIDE DEF m, b
  <2>. QED BY <1>1, <2>2
<1>5. BinOf(s) = s \div 2
  BY <1>4, BinInRange
<1>6. s \div 2 <= nb \div 2 + 1
  BY <1>1, <1>2, <1>5
<1>. QED BY <1>1, <1>6 DEF MINSIZE

LEMMA OwnBin ==
  ASSUME NEW h, HeapOK(h), NEW nb, Words_(nb), NEW r, r = FromOwnBin(h, nb)
  PROVE  \/ Got(h, r, nb)
         \/ /\ r.mem = null /\ r.heap = h
            /\ is_small_request(nb) => ~Suits(h, BinOf(nb), nb) /\ ~Suits(h, BinOf(nb) + 1, nb)
<1> DEFINE i == BinOf(nb)
           bins == {b \in IF is_small_request(nb) THEN {i, i + 1} ELSE {i} : Fitting(h, b, nb) # {}}
           p == FirstFit(h, Min(bins), nb)
<1>1. i \in 2 .. NAV - 2 /\ i + 1 \in 2 .. NAV - 1 /\ NAV \in Nat /\ nb \in Nat /\ nb >= MINSIZE
  BY BinInRange, Tables DEF Words_
<1>2. r = IF bins = {} \/ (bins # {} /\ chunksize(h, p) - nb >= MINSIZE)
            THEN Result(h, null) ELSE TakeWhole(h, p)
  BY DEF FromOwnBin
<1>3. bins \in SUBSET Nat /\ bins \subseteq 2 .. NAV - 1 /\ \A b \in bins : Fitting(h, b, nb) # {}
  BY <1>1
<1>4. ASSUME bins # {}
      PROVE  /\ Min(bins) \in bins /\ Min(bins) \in 1 .. NAV - 1 /\ Min(bins) # last_remainder
             /\ p \in Free(h) /\ p \in Listed(h.bins[Min(bins)]) /\ h.chunks[p].size >= nb
             /\ chunksize(h, p) = h.chunks[p].size /\ h.chunks[p].size \in Nat
  <2>1. Min(bins) \in bins
    BY <1>3, <1>4, LeastOf
  <2> DEFINE b == Min(bins)
  <2>3. p = FirstFit(h, b, nb)
    OBVIOUS
  <2> HIDE DEF bins, p
  <2>2. b \in 1 .. NAV - 1 /\ b # last_remainder /\ Fitting(h, b, nb) # {}
    <3>1. b \in 2 .. NAV - 1 /\ Fitting(h, b, nb) # {}
      BY <1>3, <2>1
    <3> HIDE DEF b
    <3>. QED BY <1>1, <3>1 DEF last_remainder
  <2> HIDE DEF b
  <2>4. p \in Free(h) /\ p \in Listed(h.bins[b]) /\ h.chunks[p].size >= nb
        /\ chunksize(h, p) = h.chunks[p].size /\ h.chunks[p].size \in Nat
    BY <1>1, <2>2, <2>3, Found
  <2>. QED BY <2>1, <2>2, <2>4 DEF b
<1>5. ASSUME bins # {}, is_small_request(nb) PROVE ~(chunksize(h, p) - nb >= MINSIZE)
  <2> DEFINE b == Min(bins)  s == h.chunks[p].size
  <2>1. b \in {i, i + 1}
    BY <1>4, <1>5
  <2>2. BinOf(s) = b /\ s \in Nat /\ s >= MINSIZE
    BY <1>4, <1>5, InBin
  <2>3. chunksize(h, p) = s
    BY <1>4, <1>5
  <2> HIDE DEF bins, p, b, s
  <2>4. s - nb < MINSIZE
    BY <1>5, <2>1, <2>2, SmallBins
  <2>. QED BY <1>1, <2>2, <2>3, <2>4 DEF MINSIZE
<1>6. CASE bins # {} /\ ~(chunksize(h, p) - nb >= MINSIZE)
  <2>1. r = TakeWhole(h, p)
    BY <1>2, <1>6
  <2>2. p \in Free(h) /\ h.chunks[p].size >= nb
    BY <1>4, <1>6
  <2> HIDE DEF p, bins
  <2>3. Gains(h, r.heap, p, nb) /\ r.mem = chunk2mem(p)
    BY <1>1, <2>1, <2>2, TakenWhole
  <2>. QED BY <2>2, <2>3, GotChunk
<1>7. CASE bins = {} \/ (bins # {} /\ chunksize(h, p) - nb >= MINSIZE)
  <2>1. r = Result(h, null)
    BY <1>2, <1>7
  <2>2. r.mem = null /\ r.heap = h
    BY <2>1 DEF Result
  <2>3. is_small_request(nb) => bins = {}
    BY <1>5, <1>7
  <2>4. is_small_request(nb) => Fitting(h, i, nb) = {} /\ Fitting(h, i + 1, nb) = {}
    BY <2>3
  <2> HIDE DEF p, bins
  <2>5. i \in 2 .. NAV - 1
    BY <1>1
  <2>. QED BY <1>1, <2>2, <2>4, <2>5, Fits
<1>. QED BY <1>6, <1>7

LEMMA Single ==
  ASSUME NEW l \in Seq(Nat), Len(l) <= 1, l # <<>>
  PROVE  l = <<Head(l)>> /\ Head(l) \in Nat
<1>1. Len(l) \in Nat /\ Len(l) = 1 /\ Head(l) = l[1]
  <2> DEFINE n == Len(l)
  <2>1. n \in Nat \ {0}
    BY EmptySeq
  <2>2. n <= 1
    OBVIOUS
  <2> HIDE DEF n
  <2>3. n \in Nat /\ n = 1
    BY <2>1, <2>2
  <2>4. Head(l) = l[1]
    OBVIOUS
  <2>. QED BY <2>3, <2>4 DEF n
<1>2. l[1] \in Nat
  BY <1>1, ElementOfSeq
<1>3. Len(<<Head(l)>>) = 1 /\ <<Head(l)>>[1] = l[1] /\ <<Head(l)>> \in Seq(Nat)
  BY <1>1, <1>2
<1>. QED BY <1>1, <1>2, <1>3

LEMMA Remainder ==
  ASSUME NEW h, HeapOK(h), NEW nb, Words_(nb), NEW r, r = FromLastRemainder(h, nb)
  PROVE  \/ Got(h, r, nb)
         \/ /\ r.mem = null /\ HeapOK(r.heap) /\ Rebinned(h, r.heap) /\ r.heap.bins[last_remainder] = <<>>
            /\ \A i \in 2 .. NAV - 1 : Suits(r.heap, i, nb) <=> Suits(h, i, nb)
<1> DEFINE p == Head(h.bins[last_remainder])
           l == h.bins[last_remainder]
<1>0. last_remainder \in 1 .. NAV - 1 /\ nb \in Nat /\ nb >= MINSIZE
  BY Tables DEF last_remainder, Words_
<1>1. Tiled(h) /\ Binned(h, Free(h)) /\ h \in Heaps /\ l \in Seq(Nat) /\ Len(l) <= 1
  BY <1>0 DEF HeapOK, Tiled, Binned, BinsFor, OneBin
<1>2. CASE l = <<>>
  <2>1. r.mem = null /\ r.heap = h
    BY <1>2 DEF FromLastRemainder, Result
  <2>2. Rebinned(h, h)
    BY <1>1 DEF Rebinned
  <2>. QED BY <1>2, <2>1, <2>2
<1>3. CASE l # <<>>
  <2>1. l = <<p>> /\ Listed(l) = {p} /\ p \in Nat
    <3>0. p = Head(l)
      OBVIOUS
    <3> HIDE DEF p, l
    <3>1. l = <<p>> /\ p \in Nat
      BY <1>1, <1>3, <3>0, Single
    <3>. QED BY <3>1, ListedOne
  <2>2. p \in Free(h) /\ chunksize(h, p) = h.chunks[p].size /\ h.chunks[p].size \in Nat
    BY <1>0, <2>1, InBin
  <2>3. CASE chunksize(h, p) >= nb
    <3>1. r = Carve(h, p, nb)
      BY <1>3, <2>3 DEF FromLastRemainder
    <3>2. Listed(h.bins[last_remainder]) \subseteq {p}
      BY <2>1
    <3> HIDE DEF p, l
    <3>3. Gains(h, r.heap, p, nb) /\ r.mem = chunk2mem(p)
      BY <2>2, <2>3, <3>1, <3>2, Carved DEF Words_
    <3>. QED BY <2>2, <3>3, GotChunk
  <2>4. CASE ~(chunksize(h, p) >= nb)
    <3> DEFINE k == clear_last_remainder(h)
               size == chunksize(h, p)
               g == frontlink(k, p, size)
    <3>1. r.mem = null /\ r.heap = g
      BY <1>3, <2>4 DEF FromLastRemainder, Result
    <3>2. Rebinned(h, k) /\ k.bins[last_remainder] = <<>> /\ Binned(k, Free(h) \ Listed(l))
      BY <1>1, RemainderCleared
    <3>3. k \in Heaps /\ k.chunks = h.chunks /\ size = k.chunks[p].size
      BY <2>2, <3>2 DEF Rebinned
    <3>4. 0 \notin Free(h) /\ Sized(h.chunks, Free(h))
      BY <1>1, Apiece
    <3> DEFINE F == Free(h) \ {p}
    <3>b. F \cup {p} = Free(h)
      BY <2>2
    <3>5. /\ Binned(k, F) /\ p \notin F /\ 0 \notin F /\ Sized(k.chunks, F \cup {p})
      BY <2>1, <3>2, <3>3, <3>4, <3>b
    <3>a. p \in Nat
      BY <2>1
    <3> HIDE DEF F, k, size, p
    <3>6. /\ Rebinned(k, g) /\ Binned(g, F \cup {p}) /\ g.bins[last_remainder] = k.bins[last_remainder]
      BY <3>a, <3>3, <3>5, FrontedHeap
    <3> HIDE DEF g
    <3>7. Rebinned(h, g) /\ g.bins[last_remainder] = <<>>
      BY <3>2, <3>6, RebinnedTwice
    <3>8. Tiled(g) /\ Free(g) = Free(h) /\ g.chunks = h.chunks
      BY <1>1, <3>7, RebinnedTiled DEF Rebinned
    <3>9. HeapOK(g)
      BY <3>b, <3>6, <3>8 DEF HeapOK
    <3>10. \A i : Suits(g, i, nb) <=> Suits(h, i, nb)
      <4>1. Listed(g.bins[last_remainder]) = {}
        BY <3>7 DEF Listed
      <4>2. ~(h.chunks[p].size >= nb)
        BY <2>2, <2>4
      <4>. QED BY <2>1, <3>8, <4>1, <4>2 DEF Suits
    <3>. QED BY <3>1, <3>7, <3>9, <3>10
  <2>. QED BY <2>3, <2>4
<1>. QED BY <1>2, <1>3
LEMMA BlockUp ==
  ASSUME NEW i \in Nat, NEW j \in Nat, i <= j
  PROVE  BlockOf(i) \in Int /\ BlockOf(j) \in Int /\ BlockOf(i) <= BlockOf(j)
<1>1. BinBlockWidth \in Nat \ {0}
  BY Tables
<1>2. i \div BinBlockWidth <= j \div BinBlockWidth
  BY <1>1, DivideUp
<1>. QED BY <1>2, Blocked DEF BlockOf

FoundBins(h, nb, from) == {i \in from .. NAV - 1 : BlockOf(i) \in h.binblocks /\ Fitting(h, i, nb) # {}}

(* The blocks that lose their mark hold nothing.                           *)
LEMMA NothingHidden ==
  ASSUME NEW h, HeapOK(h), NEW nb, Words_(nb), h.bins[last_remainder] = <<>>,
         NEW from \in BinOf(nb) .. NAV, from = BinOf(nb) => Suits(h, from, nb),
         NEW found, found = FoundBins(h, nb, from),
         NEW j \in 2 .. NAV - 1, NEW p \in Listed(h.bins[j])
  PROVE  /\ BlockOf(j) \in h.binblocks \ Emptied(h, from, found)
         /\ j >= from => j \in found
<1>0. /\ BinOf(nb) \in 2 .. NAV - 2 /\ NAV \in Nat /\ nb \in Nat /\ nb >= MINSIZE /\ from \in Nat /\ from >= 2
      /\ BinBlockWidth \in Nat \ {0}
  <2>1. BinOf(nb) \in 2 .. NAV - 2 /\ NAV \in Nat /\ nb \in Nat /\ nb >= MINSIZE /\ BinBlockWidth \in Nat \ {0}
    BY BinInRange, Tables DEF Words_
  <2>. QED BY <2>1
<1>1. /\ j \in 1 .. NAV - 1 /\ j # last_remainder
      /\ p \in Free(h) /\ BinOf(h.chunks[p].size) = j /\ BlockOf(j) \in h.binblocks
      /\ h.chunks[p].size \in Nat /\ h.chunks[p].size >= MINSIZE
  <2>1. j \in 1 .. NAV - 1 /\ j # last_remainder
    BY <1>0 DEF last_remainder
  <2>. QED BY <2>1, InBin
<1>2. ASSUME j >= from PROVE j \in found
  <2>1. CASE j = BinOf(nb)
    <3>1. from = BinOf(nb)
      BY <1>0, <1>2, <2>1
    <3>2. Suits(h, j, nb)
      BY <2>1, <3>1
    <3>. QED BY <1>0, <1>1, <1>2, <3>2, Fits DEF FoundBins
  <2>2. CASE j # BinOf(nb)
    <3>1. j > BinOf(nb)
      BY <1>0, <1>2, <2>2
    <3>2. h.chunks[p].size >= nb
      <4>1. h.chunks[p].size <= nb => BinOf(h.chunks[p].size) <= BinOf(nb)
        BY <1>0, <1>1, BinsUp
      <4>. QED BY <1>0, <1>1, <3>1, <4>1
    <3>3. p \notin Listed(h.bins[last_remainder])
      BY DEF Listed
    <3>4. Suits(h, j, nb)
      BY <1>1, <3>2, <3>3 DEF Suits
    <3>. QED BY <1>0, <1>1, <1>2, <3>4, Fits DEF FoundBins
  <2>. QED BY <2>1, <2>2
<1>3. ASSUME BlockOf(j) \in Emptied(h, from, found) PROVE FALSE
  <2> DEFINE b == BlockOf(j)
  <2>1. /\ found # {} => b < BlockOf(Min(found))
        /\ \A i \in b * BinBlockWidth .. from - 1 : h.bins[i] = <<>>
    BY <1>3 DEF Emptied
  <2>2. b * BinBlockWidth \in Nat /\ b * BinBlockWidth <= j
    BY <1>0, Multiples DEF BlockOf
  <2>3. h.bins[j] # <<>>
    BY DEF Listed
  <2>4. ~(j < from)
    BY <1>0, <2>1, <2>2, <2>3
  <2>5. j \in found /\ found \in SUBSET Nat
    BY <1>0, <1>2, <2>4 DEF FoundBins
  <2>6. Min(found) \in Nat /\ Min(found) <= j
    BY <2>5, LeastOf
  <2>7. BlockOf(Min(found)) <= b /\ BlockOf(Min(found)) \in Int /\ b \in Int
    BY <1>0, <2>6, BlockUp
  <2> HIDE DEF b
  <2>. QED BY <2>1, <2>5, <2>7
<1>. QED BY <1>1, <1>2, <1>3

LEMMA Marked ==
  ASSUME NEW h, HeapOK(h), NEW m \in SUBSET Int, m \subseteq h.binblocks,
         \A j \in 2 .. NAV - 1 : \A p \in Listed(h.bins[j]) : BlockOf(j) \in m,
         NEW g, g = [h EXCEPT !.binblocks = m]
  PROVE  HeapOK(g) /\ Rebinned(h, g) /\ g.bins = h.bins
<1>1. Tiled(h) /\ h \in Heaps /\ BinsFor(h.bins, h.binblocks, h.chunks, Free(h))
  BY DEF HeapOK, Tiled, Binned
<1>2. Rebinned(h, g) /\ g.bins = h.bins /\ g.binblocks = m /\ g.chunks = h.chunks
  BY <1>1 DEF Rebinned, Heaps
<1>3. BinsFor(h.bins, m, h.chunks, Free(h))
  <2>1. \A i \in 1 .. NAV - 1 : i # last_remainder => i \in 2 .. NAV - 1
    BY Tables DEF last_remainder
  <2>. QED BY <1>1, <2>1 DEF BinsFor, OneBin
<1>4. Tiled(g) /\ Free(g) = Free(h)
  BY <1>1, <1>2, RebinnedTiled
<1>. QED BY <1>2, <1>3, <1>4 DEF HeapOK, Binned

LEMMA Blocks_ ==
  ASSUME NEW h, HeapOK(h), NEW nb, Words_(nb), h.bins[last_remainder] = <<>>,
         NEW from \in BinOf(nb) .. NAV, from = BinOf(nb) => Suits(h, from, nb),
         NEW r, r = FromBlocks(h, nb, from)
  PROVE  \/ Got(h, r, nb)
         \/ /\ r.mem = null /\ HeapOK(r.heap) /\ Rebinned(h, r.heap)
            /\ \A i \in from .. NAV - 1 : ~Suits(h, i, nb)
<1> DEFINE found == FoundBins(h, nb, from)
           m == h.binblocks \ Emptied(h, from, found)
           g == [h EXCEPT !.binblocks = m]
           i == Min(found)
           p == FirstFit(h, i, nb)
<1>0. BinOf(nb) \in 2 .. NAV - 2 /\ NAV \in Nat /\ nb \in Nat /\ nb >= MINSIZE /\ from \in Nat /\ from >= 2
  <2>1. BinOf(nb) \in 2 .. NAV - 2 /\ NAV \in Nat /\ nb \in Nat /\ nb >= MINSIZE
    BY BinInRange, Tables DEF Words_
  <2>. QED BY <2>1
<1>1. r = IF found = {} THEN Result(g, null) ELSE Carve(g, p, nb)
  <2>1. h \in Heaps
    BY DEF HeapOK, Tiled
  <2>. QED BY <2>1 DEF FromBlocks, Heaps, FoundBins
<1>2. found \in SUBSET Nat /\ \A k \in found : k \in from .. NAV - 1 /\ Fitting(h, k, nb) # {}
  BY <1>0 DEF FoundBins
<1>a. found = FoundBins(h, nb, from)
  OBVIOUS
<1> HIDE DEF found, i, p
<1>3. \A j \in 2 .. NAV - 1 : \A q \in Listed(h.bins[j]) : BlockOf(j) \in m /\ (j >= from => j \in found)
  <2> SUFFICES ASSUME NEW j \in 2 .. NAV - 1, NEW q \in Listed(h.bins[j])
               PROVE  BlockOf(j) \in m /\ (j >= from => j \in found)
    OBVIOUS
  <2>1. BlockOf(j) \in h.binblocks \ Emptied(h, from, found) /\ (j >= from => j \in found)
    BY <1>a, NothingHidden
  <2>. QED BY <2>1
<1>4. m \in SUBSET Int /\ m \subseteq h.binblocks
  BY Fields DEF HeapOK, Tiled
<1> HIDE DEF m
<1>5. HeapOK(g) /\ Rebinned(h, g) /\ g.bins = h.bins
  BY <1>3, <1>4, Marked
<1> HIDE DEF g
<1>6. CASE found = {}
  <2>1. r.mem = null /\ r.heap = g
    BY <1>1, <1>6 DEF Result
  <2>2. ASSUME NEW k \in from .. NAV - 1, Suits(h, k, nb) PROVE FALSE
    <3>1. k \in 2 .. NAV - 1
      BY <1>0
    <3>2. PICK q \in Free(h) \ Listed(h.bins[last_remainder]) : BinOf(h.chunks[q].size) = k
      BY <2>2 DEF Suits
    <3>3. q \in Listed(h.bins[k])
      BY <3>2, BinHolds
    <3>4. k \in found
      <4>1. k >= from
        BY <1>0, <2>2
      <4>. QED BY <1>3, <3>1, <3>3, <4>1
    <3>. QED BY <1>6, <3>4
  <2>. QED BY <1>5, <2>1, <2>2
<1>7. CASE found # {}
  <2>1. i \in found
    BY <1>2, <1>7, LeastOf DEF i
  <2>2. i \in 1 .. NAV - 1 /\ Fitting(h, i, nb) # {}
    <3>1. i \in from .. NAV - 1 /\ Fitting(h, i, nb) # {}
      BY <1>2, <2>1
    <3>. QED BY <1>0, <3>1
  <2>a. p = FirstFit(h, i, nb)
    BY DEF p
  <2>b. r = Carve(g, p, nb)
    BY <1>1, <1>7
  <2>3. p \in Free(h) /\ h.chunks[p].size >= nb
    BY <1>0, <2>2, <2>a, Found
  <2>4. p \in Free(g) /\ g.chunks[p].size >= nb
    BY <1>5, <2>3 DEF Free, Rebinned
  <2>5. Listed(g.bins[last_remainder]) \subseteq {p}
    BY <1>5 DEF Listed
  <2>6. Gains(g, r.heap, p, nb) /\ r.mem = chunk2mem(p)
    BY <1>5, <2>b, <2>4, <2>5, Carved DEF Words_
  <2>7. Got(g, r, nb)
    BY <1>5, <2>4, <2>6, GotChunk
  <2>. QED BY <1>5, <2>7, GotOver
<1>. QED BY <1>6, <1>7-----------------------------------------------------------------------------
(* The break.                                                              *)
LEMMA BreakUp ==
  ASSUME NEW h \in Heaps, h.stale = {}, NEW n \in Nat, NEW k, k = sbrk(h, n)
  PROVE  /\ k \in Heaps /\ k.brk = h.brk + n /\ k.based = h.based /\ k.top = h.top /\ k.chunks = h.chunks
         /\ k.bins = h.bins /\ k.binblocks = h.binblocks /\ k.stale = {}
<1> DEFINE s == IF n < 0 THEN h.stale \ (h.brk + n .. h.brk - 1)
                         ELSE h.stale \ (h.brk .. h.brk + n - 1)
<1>1. s = {}
  OBVIOUS
<1>2. k = [h EXCEPT !.brk = h.brk + n, !.stale = s]
  BY DEF sbrk, Heaps
<1> HIDE DEF s
<1>3. h.brk + n \in Nat
  BY Fields
<1>. QED BY <1>1, <1>2, <1>3 DEF Heaps

(* The words that nb words and a top chunk after them take, with padding.  *)
Needed(nb) == nb + TopPad + MINSIZE

LEMMA Need ==
  ASSUME NEW nb, Words_(nb)
  PROVE  /\ Needed(nb) \in Nat /\ nb \in Nat /\ Needed(nb) >= nb + MINSIZE /\ PageSize \in Nat \ {0}
         /\ RoundUp(Needed(nb), PageSize) \in Nat /\ RoundUp(Needed(nb), PageSize) >= Needed(nb)
<1>1. Needed(nb) \in Nat /\ nb \in Nat /\ Needed(nb) >= nb + MINSIZE /\ PageSize \in Nat \ {0}
  BY MallocAssumption DEF Needed, Words_, MINSIZE
<1>. QED BY <1>1, RoundedUp

(* The break of g, where nothing changed, is too near to the end.          *)
NoRoom(h, g, nb) ==
  /\ g.chunks = h.chunks /\ g.top = h.top
  /\ g.brk + RoundUp(Needed(nb), PageSize) + (IF g.top = null THEN PageSize ELSE 0) > End

Extended(h, g, nb) ==
  /\ Kept(h, g) /\ (h.top # null => g.top = h.top)
  /\ TopFits(g, nb) \/ NoRoom(h, g, nb)

LEMMA Grown ==
  ASSUME NEW h, HeapOK(h), h.top # null, NEW nb, Words_(nb)
  PROVE  Extended(h, GrowTop(h, nb), nb)
<1> DEFINE size == RoundUp(Needed(nb), PageSize)
           ts == chunksize(h, h.top)
           k == sbrk(h, size)
           n == ts + size
           g == set_head(k, h.top, n, TRUE)
<1>0. GrowTop(h, nb) = IF h.brk + size > End THEN h ELSE g
  BY DEF GrowTop, Needed, sbrk_fails
<1>1. Tiled(h) /\ h \in Heaps /\ Binned(h, Free(h)) /\ h.stale = {} /\ h.brk <= End /\ End \in Nat
  BY MallocAssumption DEF HeapOK, Tiled
<1>2. size \in Nat /\ size >= nb + MINSIZE /\ nb \in Nat
  BY Need DEF MINSIZE
<1> HIDE DEF size
<1>3. /\ k \in Heaps /\ k.brk = h.brk + size /\ k.top = h.top /\ k.chunks = h.chunks
      /\ k.bins = h.bins /\ k.binblocks = h.binblocks /\ k.stale = {}
  BY <1>1, <1>2, BreakUp
<1> HIDE DEF k
<1>4. /\ h.top \in DOMAIN h.chunks /\ h.top \in Nat /\ h.chunks[h.top].prev_inuse
      /\ ts \in Nat /\ ts >= MINSIZE /\ h.brk = h.top + ts
      /\ \A x \in DOMAIN h.chunks : x \in Nat /\ x < h.brk
  BY <1>1, OfTop
<1> HIDE DEF ts
<1>5. n \in Nat /\ n >= MINSIZE /\ h.brk + size = h.top + n /\ n - nb >= MINSIZE
  BY <1>2, <1>4 DEF MINSIZE
<1> HIDE DEF n
<1>6. CASE h.brk + size > End
  <2>1. GrowTop(h, nb) = h
    BY <1>0, <1>6
  <2>2. h.brk + size + 0 > End
    BY <1>2, <1>4, <1>6
  <2>3. NoRoom(h, h, nb)
    BY <2>2 DEF NoRoom, size
  <2>4. Kept(h, h)
    BY DEF Kept
  <2>. QED BY <2>1, <2>3, <2>4 DEF Extended
<1>7. CASE ~(h.brk + size > End)
  <2>1. GrowTop(h, nb) = g
    BY <1>0, <1>7
  <2>2. \A x \in DOMAIN h.chunks : x < k.top + n
    BY <1>2, <1>3, <1>4, <1>5
  <2>3. BinsFor(k.bins, k.binblocks, h.chunks, Below(Free(h), k.top))
    BY <1>1, <1>3, BelowTop DEF Binned
  <2>4. k.brk <= End /\ k.brk = k.top + n
    BY <1>1, <1>2, <1>3, <1>4, <1>5, <1>7
  <2>5. TopReady(h, k, n)
    BY <1>3, <1>4, <1>5, <2>2, <2>3, <2>4 DEF TopReady
  <2>6. TopMade(h, k, set_head(k, k.top, n, TRUE), n)
    BY <1>1, <1>5, <2>5, TopHead
  <2>7. TopMade(h, k, g, n)
    BY <1>3, <2>6
  <2> HIDE DEF g
  <2>8. Used(g) = Used(h) /\ g.top = h.top /\ g.chunks[g.top].size = n
    BY <1>1, <1>3, <2>7, BelowTop DEF TopMade
  <2>9. \A p \in Used(h) : g.chunks[p].size = h.chunks[p].size
    BY <1>1, <1>3, <2>7, BelowTop, Apiece DEF TopMade
  <2>10. Kept(h, g)
    BY <2>7, <2>8, <2>9 DEF Kept, TopMade
  <2>11. TopFits(g, nb)
    BY <1>5, <2>8 DEF TopFits, chunksize
  <2>. QED BY <2>1, <2>8, <2>10, <2>11 DEF Extended
<1>. QED BY <1>6, <1>7

(* A heap of one chunk, or none.                                           *)
LEMMA NoChunks ==
  ASSUME NEW h, HeapOK(h), h.top = null
  PROVE  DOMAIN h.chunks = {} /\ Free(h) = {} /\ Used(h) = {}
BY Apiece DEF HeapOK, Tiled, Tiles

LEMMA OneTop ==
  ASSUME NEW h, HeapOK(h), h.top = null, NEW g \in Heaps, g.stale = {}, g.brk <= End,
         g.bins = h.bins, g.binblocks = h.binblocks, g.top >= Start, g.top % 2 = 0,
         DOMAIN g.chunks = {g.top}, g.chunks[g.top].prev_inuse, g.chunks[g.top].size >= MINSIZE,
         g.brk = g.top + g.chunks[g.top].size
  PROVE  Kept(h, g)
<1> DEFINE t == g.top  c == g.chunks
<1>1. t \in Nat /\ t > 0 /\ c[t].size \in Nat /\ Start \in Nat
  BY Fields, MallocAssumption
<1>2. FreeIn(c, t) = {} /\ UsedIn(c, t) = {}
  BY DEF FreeIn, UsedIn
<1>3. Placed(c, t, t)
  BY <1>1, <1>2 DEF Placed, Apart, BeforeKnown, After
<1>4. Tiles(c, t, g.brk)
  BY <1>1, <1>3 DEF Tiles, After, null
<1>5. Start <= g.brk
  BY <1>1
<1>6. Tiled(g)
  BY <1>4, <1>5 DEF Tiled
<1>7. Free(h) = {} /\ Used(h) = {} /\ Free(g) = {} /\ Used(g) = {}
  BY <1>2, NoChunks DEF Free, Used
<1>8. BinsFor(g.bins, g.binblocks, h.chunks, {})
  BY <1>7 DEF HeapOK, Binned
<1>9. Binned(g, Free(g))
  BY <1>7, <1>8, SameSizes DEF Binned
<1>. QED BY <1>6, <1>7, <1>9 DEF HeapOK, Kept
LEMMA FirstGrown ==
  ASSUME NEW h, HeapOK(h), h.top = null, NEW nb, Words_(nb)
  PROVE  Extended(h, FirstTop(h, nb), nb)
<1> DEFINE asked == Needed(nb)
           full == RoundUp(asked, PageSize)
           size == IF h.based THEN full ELSE asked
           misalign == chunk2mem(h.brk) % MALLOC_ALIGNMENT
           brk == h.brk + misalign
           up == RoundUp(brk + size, PageSize)
           correction == misalign + up - (brk + size)
           low == sbrk(h, size)
           more == [low EXCEPT !.based = TRUE]
           far == sbrk(more, correction)
           k == [far EXCEPT !.top = brk]
           n == more.brk - brk + correction
           g == set_head(k, brk, n, TRUE)
<1>0. FirstTop(h, nb) = CASE h.brk + size > End -> h
                          [] ~(h.brk + size > End) /\ more.brk + correction > End -> more
                          [] OTHER -> g
  BY DEF FirstTop, Needed, sbrk_fails
<1>1. Tiled(h) /\ h \in Heaps /\ h.stale = {} /\ h.brk <= End /\ End \in Nat /\ Start <= h.brk /\ Start \in Nat
  BY MallocAssumption DEF HeapOK, Tiled
<1>2. DOMAIN h.chunks = {} /\ Free(h) = {} /\ Used(h) = {}
  BY NoChunks
<1>3. /\ asked \in Nat /\ nb \in Nat /\ asked >= nb + MINSIZE /\ PageSize \in Nat \ {0}
      /\ full \in Nat /\ full >= asked
  BY Need
<1> HIDE DEF asked, full
<1>4. size \in Nat /\ size >= asked /\ size <= full
  BY <1>3
<1>5. h.brk \in Nat
  BY <1>1, Fields
<1>6. misalign \in {0, 1} /\ brk \in Nat /\ brk % 2 = 0 /\ brk >= h.brk /\ brk + size \in Nat /\ misalign \in Nat
  <2>1. misalign = (h.brk + 2) % 2
    BY DEF chunk2mem, MALLOC_ALIGNMENT
  <2>2. misalign \in {0, 1}
    BY <1>5, <2>1
  <2>3. (h.brk + misalign) % 2 = 0
    BY <1>5, <2>1
  <2> HIDE DEF misalign
  <2>. QED BY <1>4, <1>5, <2>2, <2>3
<1> HIDE DEF size
<1>7. up \in Nat /\ up >= brk + size /\ up < brk + size + PageSize
  <2> DEFINE x == brk + size
  <2>1. x \in Nat
    BY <1>6
  <2> HIDE DEF x
  <2>2. RoundUp(x, PageSize) \in Nat /\ x <= RoundUp(x, PageSize) /\ RoundUp(x, PageSize) < x + PageSize
    BY <1>3, <2>1, RoundedUp
  <2>. QED BY <2>2 DEF x
<1> HIDE DEF up
<1>8. brk = h.brk + misalign
  OBVIOUS
<1> HIDE DEF misalign, brk
<1>9. correction \in Nat /\ correction <= PageSize
  BY <1>3, <1>4, <1>6, <1>7
<1>10. correction + size = misalign + up - brk
  BY <1>3, <1>4, <1>6, <1>7
<1> HIDE DEF correction
<1>11. /\ low \in Heaps /\ low.brk = h.brk + size /\ low.top = h.top /\ low.chunks = h.chunks
       /\ low.bins = h.bins /\ low.binblocks = h.binblocks /\ low.stale = {}
  BY <1>1, <1>4, BreakUp
<1> HIDE DEF low
<1>12. /\ more \in Heaps /\ more.brk = h.brk + size /\ more.top = h.top /\ more.chunks = h.chunks
       /\ more.bins = h.bins /\ more.binblocks = h.binblocks /\ more.stale = {}
  BY <1>11 DEF Heaps
<1> HIDE DEF more
<1>13. CASE h.brk + size > End
  <2>1. FirstTop(h, nb) = h
    BY <1>0, <1>13
  <2>2. h.brk + full + PageSize > End
    BY <1>1, <1>3, <1>4, <1>5, <1>13
  <2>3. NoRoom(h, h, nb)
    BY <2>2 DEF NoRoom, full, asked
  <2>4. Kept(h, h)
    BY DEF Kept
  <2>. QED BY <2>1, <2>3, <2>4 DEF Extended
<1>14. CASE ~(h.brk + size > End) /\ more.brk + correction > End
  <2>1. FirstTop(h, nb) = more
    BY <1>0, <1>14
  <2>2. more.brk \in Nat /\ more.brk + full + PageSize > End
    BY <1>1, <1>3, <1>4, <1>5, <1>9, <1>12, <1>14
  <2>3. NoRoom(h, more, nb)
    BY <1>12, <2>2 DEF NoRoom, full, asked
  <2>4. Kept(h, more)
    <3>1. Start <= more.brk /\ more.brk <= End
      BY <1>1, <1>4, <1>5, <1>12, <1>14
    <3>2. Tiled(more)
      BY <1>2, <1>12, <3>1 DEF Tiled, Tiles
    <3>3. Free(more) = {} /\ Used(more) = {}
      BY <1>2, <1>12 DEF Free, Used, FreeIn, UsedIn
    <3>4. Binned(more, Free(more))
      BY <1>2, <1>12, <3>3 DEF HeapOK, Binned
    <3>. QED BY <1>2, <3>2, <3>3, <3>4 DEF HeapOK, Kept
  <2>. QED BY <1>2, <2>1, <2>3, <2>4 DEF Extended
<1>15. CASE ~(h.brk + size > End) /\ ~(more.brk + correction > End)
  <2>1. FirstTop(h, nb) = g
    BY <1>0, <1>15
  <2>2. /\ far \in Heaps /\ far.brk = more.brk + correction /\ far.chunks = h.chunks
        /\ far.bins = h.bins /\ far.binblocks = h.binblocks /\ far.stale = {}
    <3>1. /\ far \in Heaps /\ far.brk = more.brk + correction /\ far.chunks = more.chunks
          /\ far.bins = more.bins /\ far.binblocks = more.binblocks /\ far.stale = {}
      BY <1>9, <1>12, BreakUp
    <3>. QED BY <1>12, <3>1
  <2> HIDE DEF far
  <2>3. /\ k \in Heaps /\ k.brk = more.brk + correction /\ k.top = brk /\ k.chunks = h.chunks
        /\ k.bins = h.bins /\ k.binblocks = h.binblocks /\ k.stale = {}
    BY <1>6, <2>2 DEF Heaps
  <2> HIDE DEF k
  <2>4. n \in Nat /\ n >= nb + MINSIZE /\ more.brk + correction = brk + n
    <3>1. /\ size \in Nat /\ h.brk \in Nat /\ misalign \in Nat /\ brk \in Nat /\ up \in Nat
          /\ correction \in Nat /\ asked \in Nat /\ nb \in Nat
      BY <1>3, <1>4, <1>5, <1>6, <1>7, <1>9
    <3>2. n = (h.brk + size) - brk + correction
      BY <1>12
    <3> HIDE DEF n
    <3>3. n = up - brk
      BY <1>8, <1>10, <3>1, <3>2
    <3>4. n >= size
      BY <1>7, <3>1, <3>3
    <3>5. n \in Nat /\ more.brk + correction = brk + n
      BY <1>12, <3>1, <3>2, <3>3, <3>4
    <3>. QED BY <1>3, <1>4, <3>1, <3>4, <3>5 DEF MINSIZE
  <2> HIDE DEF n
  <2>5. Alike(k, g) /\ HeadIn(k.chunks, g.chunks, brk, n, TRUE)
    BY <1>6, <2>3, <2>4, HeadSet
  <2> HIDE DEF g
  <2>6. /\ g \in Heaps /\ g.stale = {} /\ g.brk = brk + n /\ g.bins = h.bins /\ g.binblocks = h.binblocks
        /\ g.top = brk
    BY <2>3, <2>4, <2>5 DEF Alike
  <2>7. DOMAIN g.chunks = {brk} /\ g.chunks[brk].size = n /\ g.chunks[brk].prev_inuse
    BY <1>2, <2>3, <2>5 DEF HeadIn
  <2>8. g.brk <= End /\ brk >= Start /\ n >= MINSIZE
    BY <1>1, <1>3, <1>5, <1>6, <1>9, <1>12, <1>15, <2>4, <2>6 DEF MINSIZE
  <2>9. Kept(h, g)
    BY <1>6, <2>6, <2>7, <2>8, OneTop
  <2>10. TopFits(g, nb)
    <3>1. brk # null
      BY <1>1, <1>6, <2>8, MallocAssumption DEF null
    <3>2. chunksize(g, g.top) = n
      BY <2>6, <2>7, <3>1 DEF chunksize
    <3>. QED BY <1>3, <2>4, <3>2 DEF TopFits, MINSIZE
  <2>. QED BY <2>1, <2>9, <2>10 DEF Extended
<1>. QED BY <1>13, <1>14, <1>15

LEMMA TopExtended ==
  ASSUME NEW h, HeapOK(h), NEW nb, Words_(nb)
  PROVE  Extended(h, malloc_extend_top(h, nb), nb)
BY Grown, FirstGrown DEF malloc_extend_top

(* A chunk of nb words is cut from the end, and the rest is top.           *)
TopTaken(h, g, lo, nb) ==
  /\ g \in Heaps /\ g.brk = h.brk /\ g.stale = {} /\ g.bins = h.bins /\ g.binblocks = h.binblocks
  /\ g.top = lo + nb /\ TopHalved(h.chunks, g.chunks, lo, lo + nb, h.brk)

LEMMA TopCut ==
  ASSUME NEW h, Tiled(h), NEW lo \in DOMAIN h.chunks, NEW nb, Words_(nb), h.brk - (lo + nb) >= MINSIZE,
         BinsFor(h.bins, h.binblocks, h.chunks, Below(Free(h), lo)),
         NEW g, TopTaken(h, g, lo, nb)
  PROVE  /\ HeapOK(g) /\ Used(g) = Below(Used(h), lo) \cup {lo} /\ g.chunks[lo].size = nb
         /\ \A p \in DOMAIN h.chunks : p < lo => g.chunks[p].size = h.chunks[p].size
<1> DEFINE mid == lo + nb
<1>1. lo \in Nat /\ lo % 2 = 0 /\ h.brk \in Nat /\ nb \in Nat /\ nb % 2 = 0 /\ nb >= MINSIZE
  BY OfChunk, Fields DEF Tiled, Words_
<1>2. mid \in Nat /\ mid % 2 = 0 /\ mid - lo = nb /\ mid - lo >= MINSIZE /\ h.brk - mid >= MINSIZE
  BY <1>1 DEF MINSIZE
<1>3. /\ g \in Heaps /\ g.brk = h.brk /\ g.stale = {} /\ g.bins = h.bins /\ g.binblocks = h.binblocks
      /\ g.top = mid /\ TopHalved(h.chunks, g.chunks, lo, mid, h.brk)
  BY DEF TopTaken
<1> HIDE DEF mid
<1>4. /\ Tiled(g) /\ lo \in DOMAIN g.chunks
      /\ Free(g) = Below(Free(h), lo) /\ Used(g) = Below(Used(h), lo) \cup {lo}
      /\ \A p \in DOMAIN h.chunks : p < lo => g.chunks[p].size = h.chunks[p].size
  <2>1. g.top % 2 = 0 /\ g.top - lo >= MINSIZE /\ g.brk - g.top >= MINSIZE
    BY <1>2, <1>3
  <2>2. TopHalved(h.chunks, g.chunks, lo, g.top, g.brk)
    BY <1>3
  <2>. QED BY <1>3, <2>1, <2>2, HeapTopTwo
<1>5. \A p \in Below(Free(h), lo) : g.chunks[p].size = h.chunks[p].size
  BY <1>4, Apiece DEF Below
<1>6. BinsFor(g.bins, g.binblocks, h.chunks, Below(Free(h), lo))
  BY <1>3
<1>7. BinsFor(g.bins, g.binblocks, g.chunks, Below(Free(h), lo))
  BY <1>5, <1>6, SameSizes
<1>8. HeapOK(g)
  BY <1>4, <1>7 DEF HeapOK, Binned
<1>9. g.chunks[lo].size = nb
  BY <1>2, <1>3 DEF TopHalved
<1>. QED BY <1>4, <1>8, <1>9
LEMMA CutTop ==
  ASSUME NEW h, Tiled(h), NEW lo \in DOMAIN h.chunks, NEW mid, NEW c2, Cut(h.chunks, c2, lo, mid, h.brk)
  PROVE  TopHalved(h.chunks, c2, lo, mid, h.brk)
<1>1. h.top # null
  BY OfChunk
<1>2. \A x \in DOMAIN h.chunks : x \in Nat /\ x < h.brk
  BY <1>1, OfTop
<1>3. h.brk \in Nat
  BY <1>1, OfTop
<1>4. {q \in DOMAIN h.chunks : q <= lo \/ q >= h.brk} = {q \in DOMAIN h.chunks : q <= lo}
  BY <1>2, <1>3
<1>. QED BY <1>4 DEF Cut, TopHalved

LEMMA GotOfKept ==
  ASSUME NEW h, HeapOK(h), NEW g, Kept(h, g), h.top # null => g.top = h.top, g.top # null, NEW nb, Words_(nb),
         NEW s, TopTaken(g, s, g.top, nb), g.brk - (g.top + nb) >= MINSIZE
  PROVE  Gains(h, s, g.top, nb)
<1>1. /\ Tiled(g) /\ BinsFor(g.bins, g.binblocks, g.chunks, Free(g))
      /\ Used(g) = Used(h) /\ \A q \in Used(g) : g.chunks[q].size = h.chunks[q].size
  BY DEF Kept, HeapOK, Binned
<1>2. /\ Below(Free(g), g.top) = Free(g) /\ Below(Used(g), g.top) = Used(g)
      /\ \A q \in Used(g) : q < g.top /\ q \in DOMAIN g.chunks
  BY <1>1, BelowTop, Apiece
<1>3. g.top \in DOMAIN g.chunks /\ g.top \notin Used(g)
  BY <1>1, OfTop, Apiece
<1>4. /\ HeapOK(s) /\ Used(s) = Below(Used(g), g.top) \cup {g.top} /\ s.chunks[g.top].size = nb
      /\ \A p \in DOMAIN g.chunks : p < g.top => s.chunks[p].size = g.chunks[p].size
  BY <1>1, <1>2, <1>3, TopCut
<1>5. s.top = After(s.chunks, g.top)
  BY <1>4 DEF TopTaken, After
<1>6. s.chunks[g.top].size >= nb
  BY <1>4 DEF Words_
<1>7. \A q \in Used(h) : s.chunks[q].size = h.chunks[q].size
  BY <1>1, <1>2, <1>4
<1>. QED BY <1>1, <1>2, <1>3, <1>4, <1>5, <1>6, <1>7 DEF Gains

LEMMA Top ==
  ASSUME NEW h, HeapOK(h), NEW nb, Words_(nb), NEW r, r = FromTop(h, nb)
  PROVE  \/ Got(h, r, nb)
         \/ r.mem = null /\ Kept(h, r.heap) /\ NoRoom(h, r.heap, nb)
<1> DEFINE g == IF TopFits(h, nb) THEN h ELSE malloc_extend_top(h, nb)
           ts == chunksize(g, g.top)
           rest == ts - nb
           t == [g EXCEPT !.top = g.top + nb]
           cut == set_head(t, g.top, nb, TRUE)
           s == set_head(cut, g.top + nb, rest, TRUE)
<1>0. nb \in Nat /\ nb >= MINSIZE
  BY DEF Words_
<1>1. Extended(h, g, nb)
  <2>1. CASE TopFits(h, nb)
    <3>1. Kept(h, h)
      BY DEF Kept
    <3>. QED BY <2>1, <3>1 DEF Extended
  <2>2. CASE ~TopFits(h, nb)
    BY <2>2, TopExtended
  <2>. QED BY <2>1, <2>2
<1> HIDE DEF g
<1>2. HeapOK(g) /\ Tiled(g) /\ g \in Heaps /\ Kept(h, g) /\ (h.top # null => g.top = h.top)
      /\ (TopFits(g, nb) \/ NoRoom(h, g, nb))
  BY <1>1 DEF Extended, Kept, HeapOK, Tiled
<1>3. r = IF TopFits(g, nb) THEN Result(s, chunk2mem(g.top)) ELSE Result(g, null)
  BY <1>2 DEF FromTop, g, Heaps
<1>4. CASE ~TopFits(g, nb)
  <2>1. r.mem = null /\ r.heap = g
    BY <1>3, <1>4 DEF Result
  <2>. QED BY <1>2, <1>4, <2>1
<1>5. CASE TopFits(g, nb)
  <2>1. g.top # null
    BY <1>0, <1>5 DEF TopFits, chunksize, MINSIZE
  <2>2. /\ g.top \in DOMAIN g.chunks /\ g.top \in Nat /\ g.chunks[g.top].prev_inuse = TRUE
        /\ ts \in Nat /\ g.brk = g.top + ts
    <3>1. g.chunks[g.top].prev_inuse \in BOOLEAN
      BY <1>2, <2>1, OfTop, Fields
    <3>. QED BY <1>2, <2>1, <3>1, OfTop
  <2>3. ts - nb >= MINSIZE
    BY <1>5 DEF TopFits
  <2> HIDE DEF ts
  <2> DEFINE mid == g.top + nb
  <2>4. /\ mid \in Nat /\ g.top < mid /\ mid < g.brk /\ mid - g.top = nb /\ g.brk - mid = rest
        /\ g.brk - mid >= MINSIZE /\ rest \in Nat /\ g.brk \in Nat
    BY <1>0, <2>2, <2>3 DEF MINSIZE
  <2>5. t \in Heaps /\ t.chunks = g.chunks /\ t.top = mid /\ t.brk = g.brk /\ t.stale = g.stale
        /\ t.bins = g.bins /\ t.binblocks = g.binblocks
    BY <1>2, <2>4 DEF Heaps
  <2> HIDE DEF t
  <2>6. s = CutOf(t, g.top, mid, g.brk)
    <3>1. prev_inuse(t, g.top) = TRUE
      BY <2>2, <2>5 DEF prev_inuse
    <3>. QED BY <2>4, <3>1 DEF CutOf, set_head_size
  <2> HIDE DEF s, mid
  <2>7. Alike(t, s) /\ Cut(t.chunks, s.chunks, g.top, mid, g.brk)
    BY <2>2, <2>4, <2>5, <2>6, CutMade
  <2>8. TopHalved(g.chunks, s.chunks, g.top, mid, g.brk)
    BY <1>2, <2>2, <2>5, <2>7, CutTop
  <2>9. TopTaken(g, s, g.top, nb)
    BY <1>2, <2>5, <2>7, <2>8 DEF TopTaken, Alike, Tiled, mid
  <2>10. g.brk - (g.top + nb) >= MINSIZE
    BY <2>4 DEF mid
  <2>11. Gains(h, s, g.top, nb)
    BY <1>2, <2>1, <2>9, <2>10, GotOfKept
  <2>12. r.heap = s /\ r.mem = chunk2mem(g.top)
    BY <1>3, <1>5 DEF Result
  <2>13. r.mem # null /\ r.mem \in Nat /\ mem2chunk(r.mem) = g.top
    BY <2>2, <2>12 DEF chunk2mem, mem2chunk, null
  <2>. QED BY <2>2, <2>11, <2>12, <2>13 DEF Got
<1>. QED BY <1>4, <1>5

(* No free chunk would do, and the break cannot be moved far enough.       *)
Refused(g, nb) ==
  /\ \A p \in Free(g) : g.chunks[p].size < nb
  /\ g.brk + RoundUp(Needed(nb), PageSize) + (IF g.top = null THEN PageSize ELSE 0) > End

Answered(h, r, nb) ==
  \/ Got(h, r, nb)
  \/ r.mem = null /\ Kept(h, r.heap) /\ Refused(r.heap, nb)

LEMMA Allocated ==
  ASSUME NEW h, HeapOK(h), NEW n \in Nat, NEW nb, nb = request2size(n), NEW r, r = mALLOc(h, n)
  PROVE  Words_(nb) /\ Answered(h, r, nb)
<1> DEFINE r1 == FromOwnBin(h, nb)
           r2 == FromLastRemainder(r1.heap, nb)
           r3 == FromBlocks(r2.heap, nb, ScanFrom(h, nb))
           r4 == FromTop(r3.heap, nb)
<1>0. Words_(nb) /\ nb \in Nat /\ nb >= MINSIZE
  BY RequestSize DEF Words_
<1>1. r = IF r1.mem # null THEN r1 ELSE IF r2.mem # null THEN r2 ELSE IF r3.mem # null THEN r3 ELSE r4
  BY DEF mALLOc, OrElse
<1>2. BinOf(nb) \in 2 .. NAV - 2 /\ NAV \in Nat
  BY <1>0, BinInRange, Tables
<1>3. CASE r1.mem # null
  <2>1. Got(h, r1, nb)
    BY <1>0, <1>3, OwnBin
  <2>. QED BY <1>0, <1>1, <1>3, <2>1 DEF Answered
<1>4. CASE r1.mem = null
  <2>1. r1.heap = h /\ (is_small_request(nb) => ~Suits(h, BinOf(nb), nb) /\ ~Suits(h, BinOf(nb) + 1, nb))
    <3>1. ~Got(h, r1, nb)
      BY <1>4 DEF Got
    <3>. QED BY <1>0, <3>1, OwnBin
  <2> HIDE DEF r1
  <2>2. r2 = FromLastRemainder(h, nb)
    BY <2>1
  <2>3. CASE r2.mem # null
    <3>1. Got(h, r2, nb)
      BY <1>0, <2>2, <2>3, Remainder
    <3>. QED BY <1>0, <1>1, <1>4, <2>3, <3>1 DEF Answered
  <2>4. CASE r2.mem = null
    <3> DEFINE h2 == r2.heap
               from == ScanFrom(h, nb)
    <3>1. /\ HeapOK(h2) /\ Rebinned(h, h2) /\ h2.bins[last_remainder] = <<>>
          /\ \A i \in 2 .. NAV - 1 : Suits(h2, i, nb) <=> Suits(h, i, nb)
      <4>1. ~Got(h, r2, nb)
        BY <2>4 DEF Got
      <4>. QED BY <1>0, <2>2, <4>1, Remainder
    <3> HIDE DEF r2
    <3>2. r3 = FromBlocks(h2, nb, from)
      OBVIOUS
    <3> HIDE DEF h2
    <3>3. /\ from \in BinOf(nb) .. NAV /\ (from = BinOf(nb) => Suits(h, from, nb))
          /\ \A i \in BinOf(nb) .. from - 1 : ~Suits(h, i, nb)
      <4>1. CASE is_small_request(nb)
        <5>1. from = BinOf(nb) + 2
          BY <4>1 DEF ScanFrom
        <5> HIDE DEF from
        <5>2. \A i \in BinOf(nb) .. from - 1 : i = BinOf(nb) \/ i = BinOf(nb) + 1
          BY <1>2, <5>1
        <5>. QED BY <1>2, <2>1, <4>1, <5>1, <5>2
      <4>2. CASE ~is_small_request(nb)
        <5>1. from = IF Fitting(h, BinOf(nb), nb) # {} THEN BinOf(nb) ELSE BinOf(nb) + 1
          BY <4>2 DEF ScanFrom
        <5>2. Suits(h, BinOf(nb), nb) <=> Fitting(h, BinOf(nb), nb) # {}
          BY <1>0, <1>2, Fits
        <5> HIDE DEF from
        <5>3. from = IF Suits(h, BinOf(nb), nb) THEN BinOf(nb) ELSE BinOf(nb) + 1
          BY <5>1, <5>2
        <5>4. \A i \in BinOf(nb) .. from - 1 : i = BinOf(nb) /\ ~Suits(h, BinOf(nb), nb)
          BY <1>2, <5>3
        <5>. QED BY <1>2, <5>3, <5>4
      <4>. QED BY <4>1, <4>2
    <3> HIDE DEF from
    <3>4. from = BinOf(nb) => Suits(h2, from, nb)
      <4>1. BinOf(nb) \in 2 .. NAV - 1
        BY <1>2
      <4>. QED BY <3>1, <3>3, <4>1
    <3>5. CASE r3.mem # null
      <4>1. Got(h2, r3, nb)
        BY <1>0, <3>1, <3>2, <3>3, <3>4, <3>5, Blocks_
      <4>2. Got(h, r3, nb)
        BY <3>1, <4>1, GotOver
      <4>. QED BY <1>0, <1>1, <1>4, <2>4, <3>5, <4>2 DEF Answered
    <3>6. CASE r3.mem = null
      <4> DEFINE h3 == r3.heap
      <4>1. /\ HeapOK(h3) /\ Rebinned(h2, h3) /\ \A i \in from .. NAV - 1 : ~Suits(h2, i, nb)
        <5>1. ~Got(h2, r3, nb)
          BY <3>6 DEF Got
        <5>. QED BY <1>0, <3>1, <3>2, <3>3, <3>4, <5>1, Blocks_
      <4> HIDE DEF r3
      <4>2. r4 = FromTop(h3, nb)
        OBVIOUS
      <4> HIDE DEF h3
      <4>3. Rebinned(h, h3)
        BY <3>1, <4>1, RebinnedTwice
      <4>4. \A p \in Free(h2) : h2.chunks[p].size < nb
        <5>1. ASSUME NEW i \in BinOf(nb) .. NAV - 1 PROVE ~Suits(h2, i, nb)
          <6>1. i \in 2 .. NAV - 1
            BY <1>2
          <6>2. i \in BinOf(nb) .. from - 1 \/ i \in from .. NAV - 1
            BY <1>2, <3>3
          <6>. QED BY <3>1, <3>3, <4>1, <6>1, <6>2
        <5>. QED BY <1>0, <3>1, <5>1, Searched
      <4>5. Free(h3) = Free(h2) /\ h3.chunks = h2.chunks
        BY <4>1 DEF Rebinned, Free
      <4>6. r = r4
        BY <1>1, <1>4, <2>4, <3>6
      <4>7. CASE Got(h3, r4, nb)
        <5>1. Got(h, r4, nb)
          BY <4>3, <4>7, GotOver
        <5>. QED BY <1>0, <4>6, <5>1 DEF Answered
      <4>8. CASE ~Got(h3, r4, nb)
        <5>1. r4.mem = null /\ Kept(h3, r4.heap) /\ NoRoom(h3, r4.heap, nb)
          BY <1>0, <4>1, <4>2, <4>8, Top
        <5> DEFINE g == r4.heap
        <5>2. Free(g) = Free(h3) /\ g.chunks = h3.chunks
          BY <5>1 DEF NoRoom, Free
        <5>3. Refused(g, nb)
          BY <4>4, <4>5, <5>1, <5>2 DEF Refused, NoRoom
        <5>4. Kept(h, g)
          BY <4>3, <5>1 DEF Kept, Rebinned, Used
        <5>. QED BY <1>0, <4>6, <5>1, <5>3, <5>4 DEF Answered
      <4>. QED BY <4>7, <4>8
    <3>. QED BY <3>5, <3>6
  <2>. QED BY <2>3, <2>4
<1>. QED BY <1>3, <1>4-----------------------------------------------------------------------------
(* A chunk in use and what follows it up to hi become one in use.          *)
LEMMA JoinMade ==
  ASSUME NEW h, Tiled(h), NEW lo \in DOMAIN h.chunks, NEW hi \in DOMAIN h.chunks, lo < hi,
         NEW size, size = hi - lo, NEW g, g = set_inuse_bit_at(set_head_size(h, lo, size), hi)
  PROVE  Alike(h, g) /\ Joined(h.chunks, g.chunks, lo, hi) /\ g.chunks[hi].prev_inuse
<1> DEFINE c == h.chunks
           prev == c[lo].prev_inuse
           k == set_head(h, lo, size, prev)
           n == c[hi].size
           s == set_head(k, hi, n, TRUE)
<1>1. /\ lo \in Nat /\ hi \in Nat /\ size \in Nat /\ lo # hi /\ hi # null /\ lo + size = hi /\ h \in Heaps
      /\ prev \in BOOLEAN /\ n \in Nat
  <2>1. lo \in Nat /\ hi \in Nat /\ hi # null /\ h \in Heaps /\ prev \in BOOLEAN /\ n \in Nat
    BY OfChunk DEF Tiled
  <2>. QED BY <2>1
<1>2. k = set_head_size(h, lo, size)
  BY DEF set_head_size, prev_inuse
<1>3. \A q \in DOMAIN c : q <= hi \/ q >= hi + n
  BY OfChunk DEF After
<1> HIDE DEF prev
<1>4. Alike(h, k) /\ HeadIn(c, k.chunks, lo, size, prev)
  BY <1>1, HeadSet
<1>5. k \in Heaps
  BY <1>4 DEF Alike
<1>6. /\ DOMAIN k.chunks = {q \in DOMAIN c : q <= lo \/ q >= hi}
      /\ k.chunks[lo].size = size /\ k.chunks[lo].prev_inuse = prev
      /\ ~prev => k.chunks[lo].prev_size = c[lo].prev_size
      /\ \A q \in DOMAIN k.chunks : q # lo => k.chunks[q] = c[q]
  <2>1. {q \in DOMAIN c : q <= lo \/ q >= lo + size} \cup {lo} = {q \in DOMAIN c : q <= lo \/ q >= hi}
    BY <1>1
  <2> HIDE DEF k
  <2>. QED BY <1>4, <2>1 DEF HeadIn
<1> HIDE DEF k
<1>7. hi \in DOMAIN k.chunks /\ lo \in DOMAIN k.chunks /\ k.chunks[hi] = c[hi]
  BY <1>1, <1>6
<1>8. g = s
  BY <1>1, <1>2, <1>7 DEF set_inuse_bit_at, chunksize
<1> HIDE DEF n
<1>9. Alike(k, s) /\ HeadIn(k.chunks, s.chunks, hi, n, TRUE)
  BY <1>1, <1>5, HeadSet
<1> HIDE DEF s
<1>10. Alike(h, g)
  BY <1>4, <1>8, <1>9, AlikeTwice
<1>11. /\ DOMAIN g.chunks = DOMAIN k.chunks
       /\ \A q \in DOMAIN k.chunks : q # hi => g.chunks[q] = k.chunks[q]
       /\ g.chunks[hi].size = n /\ g.chunks[hi].prev_inuse
  <2>1. {q \in DOMAIN k.chunks : q <= hi \/ q >= hi + n} \cup {hi} = DOMAIN k.chunks
    BY <1>3, <1>6, <1>7
  <2>. QED BY <1>8, <1>9, <2>1 DEF HeadIn
<1>12. g.chunks[lo] = k.chunks[lo]
  BY <1>1, <1>7, <1>11
<1>13. Joined(c, g.chunks, lo, hi)
  BY <1>6, <1>11, <1>12 DEF Joined, n, prev
<1>. QED BY <1>10, <1>11, <1>13

(* A chunk in use of at least nb words takes the place of those from q up  *)
(* to hi, none of which is in a list.                                      *)
Spare(h, q, hi) ==
  /\ Tiled(h) /\ q \in DOMAIN h.chunks /\ hi \in DOMAIN h.chunks /\ q < hi
  /\ BinsFor(h.bins, h.binblocks, h.chunks, Outside(Free(h), q, hi))

Holds(h, g, q, hi, nb) ==
  /\ HeapOK(g) /\ Used(g) = Outside(Used(h), q, hi) \cup {q} /\ g.chunks[q].size >= nb
  /\ \A x \in Outside(Used(h), q, hi) : g.chunks[x].size = h.chunks[x].size

LEMMA SizesKept ==
  ASSUME NEW h, Tiled(h), NEW lo, NEW hi, NEW g, Keeps(h, g, lo, hi)
  PROVE  \A p \in Outside(Free(h), lo, hi) \cup Outside(Used(h), lo, hi) : g.chunks[p].size = h.chunks[p].size
BY Apiece DEF Keeps, Outside

LEMMA Shortened ==
  ASSUME NEW h, NEW q, NEW hi, Spare(h, q, hi), NEW nb, Words_(nb), NEW size, size = hi - q, size >= nb
  PROVE  Holds(h, SplitOff(h, q, size, nb), q, hi, nb)
<1> DEFINE c == h.chunks
           rest == size - nb
           mid == q + nb
           k == CutOf(h, q, mid, hi)
           k2 == set_inuse_bit_at(k, hi)
           j == set_inuse_bit_at(set_head_size(h, q, size), hi)
           B == Outside(Free(h), q, hi)
           U == Outside(Used(h), q, hi)
<1>1. /\ Tiled(h) /\ h \in Heaps /\ q \in DOMAIN c /\ hi \in DOMAIN c /\ q < hi
      /\ BinsFor(h.bins, h.binblocks, c, B)
  BY DEF Spare, Tiled
<1>2. /\ q \in Nat /\ hi \in Nat /\ q % 2 = 0 /\ nb \in Nat /\ nb % 2 = 0 /\ nb >= MINSIZE
      /\ size \in Nat /\ q + size = hi /\ rest \in Nat /\ mid \in Nat /\ hi - mid = rest /\ mid - q = nb
      /\ mid % 2 = 0 /\ q < mid
  <2>1. q \in Nat /\ hi \in Nat /\ q % 2 = 0 /\ nb \in Nat /\ nb % 2 = 0 /\ nb >= MINSIZE
    BY <1>1, OfChunk DEF Words_
  <2>2. mid \in Nat /\ mid % 2 = 0
    BY <2>1
  <2>. QED BY <1>1, <2>1, <2>2 DEF MINSIZE
<1>3. SplitOff(h, q, size, nb) = IF rest >= MINSIZE THEN fREe(k2, chunk2mem(mid)) ELSE j
  BY <1>2 DEF SplitOff, CutOf
<1> HIDE DEF rest, mid, B, U
<1>4. CASE rest >= MINSIZE
  <2>1. mid < hi
    BY <1>2, <1>4 DEF MINSIZE
  <2>2. Alike(h, k) /\ Cut(c, k.chunks, q, mid, hi)
    BY <1>1, <1>2, <2>1, CutMade
  <2> HIDE DEF k
  <2>3. Alike(h, k2) /\ Halved(c, k2.chunks, q, mid, hi) /\ k2.chunks[hi].prev_inuse
    BY <1>1, <1>2, <2>1, <2>2, BitOfCut
  <2> HIDE DEF k2
  <2>4. /\ Tiled(k2) /\ Keeps(h, k2, q, hi)
        /\ Free(k2) = Outside(Free(h), q, hi) \cup (IF k2.chunks[hi].prev_inuse THEN {} ELSE {mid})
        /\ Used(k2) = Outside(Used(h), q, hi) \cup (IF k2.chunks[hi].prev_inuse THEN {q, mid} ELSE {q})
    <3>1. mid - q >= MINSIZE /\ hi - mid >= MINSIZE
      BY <1>2, <1>4
    <3>2. ~k2.chunks[hi].prev_inuse => FreeBefore(h, k2.chunks, hi, hi - mid)
      BY <2>3
    <3>3. mid \in Nat /\ mid % 2 = 0 /\ q \in DOMAIN c /\ hi \in DOMAIN c /\ Tiled(h)
      BY <1>1, <1>2
    <3>4. Alike(h, k2) /\ Halved(c, k2.chunks, q, mid, hi)
      BY <2>3
    <3>. QED BY <3>1, <3>2, <3>3, <3>4, HeapHalved
  <2>5. Free(k2) = B /\ Used(k2) = U \cup {q, mid}
    BY <2>3, <2>4 DEF B, U
  <2>6. \A p \in B \cup U : k2.chunks[p].size = c[p].size
    BY <1>1, <2>4, SizesKept DEF B, U
  <2>7. BinsFor(k2.bins, k2.binblocks, c, B)
    BY <1>1, <2>3 DEF Alike
  <2>8. BinsFor(k2.bins, k2.binblocks, k2.chunks, B)
    BY <2>6, <2>7, SameSizes
  <2>9. HeapOK(k2)
    BY <2>4, <2>5, <2>8 DEF HeapOK, Binned
  <2> DEFINE g == fREe(k2, chunk2mem(mid))
  <2>10. mem2chunk(chunk2mem(mid)) = mid
    BY <1>2 DEF mem2chunk, chunk2mem
  <2>11. Loses(k2, g, mid)
    <3>1. mid \in Used(k2)
      BY <2>5
    <3>. QED BY <2>9, <2>10, <3>1, Freed
  <2> HIDE DEF g
  <2>12. mid \notin U /\ mid # q
    BY <1>2, <2>1 DEF U, Outside
  <2>13. Used(g) = U \cup {q}
    BY <2>5, <2>11, <2>12 DEF Loses
  <2>14. g.chunks[q].size = k2.chunks[q].size /\ k2.chunks[q].size = nb
    BY <1>2, <2>3, <2>11, <2>13 DEF Loses, Halved
  <2>15. \A x \in U : g.chunks[x].size = c[x].size
    BY <2>6, <2>11, <2>13 DEF Loses
  <2>16. Holds(h, g, q, hi, nb)
    BY <1>2, <2>11, <2>13, <2>14, <2>15 DEF Holds, Loses, U
  <2>. QED BY <1>3, <1>4, <2>16 DEF g
<1>5. CASE ~(rest >= MINSIZE)
  <2>1. Alike(h, j) /\ Joined(c, j.chunks, q, hi) /\ j.chunks[hi].prev_inuse
    BY <1>1, JoinMade
  <2> HIDE DEF j
  <2>2. /\ Tiled(j) /\ Keeps(h, j, q, hi)
        /\ Free(j) = Outside(Free(h), q, hi) \cup (IF j.chunks[hi].prev_inuse THEN {} ELSE {q})
        /\ Used(j) = Outside(Used(h), q, hi) \cup (IF j.chunks[hi].prev_inuse THEN {q} ELSE {})
    BY <1>1, <2>1, HeapJoined
  <2>3. Free(j) = B /\ Used(j) = U \cup {q}
    BY <2>1, <2>2 DEF B, U
  <2>4. \A p \in B \cup U : j.chunks[p].size = c[p].size
    BY <1>1, <2>2, SizesKept DEF B, U
  <2>5. BinsFor(j.bins, j.binblocks, c, B)
    BY <1>1, <2>1 DEF Alike
  <2>6. BinsFor(j.bins, j.binblocks, j.chunks, B)
    BY <2>4, <2>5, SameSizes
  <2>7. HeapOK(j)
    BY <2>2, <2>3, <2>6 DEF HeapOK, Binned
  <2>8. j.chunks[q].size >= nb
    BY <2>1 DEF Joined
  <2>9. Holds(h, j, q, hi, nb)
    BY <2>3, <2>4, <2>7, <2>8 DEF Holds, U
  <2>. QED BY <1>3, <1>5, <2>9
<1>. QED BY <1>4, <1>5
(* The chunk p in use with a free chunk before it, or not, and one after   *)
(* it, or not: B and A are those.                                          *)
Before(h, p, q, B) ==
  \/ q = p /\ B = {}
  \/ q \in Free(h) /\ After(h.chunks, q) = p /\ B = {q}

Follows(h, next, hi, A) ==
  \/ hi = next /\ A = {}
  \/ next \in Free(h) /\ hi = After(h.chunks, next) /\ A = {next}

Enclosed(h, p, q, hi, B, A) ==
  /\ q \in DOMAIN h.chunks /\ hi \in DOMAIN h.chunks /\ q < hi
  /\ Outside(Free(h), q, hi) = Free(h) \ (B \cup A)
  /\ Outside(Used(h), q, hi) = Used(h) \ {p}

LEMMA Around ==
  ASSUME NEW h, Tiled(h), NEW p \in Used(h), NEW q, NEW B, Before(h, p, q, B),
         NEW hi, NEW A, Follows(h, After(h.chunks, p), hi, A)
  PROVE  Enclosed(h, p, q, hi, B, A)
<1> USE DEF Enclosed
<1> DEFINE c == h.chunks  next == After(c, p)
<1>1. p \in DOMAIN c /\ p # h.top /\ p \notin Free(h)
  BY Apiece
<1>2. p \in Nat /\ next \in Nat /\ p < next /\ next \in DOMAIN c
  BY <1>1, OfChunk
<1> HIDE DEF next
<1>3. q \in DOMAIN c /\ q \in Nat /\ q <= p
  <2>1. CASE q = p
    BY <1>1, <1>2, <2>1
  <2>2. CASE q \in Free(h) /\ After(c, q) = p
    BY <1>2, <2>2, Apiece, OfChunk
  <2>. QED BY <2>1, <2>2 DEF Before
<1>4. hi \in DOMAIN c /\ hi \in Nat /\ hi >= next
  <2>1. CASE hi = next
    BY <1>2, <2>1
  <2>2. CASE next \in Free(h) /\ hi = After(c, next)
    <3>1. next # h.top
      BY <2>2, Apiece
    <3>. QED BY <1>2, <2>2, <3>1, OfChunk
  <2>. QED BY <2>1, <2>2 DEF Follows, next
<1>5. q < hi
  BY <1>2, <1>3, <1>4
<1>6. Free(h) \subseteq DOMAIN c /\ Used(h) \subseteq DOMAIN c /\ Free(h) \cap Used(h) = {}
  BY Apiece
<1>7. CASE q = p /\ B = {} /\ hi = next /\ A = {}
  <2>1. \A S : S \subseteq DOMAIN c => Outside(S, q, hi) = S \ {p}
    BY <1>1, <1>7, Span DEF next
  <2>. QED BY <1>1, <1>3, <1>4, <1>5, <1>6, <1>7, <2>1
<1>8. CASE q = p /\ B = {} /\ next \in Free(h) /\ hi = After(c, next) /\ A = {next}
  <2>1. \A S : S \subseteq DOMAIN c => Outside(S, q, hi) = S \ {p, next}
    BY <1>1, <1>2, <1>8, SpanTwo DEF next
  <2>. QED BY <1>1, <1>3, <1>4, <1>5, <1>6, <1>8, <2>1
<1>9. CASE q \in Free(h) /\ After(c, q) = p /\ B = {q} /\ hi = next /\ A = {}
  <2>1. \A S : S \subseteq DOMAIN c => Outside(S, q, hi) = S \ {q, p}
    BY <1>1, <1>3, <1>9, SpanTwo DEF next
  <2>. QED BY <1>1, <1>3, <1>4, <1>5, <1>6, <1>9, <2>1
<1>10. CASE /\ q \in Free(h) /\ After(c, q) = p /\ B = {q}
            /\ next \in Free(h) /\ hi = After(c, next) /\ A = {next}
  <2>1. \A S : S \subseteq DOMAIN c => Outside(S, q, hi) = S \ {q, p, next}
    BY <1>1, <1>2, <1>3, <1>10, SpanThree DEF next
  <2>. QED BY <1>1, <1>3, <1>4, <1>5, <1>6, <1>10, <2>1
<1>. QED BY <1>7, <1>8, <1>9, <1>10 DEF Before, Follows, next

LEMMA AroundTop ==
  ASSUME NEW h, Tiled(h), NEW p \in Used(h), After(h.chunks, p) = h.top, NEW q, NEW B, Before(h, p, q, B)
  PROVE  /\ q \in DOMAIN h.chunks /\ q \in Nat /\ q <= p /\ q < h.top /\ h.top # null
         /\ Below(Free(h), q) = Free(h) \ B
         /\ Below(Used(h), q) = Used(h) \ {p}
<1> DEFINE c == h.chunks
<1>1. p \in DOMAIN c /\ p # h.top /\ p \notin Free(h)
  BY Apiece
<1>2. p \in Nat /\ p < h.top /\ h.top # null /\ h.top \in Nat
  BY <1>1, OfChunk, BelowTop, Fields DEF Tiled
<1>3. q \in DOMAIN c /\ q \in Nat /\ q <= p
  <2>1. CASE q = p
    BY <1>1, <1>2, <2>1
  <2>2. CASE q \in Free(h) /\ After(c, q) = p
    BY <1>2, <2>2, Apiece, OfChunk
  <2>. QED BY <2>1, <2>2 DEF Before
<1>4. \A x \in Free(h) \cup Used(h) : x \in DOMAIN c /\ x \in Nat /\ x < h.top
  BY Apiece, BelowTop, OfChunk
<1>5. \A x \in DOMAIN c : x \in Nat /\ (x <= p \/ x >= h.top) /\ (After(c, q) = p => x <= q \/ x >= p)
  BY <1>1, <1>3, OfChunk
<1>6. \A x \in Free(h) \cup Used(h) : x < q \/ x = q \/ x = p
  BY <1>1, <1>2, <1>3, <1>4, <1>5 DEF Before
<1>7. Below(Free(h), q) = Free(h) \ B
  <2>1. CASE q = p /\ B = {}
    BY <1>1, <1>3, <1>4, <1>6, <2>1 DEF Below
  <2>2. CASE q \in Free(h) /\ After(c, q) = p /\ B = {q}
    BY <1>1, <1>3, <1>4, <1>6, <2>2 DEF Below
  <2>. QED BY <2>1, <2>2 DEF Before
<1>8. Below(Used(h), q) = Used(h) \ {p}
  <2>1. q = p \/ q \notin Used(h)
    BY Apiece DEF Before
  <2>2. \A x \in Used(h) : x < q => x # p
    BY <1>2, <1>3
  <2>. QED BY <1>6, <1>3, <1>4, <2>1, <2>2 DEF Below
<1>. QED BY <1>2, <1>3, <1>7, <1>8

(* Chunks that were free leave the lists.                                  *)
LEMMA Apart_ ==
  ASSUME NEW h, HeapOK(h), NEW p, NEW q, NEW b \in BOOLEAN, NEW a \in BOOLEAN,
         NEW g1, g1 = IF b THEN unlink(h, p) ELSE h,
         NEW g, g = IF a THEN unlink(g1, q) ELSE g1
  PROVE  /\ Rebinned(h, g)
         /\ Binned(g, Free(h) \ ((IF b THEN {p} ELSE {}) \cup (IF a THEN {q} ELSE {})))
<1> DEFINE F1 == Free(h) \ (IF b THEN {p} ELSE {})
<1>1. h \in Heaps /\ Binned(h, Free(h)) /\ Rebinned(h, h)
  BY DEF HeapOK, Tiled, Rebinned
<1>2. Rebinned(h, g1) /\ Binned(g1, F1)
  <2>1. CASE b
    BY <1>1, <2>1, UnlinkedHeap
  <2>2. CASE ~b
    <3>1. F1 = Free(h)
      BY <2>2
    <3>. QED BY <1>1, <2>2, <3>1
  <2>. QED BY <2>1, <2>2
<1> HIDE DEF F1
<1>3. g1 \in Heaps /\ Rebinned(g1, g1)
  BY <1>2 DEF Rebinned
<1>4. Rebinned(g1, g) /\ Binned(g, F1 \ (IF a THEN {q} ELSE {}))
  <2>1. CASE a
    BY <1>2, <1>3, <2>1, UnlinkedHeap
  <2>2. CASE ~a
    <3>1. F1 \ (IF a THEN {q} ELSE {}) = F1 /\ g = g1
      BY <2>2
    <3>. QED BY <1>2, <1>3, <3>1
  <2>. QED BY <2>1, <2>2
<1>5. F1 \ (IF a THEN {q} ELSE {}) = Free(h) \ ((IF b THEN {p} ELSE {}) \cup (IF a THEN {q} ELSE {}))
  BY DEF F1
<1>. QED BY <1>2, <1>4, <1>5, RebinnedTwice
(* The chunk p, in use, is exchanged for q, of at least nb words.          *)
Swaps(h, g, p, q, nb) ==
  /\ HeapOK(g) /\ Used(g) = (Used(h) \ {p}) \cup {q} /\ q \notin Used(h) \ {p}
  /\ g.chunks[q].size >= nb
  /\ \A x \in Used(h) \ {p} : g.chunks[x].size = h.chunks[x].size

Exchanged(h, r, p, nb) ==
  r.mem # null /\ r.mem \in Nat /\ mem2chunk(r.mem) \in Nat /\ Swaps(h, r.heap, p, mem2chunk(r.mem), nb)

LEMMA ExchangedFor ==
  ASSUME NEW h, NEW r, NEW p, NEW q \in Nat, NEW nb, Swaps(h, r.heap, p, q, nb), r.mem = chunk2mem(q)
  PROVE  Exchanged(h, r, p, nb)
<1>1. r.mem # null /\ r.mem \in Nat /\ mem2chunk(r.mem) = q
  BY DEF chunk2mem, mem2chunk, null
<1>. QED BY <1>1 DEF Exchanged

(* p takes what is free around it, and not all of top.                     *)
LEMMA ExpandedInto ==
  ASSUME NEW h, HeapOK(h), NEW p \in Used(h), NEW q, NEW B, Before(h, p, q, B),
         NEW hi, NEW A, Follows(h, After(h.chunks, p), hi, A),
         NEW g, Rebinned(h, g), Binned(g, Free(h) \ (B \cup A)),
         NEW nb, Words_(nb), NEW size, size = hi - q, size >= nb,
         NEW k, k = SplitOff(g, q, size, nb)
  PROVE  Swaps(h, k, p, q, nb)
<1>1. Tiled(h)
  BY DEF HeapOK
<1>2. Tiled(g) /\ Free(g) = Free(h) /\ Used(g) = Used(h) /\ g.chunks = h.chunks
  BY <1>1, RebinnedTiled DEF Rebinned
<1>a. Enclosed(h, p, q, hi, B, A)
  BY <1>1, Around
<1>3. /\ q \in DOMAIN h.chunks /\ hi \in DOMAIN h.chunks /\ q < hi
      /\ Outside(Free(h), q, hi) = Free(h) \ (B \cup A)
      /\ Outside(Used(h), q, hi) = Used(h) \ {p}
  BY <1>a DEF Enclosed
<1>4. BinsFor(g.bins, g.binblocks, g.chunks, Outside(Free(g), q, hi))
  BY <1>2, <1>3 DEF Binned
<1>5. Spare(g, q, hi)
  BY <1>2, <1>3, <1>4 DEF Spare
<1>6. Holds(g, k, q, hi, nb)
  BY <1>5, Shortened
<1>7. q \notin Used(h) \ {p}
  <2>1. q = p \/ q \notin Used(h)
    BY <1>1, Apiece DEF Before
  <2>. QED BY <2>1
<1>8. Outside(Used(g), q, hi) = Used(h) \ {p}
  BY <1>2, <1>3
<1>9. HeapOK(k) /\ Used(k) = (Used(h) \ {p}) \cup {q} /\ k.chunks[q].size >= nb
  BY <1>6, <1>8 DEF Holds
<1>10. \A x \in Used(h) \ {p} : k.chunks[x].size = h.chunks[x].size
  BY <1>2, <1>6, <1>8 DEF Holds
<1>. QED BY <1>7, <1>9, <1>10 DEF Swaps

OverTop(g, q, nb, size) ==
  set_head([set_head_size(g, q, nb) EXCEPT !.top = q + nb], q + nb, size - nb, TRUE)

LEMMA CutOverTop ==
  ASSUME NEW g, Tiled(g), NEW q \in DOMAIN g.chunks, g.brk \in Nat, NEW nb, Words_(nb),
         NEW size, size = g.brk - q, size >= nb + MINSIZE
  PROVE  TopTaken(g, OverTop(g, q, nb, size), q, nb)
<1> DEFINE c == g.chunks
           mid == q + nb
           t == [g EXCEPT !.top = mid]
           rest == size - nb
           k == OverTop(g, q, nb, size)
<1>1. nb \in Nat /\ nb >= MINSIZE /\ q \in Nat /\ g \in Heaps /\ g.stale = {}
  BY OfChunk DEF Words_, Tiled
<1>5. mid \in Nat /\ q < mid /\ mid < g.brk /\ mid - q = nb /\ g.brk - mid = rest
  BY <1>1 DEF MINSIZE
<1>6. t \in Heaps /\ t.chunks = c /\ t.top = mid /\ t.brk = g.brk /\ t.stale = {}
      /\ t.bins = g.bins /\ t.binblocks = g.binblocks
  BY <1>1, <1>5 DEF Heaps
<1>7. [set_head_size(g, q, nb) EXCEPT !.top = mid] = set_head_size(t, q, nb)
  BY <1>1 DEF Heaps, set_head_size, set_head, prev_inuse
<1>8. k = CutOf(t, q, mid, g.brk)
  BY <1>5, <1>7 DEF CutOf, OverTop
<1> HIDE DEF t, mid, rest, k
<1>9. Alike(t, k) /\ Cut(t.chunks, k.chunks, q, mid, g.brk)
  BY <1>5, <1>6, <1>8, CutMade
<1>10. TopHalved(c, k.chunks, q, mid, g.brk)
  BY <1>6, <1>9, CutTop
<1>11. TopTaken(g, k, q, nb)
  BY <1>6, <1>9, <1>10 DEF TopTaken, Alike, mid
<1>. QED BY <1>11 DEF k

LEMMA ExpandedTop ==
  ASSUME NEW h, HeapOK(h), NEW p \in Used(h), After(h.chunks, p) = h.top, NEW q, NEW B, Before(h, p, q, B),
         NEW g, Rebinned(h, g), Binned(g, Free(h) \ B),
         NEW nb, Words_(nb), NEW size, size = h.brk - q, size >= nb + MINSIZE
  PROVE  Swaps(h, OverTop(g, q, nb, size), p, q, nb)
<1> DEFINE c == h.chunks
           k == OverTop(g, q, nb, size)
<1>1. Tiled(h) /\ nb \in Nat /\ nb >= MINSIZE
  BY DEF HeapOK, Words_
<1>2. Tiled(g) /\ Free(g) = Free(h) /\ Used(g) = Used(h) /\ g.chunks = c /\ g.brk = h.brk
  BY <1>1, RebinnedTiled DEF Rebinned
<1>3. /\ q \in DOMAIN c /\ q \in Nat /\ h.top # null
      /\ Below(Free(h), q) = Free(h) \ B /\ Below(Used(h), q) = Used(h) \ {p}
  BY <1>1, AroundTop
<1>4. h.brk \in Nat
  BY <1>1, Fields DEF Tiled
<1>11. TopTaken(g, k, q, nb)
  BY <1>2, <1>3, <1>4, CutOverTop
<1> HIDE DEF k
<1>12. BinsFor(g.bins, g.binblocks, g.chunks, Below(Free(g), q))
  BY <1>2, <1>3 DEF Binned
<1>13. g.brk - (q + nb) >= MINSIZE /\ q \in DOMAIN g.chunks
  BY <1>1, <1>2, <1>3, <1>4 DEF MINSIZE
<1>14. /\ HeapOK(k) /\ Used(k) = Below(Used(g), q) \cup {q} /\ k.chunks[q].size = nb
       /\ \A x \in DOMAIN g.chunks : x < q => k.chunks[x].size = g.chunks[x].size
  BY <1>2, <1>11, <1>12, <1>13, TopCut
<1>15. q \notin Used(h) \ {p}
  <2>1. q = p \/ q \notin Used(h)
    BY <1>1, Apiece DEF Before
  <2>. QED BY <2>1
<1>16. \A x \in Used(h) \ {p} : k.chunks[x].size = c[x].size
  <2>1. \A x \in Used(h) \ {p} : x < q /\ x \in DOMAIN c
    BY <1>1, <1>3, Apiece DEF Below
  <2>. QED BY <1>2, <1>14, <2>1
<1>17. Used(k) = (Used(h) \ {p}) \cup {q} /\ k.chunks[q].size >= nb
  BY <1>1, <1>2, <1>3, <1>14
<1>18. Swaps(h, k, p, q, nb)
  BY <1>14, <1>15, <1>16, <1>17 DEF Swaps
<1>. QED BY <1>18 DEF k

LEMMA Options ==
  \A k \in DOMAIN Neighbours :
    k \in Nat /\ Neighbours[k].back \in BOOLEAN /\ Neighbours[k].ahead \in BOOLEAN
<1>1. DOMAIN Neighbours = 1 .. 3
  BY DEF Neighbours
<1>2. /\ Neighbours[1].back = FALSE /\ Neighbours[1].ahead = TRUE
      /\ Neighbours[2].back = TRUE /\ Neighbours[2].ahead = TRUE
      /\ Neighbours[3].back = TRUE /\ Neighbours[3].ahead = FALSE
  BY DEF Neighbours
<1>3. ASSUME NEW k \in 1 .. 3 PROVE Neighbours[k].back \in BOOLEAN /\ Neighbours[k].ahead \in BOOLEAN
  <2>1. k = 1 \/ k = 2 \/ k = 3
    OBVIOUS
  <2>. QED BY <1>2, <2>1
<1>. QED BY <1>1, <1>3

(* rEALLOc() in place.                                                     *)
LEMMA Expansion ==
  ASSUME NEW h, HeapOK(h), NEW p \in Used(h), NEW nb, Words_(nb), NEW r, r = Expanded(h, p, nb)
  PROVE  Exchanged(h, r, p, nb) \/ (r.mem = null /\ r.heap = h)
<1> DEFINE c == h.chunks
           next == p + chunksize(h, p)
           from(o) == IF o.back THEN prev_chunk(h, p) ELSE p
           upto(o) == IF o.ahead THEN next + chunksize(h, next) ELSE next
           isTop(o) == o.ahead /\ next = h.top
           can(o) == /\ o.back => ~prev_inuse(h, p)
                     /\ o.ahead => next = h.top \/ ~inuse(h, next)
                     /\ upto(o) - from(o) >= nb + (IF isTop(o) THEN MINSIZE ELSE 0)
           usable == {k \in DOMAIN Neighbours : can(Neighbours[k])}
           o == Neighbours[Min(usable)]
           q == from(o)
           g1 == IF o.back THEN unlink(h, q) ELSE h
           g == IF o.ahead THEN unlink(g1, next) ELSE g1
           size == upto(o) - q
           B == IF o.back THEN {q} ELSE {}
           A == IF o.ahead THEN {next} ELSE {}
<1>0. r = IF usable = {} THEN Result(h, null)
          ELSE IF isTop(o) THEN Result(OverTop(g, q, nb, size), chunk2mem(q))
          ELSE Result(SplitOff(g, q, size, nb), chunk2mem(q))
  BY DEF Expanded, OverTop
<1>1. CASE usable = {}
  <2>1. r = Result(h, null)
    BY <1>0, <1>1
  <2>. QED BY <2>1 DEF Result
<1>2. CASE usable # {}
  <2>1. usable \in SUBSET Nat
    BY Options
  <2>2. Min(usable) \in usable
    BY <1>2, <2>1, LeastOf
  <2>3. o.back \in BOOLEAN /\ o.ahead \in BOOLEAN /\ can(o)
    <3>1. \A k \in DOMAIN Neighbours : Neighbours[k].back \in BOOLEAN /\ Neighbours[k].ahead \in BOOLEAN
      BY Options
    <3> HIDE DEF can
    <3>2. \A k \in usable : k \in DOMAIN Neighbours /\ can(Neighbours[k])
      OBVIOUS
    <3> HIDE DEF usable
    <3>. QED BY <2>2, <3>1, <3>2
  <2>4. Tiled(h) /\ Binned(h, Free(h)) /\ p \in DOMAIN c /\ p # h.top
    BY Apiece DEF HeapOK
  <2>5. next = After(c, p) /\ next \in DOMAIN c /\ next \in Nat /\ p \in Nat /\ p < next
    BY <2>4, OfChunk
  <2>6. Before(h, p, q, B) /\ q \in Nat
    <3>1. CASE o.back
      <4>1. ~prev_inuse(h, p)
        BY <2>3, <3>1
      <4>2. q = prev_chunk(h, p)
        BY <3>1
      <4> HIDE DEF q
      <4>3. q \in Free(h) /\ After(c, q) = p /\ q \in DOMAIN c
        BY <2>4, <4>1, <4>2, OfChunk DEF prev_inuse, prev_chunk
      <4>4. q \in Nat
        BY <2>4, <4>3, OfChunk
      <4>. QED BY <3>1, <4>3, <4>4 DEF Before
    <3>2. CASE ~o.back
      BY <2>5, <3>2 DEF Before
    <3>. QED BY <3>1, <3>2
  <2>7. upto(o) - q >= nb + (IF isTop(o) THEN MINSIZE ELSE 0)
    BY <2>3
  <2> DEFINE b == o.back  a == o.ahead
  <2>8. g1 = (IF b THEN unlink(h, q) ELSE h) /\ g = (IF a THEN unlink(g1, next) ELSE g1)
        /\ B = (IF b THEN {q} ELSE {}) /\ A = (IF a THEN {next} ELSE {})
    OBVIOUS
  <2>9. b \in BOOLEAN /\ a \in BOOLEAN
    BY <2>3
  <2> DEFINE top == isTop(o)  hi == upto(o)
  <2>a. r = IF top THEN Result(OverTop(g, q, nb, size), chunk2mem(q))
            ELSE Result(SplitOff(g, q, size, nb), chunk2mem(q))
    BY <1>0, <1>2
  <2>b. hi - q >= nb + (IF top THEN MINSIZE ELSE 0)
    BY <2>7
  <2>c. size = hi - q
    OBVIOUS
  <2>d. top => a /\ next = h.top /\ hi = next + chunksize(h, next)
    OBVIOUS
  <2>e. ~top /\ a => ~inuse(h, next) /\ next # h.top /\ hi = next + chunksize(h, next)
    <3> HIDE DEF o, g, g1, usable, A, B
    <3>. QED BY <2>3
  <2>f. ~a => hi = next
    OBVIOUS
  <2> HIDE DEF g, g1, A, B, size, top, hi, q, a, b
  <2>11. Rebinned(h, g) /\ Binned(g, Free(h) \ (B \cup A))
    <3>1. Rebinned(h, g)
          /\ Binned(g, Free(h) \ ((IF b THEN {q} ELSE {}) \cup (IF a THEN {next} ELSE {})))
      BY <2>8, <2>9, Apart_
    <3>. QED BY <2>8, <3>1
  <2> HIDE DEF next
  <2>12. CASE top
    <3>1. chunksize(h, next) \in Nat /\ h.brk = next + chunksize(h, next)
      BY <2>4, <2>5, <2>12, <2>d, OfTop, OfChunk
    <3>2. size = h.brk - q /\ size >= nb + MINSIZE
      <4>1. size >= nb + MINSIZE
        BY <2>12, <2>b, <2>c
      <4>2. hi = h.brk
        BY <2>12, <2>d, <3>1
      <4>3. size = h.brk - q
        BY <2>c, <4>2
      <4>. QED BY <4>1, <4>3
    <3>3. Free(h) \ (B \cup A) = Free(h) \ B
      <4>1. h.top \notin Free(h)
        BY <2>4, Apiece
      <4>. QED BY <2>8, <2>12, <2>d, <4>1
    <3>4. Swaps(h, OverTop(g, q, nb, size), p, q, nb)
      <4>1. Binned(g, Free(h) \ B) /\ After(c, p) = h.top
        BY <2>5, <2>11, <2>12, <2>d, <3>3
      <4>. QED BY <2>6, <2>11, <3>2, <4>1, ExpandedTop
    <3>5. r.heap = OverTop(g, q, nb, size) /\ r.mem = chunk2mem(q)
      BY <2>12, <2>a DEF Result
    <3>. QED BY <2>6, <3>4, <3>5, ExchangedFor
  <2>13. CASE ~top
    <3>1. Follows(h, After(c, p), hi, A)
      <4>1. CASE a
        <5>1. ~inuse(h, next) /\ next # h.top /\ hi = next + chunksize(h, next)
          BY <2>13, <2>e, <4>1
        <5>2. next \in Free(h) /\ hi = After(c, next)
          BY <2>4, <2>5, <5>1, OfChunk DEF inuse, prev_inuse
        <5>. QED BY <2>5, <2>8, <4>1, <5>2 DEF Follows
      <4>2. CASE ~a
        BY <2>5, <2>8, <2>f, <4>2 DEF Follows
      <4>. QED BY <4>1, <4>2
    <3>2. size = hi - q /\ size >= nb
      BY <2>13, <2>b, <2>c DEF Words_
    <3>3. Swaps(h, SplitOff(g, q, size, nb), p, q, nb)
      BY <2>6, <2>11, <3>1, <3>2, ExpandedInto
    <3>5. r.heap = SplitOff(g, q, size, nb) /\ r.mem = chunk2mem(q)
      BY <2>13, <2>a DEF Result
    <3>. QED BY <2>6, <3>3, <3>5, ExchangedFor
  <2>. QED BY <2>12, <2>13
<1>. QED BY <1>1, <1>2
(* A null answer: nothing has changed for the owners, and the memory       *)
(* would not have done.                                                    *)
Denied(h, r, nb) == r.mem = null /\ Kept(h, r.heap) /\ Refused(r.heap, nb)

(* The new chunk follows p: the two are one.                               *)
LEMMA MovedAhead ==
  ASSUME NEW h, HeapOK(h), NEW p \in Used(h), NEW nb, Words_(nb), NEW g, NEW q, Gains(h, g, q, nb),
         q = After(h.chunks, p), NEW size, size = h.chunks[p].size + g.chunks[q].size
  PROVE  Swaps(h, SplitOff(g, p, size, nb), p, p, nb)
<1> DEFINE c == g.chunks
           hi == After(c, q)
           k == SplitOff(g, p, size, nb)
<1>1. /\ HeapOK(g) /\ Tiled(g) /\ Used(g) = Used(h) \cup {q} /\ q \notin Used(h) /\ c[q].size >= nb
      /\ \A x \in Used(h) : c[x].size = h.chunks[x].size
  BY DEF Gains, HeapOK
<1>2. p \in Used(g) /\ q \in Used(g) /\ c[p].size = h.chunks[p].size
  BY <1>1
<1>3. p \in DOMAIN c /\ q \in DOMAIN c /\ q # g.top /\ Free(g) \subseteq DOMAIN c /\ Used(g) \subseteq DOMAIN c
      /\ Free(g) \cap Used(g) = {}
  BY <1>1, <1>2, Apiece
<1>4. q = After(c, p)
  BY <1>2 DEF After
<1>5. hi \in DOMAIN c /\ q < hi /\ c[q].size \in Nat /\ c[p].size \in Nat /\ p \in Nat /\ q \in Nat /\ hi = q + c[q].size
      /\ q = p + c[p].size
  BY <1>1, <1>3, <1>4, OfChunk
<1>6. Outside(Free(g), p, hi) = Free(g) \ {p, q} /\ Outside(Used(g), p, hi) = Used(g) \ {p, q} /\ p < q
  <2>1. p \in DOMAIN c /\ q \in DOMAIN c /\ q = After(c, p) /\ Tiled(g)
    BY <1>1, <1>3, <1>4
  <2>2. \A S : S \subseteq DOMAIN c => Outside(S, p, hi) = S \ {p, q} /\ p < q
    BY <2>1, SpanTwo
  <2>. QED BY <1>3, <2>2
<1> HIDE DEF hi
<1>7. size = hi - p /\ size >= nb /\ p < hi
  <2>1. p < q /\ nb \in Nat /\ c[q].size >= nb /\ size = c[p].size + c[q].size
    BY <1>1, <1>2, <1>6 DEF Words_
  <2> DEFINE a == c[p].size  b == c[q].size
  <2>2. a \in Nat /\ b \in Nat /\ b >= nb /\ size = a + b /\ hi = q + b /\ q = p + a /\ p \in Nat /\ q \in Nat
    BY <1>5, <2>1
  <2> HIDE DEF a, b
  <2>. QED BY <2>1, <2>2
<1>8. Outside(Free(g), p, hi) = Free(g)
  BY <1>2, <1>3, <1>6
<1>9. Spare(g, p, hi)
  BY <1>1, <1>3, <1>5, <1>7, <1>8 DEF Spare, HeapOK, Binned
<1> HIDE DEF k
<1>10. Holds(g, k, p, hi, nb)
  BY <1>7, <1>9, Shortened DEF k
<1>11. Outside(Used(g), p, hi) = Used(h) \ {p}
  BY <1>1, <1>6
<1>12. HeapOK(k) /\ Used(k) = (Used(h) \ {p}) \cup {p} /\ k.chunks[p].size >= nb
  BY <1>10, <1>11 DEF Holds
<1>13. \A x \in Used(h) \ {p} : k.chunks[x].size = h.chunks[x].size
  BY <1>1, <1>10, <1>11 DEF Holds
<1>14. Swaps(h, k, p, p, nb)
  BY <1>12, <1>13 DEF Swaps
<1>. QED BY <1>14 DEF k

(* The new chunk is elsewhere: p is given back.                            *)
LEMMA MovedAway ==
  ASSUME NEW h, HeapOK(h), NEW p \in Used(h), NEW nb, NEW g, NEW q, Gains(h, g, q, nb),
         NEW mem, mem2chunk(mem) = p
  PROVE  Swaps(h, fREe(g, mem), p, q, nb)
<1> DEFINE k == fREe(g, mem)
<1>1. /\ HeapOK(g) /\ Used(g) = Used(h) \cup {q} /\ q \notin Used(h) /\ g.chunks[q].size >= nb
      /\ \A x \in Used(h) : g.chunks[x].size = h.chunks[x].size
  BY DEF Gains
<1>2. Loses(g, k, p)
  BY <1>1, Freed
<1> HIDE DEF k
<1>3. HeapOK(k) /\ Used(k) = Used(g) \ {p} /\ \A x \in Used(k) : k.chunks[x].size = g.chunks[x].size
  BY <1>2 DEF Loses
<1>4. q # p
  BY <1>1
<1>5. Used(k) = (Used(h) \ {p}) \cup {q} /\ q \notin Used(h) \ {p}
  BY <1>1, <1>3, <1>4
<1>6. k.chunks[q].size >= nb
  BY <1>1, <1>3, <1>5
<1>7. \A x \in Used(h) \ {p} : k.chunks[x].size = h.chunks[x].size
  BY <1>1, <1>3, <1>5
<1>8. Swaps(h, k, p, q, nb)
  BY <1>3, <1>5, <1>6, <1>7 DEF Swaps
<1>. QED BY <1>8 DEF k

LEMMA MovedChunk ==
  ASSUME NEW h, HeapOK(h), NEW p \in Used(h), NEW mem, mem = chunk2mem(p),
         NEW n \in Nat, NEW nb, nb = request2size(n), NEW r, r = Moved(h, mem, n)
  PROVE  Exchanged(h, r, p, nb) \/ Denied(h, r, nb)
<1> DEFINE new == mALLOc(h, n)
           q == mem2chunk(new.mem)
           g == new.heap
           size == chunksize(h, p) + chunksize(g, q)
<1>1. /\ p \in DOMAIN h.chunks /\ p \in Nat /\ p # null /\ chunksize(h, p) = h.chunks[p].size
      /\ p + chunksize(h, p) = After(h.chunks, p)
  <2>1. Tiled(h) /\ p \in DOMAIN h.chunks
    BY Apiece DEF HeapOK
  <2>. QED BY <2>1, OfChunk
<1>2. mem2chunk(mem) = p
  BY <1>1 DEF mem2chunk, chunk2mem
<1>3. r = IF new.mem = null THEN new
          ELSE IF q = p + chunksize(h, p) THEN Result(SplitOff(g, p, size, nb), mem)
          ELSE Result(fREe(g, mem), new.mem)
  BY <1>2 DEF Moved
<1>4. Words_(nb) /\ Answered(h, new, nb)
  BY Allocated
<1> HIDE DEF new
<1>5. CASE new.mem = null
  <2>1. Denied(h, new, nb)
    BY <1>4, <1>5 DEF Answered, Got, Denied
  <2>. QED BY <1>3, <1>5, <2>1
<1>6. CASE new.mem # null
  <2>1. q \in Nat /\ new.mem \in Nat /\ Gains(h, g, q, nb)
    BY <1>4, <1>6 DEF Answered, Got
  <2> HIDE DEF g, q
  <2>2. CASE q = p + chunksize(h, p)
    <3>1. chunksize(g, q) = g.chunks[q].size
      <4>1. Tiled(g) /\ q \in Used(g)
        BY <2>1 DEF Gains, HeapOK
      <4>2. q \in DOMAIN g.chunks
        BY <4>1, Apiece
      <4>. QED BY <4>1, <4>2, OfChunk
    <3>2. size = h.chunks[p].size + g.chunks[q].size /\ q = After(h.chunks, p)
      BY <1>1, <2>2, <3>1
    <3> HIDE DEF size
    <3>3. Swaps(h, SplitOff(g, p, size, nb), p, p, nb)
      BY <1>4, <2>1, <3>2, MovedAhead
    <3>4. r.heap = SplitOff(g, p, size, nb) /\ r.mem = chunk2mem(p)
      BY <1>3, <1>6, <2>2 DEF Result
    <3>. QED BY <1>1, <3>3, <3>4, ExchangedFor
  <2>3. CASE q # p + chunksize(h, p)
    <3>1. Swaps(h, fREe(g, mem), p, q, nb)
      BY <1>2, <2>1, MovedAway
    <3>2. r.heap = fREe(g, mem) /\ r.mem = new.mem
      BY <1>3, <1>6, <2>3 DEF Result
    <3>. QED BY <1>6, <2>1, <3>1, <3>2 DEF Exchanged, q
  <2>. QED BY <2>2, <2>3
<1>. QED BY <1>5, <1>6

(* p gives up what it has beyond nb words.                                 *)
LEMMA Shrunk ==
  ASSUME NEW h, HeapOK(h), NEW p \in Used(h), NEW nb, Words_(nb),
         NEW size, size = chunksize(h, p), size >= nb
  PROVE  Swaps(h, SplitOff(h, p, size, nb), p, p, nb)
<1> DEFINE hi == After(h.chunks, p)
           k == SplitOff(h, p, size, nb)
<1>0. Tiled(h) /\ p \in DOMAIN h.chunks /\ p # h.top /\ p \notin Free(h) /\ Free(h) \subseteq DOMAIN h.chunks
      /\ Used(h) \subseteq DOMAIN h.chunks
  BY Apiece DEF HeapOK
<1>1. p \in Nat /\ size \in Nat /\ hi = p + size /\ hi \in DOMAIN h.chunks /\ hi \in Nat /\ p < hi
  BY <1>0, OfChunk
<1>2. Outside(Free(h), p, hi) = Free(h) \ {p} /\ Outside(Used(h), p, hi) = Used(h) \ {p}
  BY <1>0, Span
<1> HIDE DEF hi, k
<1>3. Outside(Free(h), p, hi) = Free(h)
  BY <1>0, <1>2
<1>4. Spare(h, p, hi)
  BY <1>0, <1>1, <1>3 DEF Spare, HeapOK, Binned
<1>5. size = hi - p
  BY <1>1
<1>6. Holds(h, k, p, hi, nb)
  BY <1>4, <1>5, Shortened DEF k
<1>7. Swaps(h, k, p, p, nb)
  BY <1>2, <1>6 DEF Swaps, Holds
<1>. QED BY <1>7 DEF k

(* rEALLOc().                                                              *)
LEMMA Reallocated ==
  ASSUME NEW h, HeapOK(h), NEW p \in Used(h), NEW mem, mem = chunk2mem(p),
         NEW n \in Nat, NEW nb, nb = request2size(n), NEW r, r = rEALLOc(h, mem, n)
  PROVE  Exchanged(h, r, p, nb) \/ Denied(h, r, nb)
<1> DEFINE size == chunksize(h, p)
           e == Expanded(h, p, nb)
<1>0. Tiled(h) /\ p \in DOMAIN h.chunks
  BY Apiece DEF HeapOK
<1>1. p \in Nat
  BY <1>0, OfChunk
<1>2. mem2chunk(mem) = p
  BY <1>1 DEF mem2chunk, chunk2mem
<1>3. r = IF size >= nb THEN Result(SplitOff(h, p, size, nb), mem)
          ELSE IF e.mem # null THEN e ELSE Moved(e.heap, mem, n)
  BY <1>2 DEF rEALLOc, OrElse
<1>4. Words_(nb)
  BY Allocated
<1>5. CASE size >= nb
  <2> HIDE DEF size
  <2>1. Swaps(h, SplitOff(h, p, size, nb), p, p, nb)
    BY <1>4, <1>5, Shrunk DEF size
  <2>2. r.heap = SplitOff(h, p, size, nb) /\ r.mem = chunk2mem(p)
    BY <1>3, <1>5 DEF Result
  <2>. QED BY <1>1, <2>1, <2>2, ExchangedFor
<1>6. CASE ~(size >= nb)
  <2>1. Exchanged(h, e, p, nb) \/ (e.mem = null /\ e.heap = h)
    BY <1>4, Expansion
  <2> HIDE DEF e, size
  <2>2. CASE e.mem # null
    BY <1>3, <1>6, <2>1, <2>2
  <2>3. CASE e.mem = null
    <3>1. e.heap = h
      BY <2>1, <2>3 DEF Exchanged
    <3>2. r = Moved(h, mem, n)
      BY <1>3, <1>6, <2>3, <3>1
    <3>. QED BY <3>2, MovedChunk
  <2>. QED BY <2>2, <2>3
<1>. QED BY <1>5, <1>6
(* A chunk in use is cut from its end.                                     *)
FrontCut(h, lo, mid, hi) ==
  set_head_size(set_inuse_bit_at(set_head(h, mid, hi - mid, TRUE), hi), lo, mid - lo)

LEMMA FrontCutMade ==
  ASSUME NEW h, Tiled(h), NEW lo \in DOMAIN h.chunks, NEW hi \in DOMAIN h.chunks, hi = After(h.chunks, lo),
         NEW mid \in Nat, lo < mid, mid < hi, NEW k, k = FrontCut(h, lo, mid, hi)
  PROVE  Alike(h, k) /\ Halved(h.chunks, k.chunks, lo, mid, hi) /\ k.chunks[hi].prev_inuse
<1> DEFINE c == h.chunks
           D == DOMAIN c
           a == mid - lo
           b == hi - mid
           size == c[hi].size
           prev == c[lo].prev_inuse
           h1 == set_head(h, mid, b, TRUE)
           h2 == set_inuse_bit_at(h1, hi)
<1>1. /\ lo \in Nat /\ hi \in Nat /\ size \in Nat /\ h \in Heaps /\ hi # null /\ lo < hi
      /\ D \subseteq Nat /\ prev \in BOOLEAN /\ a \in Nat /\ b \in Nat /\ lo + a = mid /\ mid + b = hi
  <2>1. lo \in Nat /\ hi \in Nat /\ size \in Nat /\ hi # null /\ lo < hi /\ prev \in BOOLEAN
    BY OfChunk
  <2>2. h \in Heaps /\ D \subseteq Nat
    BY Fields DEF Tiled
  <2>. QED BY <2>1, <2>2
<1>2. \A x \in D : (x <= lo \/ x >= hi) /\ (x <= hi \/ x >= hi + size)
  BY OfChunk DEF After
<1> HIDE DEF size, prev, a, b, D
<1>3. Alike(h, h1) /\ HeadIn(c, h1.chunks, mid, b, TRUE)
  BY <1>1, HeadSet
<1> HIDE DEF h1
<1>4. /\ DOMAIN h1.chunks = D \cup {mid}
      /\ h1.chunks[mid].size = b /\ h1.chunks[mid].prev_inuse
      /\ \A x \in D : x # mid => h1.chunks[x] = c[x]
  <2>1. {x \in D : x <= mid \/ x >= mid + b} = D
    BY <1>1, <1>2
  <2>. QED BY <1>3, <2>1 DEF HeadIn, D
<1>5. h2 = set_head(h1, hi, size, TRUE)
  <2>1. chunksize(h1, hi) = size
    BY <1>1, <1>4 DEF chunksize, size, D
  <2>. QED BY <2>1 DEF set_inuse_bit_at
<1> DEFINE g2 == set_head(h1, hi, size, TRUE)
<1> HIDE DEF h2
<1>6. Alike(h1, g2) /\ HeadIn(h1.chunks, g2.chunks, hi, size, TRUE)
  <2>1. h1 \in Heaps
    BY <1>3 DEF Alike
  <2>. QED BY <1>1, <2>1, HeadSet
<1> HIDE DEF g2
<1>7. /\ DOMAIN g2.chunks = D \cup {mid}
      /\ g2.chunks[hi].size = size /\ g2.chunks[hi].prev_inuse
      /\ \A x \in D \cup {mid} : x # hi => g2.chunks[x] = h1.chunks[x]
  <2>1. {x \in D \cup {mid} : x <= hi \/ x >= hi + size} \cup {hi} = D \cup {mid}
    <3>1. hi \in D
      BY DEF D
    <3>. QED BY <1>1, <1>2, <3>1
  <2>2. {x \in DOMAIN h1.chunks : x <= hi \/ x >= hi + size} \cup {hi} = D \cup {mid}
    BY <1>4, <2>1
  <2>. QED BY <1>6, <2>2 DEF HeadIn
<1>8. k = set_head(g2, lo, a, prev)
  <2>1. k = set_head(h2, lo, a, h2.chunks[lo].prev_inuse)
    BY DEF FrontCut, h2, h1, a, b, set_head_size, prev_inuse
  <2>2. h2 = g2
    BY <1>5 DEF g2
  <2>3. g2.chunks[lo] = c[lo]
    BY <1>1, <1>4, <1>7 DEF D
  <2>. QED BY <2>1, <2>2, <2>3 DEF prev
<1> DEFINE g3 == set_head(g2, lo, a, prev)
<1>9. Alike(g2, g3) /\ HeadIn(g2.chunks, g3.chunks, lo, a, prev)
  <2>1. g2 \in Heaps
    BY <1>6 DEF Alike
  <2>. QED BY <1>1, <2>1, HeadSet
<1> HIDE DEF g3
<1>10. k = g3
  BY <1>8 DEF g3
<1>11. Alike(h, g3)
  <2>1. Alike(h, g2)
    BY <1>3, <1>6, AlikeTwice
  <2>. QED BY <1>9, <2>1, AlikeTwice
<1>12. /\ DOMAIN g3.chunks = D \cup {mid}
       /\ g3.chunks[lo].size = a /\ g3.chunks[lo].prev_inuse = prev
       /\ ~prev => g3.chunks[lo].prev_size = g2.chunks[lo].prev_size
       /\ \A x \in D \cup {mid} : x # lo => g3.chunks[x] = g2.chunks[x]
  <2>1. {x \in D \cup {mid} : x <= lo \/ x >= lo + a} \cup {lo} = D \cup {mid}
    <3>1. lo \in D
      BY DEF D
    <3>2. \A x \in D \cup {mid} : x <= lo \/ x >= mid
      BY <1>1, <1>2
    <3>. QED BY <1>1, <3>1, <3>2
  <2>2. {x \in DOMAIN g2.chunks : x <= lo \/ x >= lo + a} \cup {lo} = D \cup {mid}
    BY <1>7, <2>1
  <2>3. lo \in DOMAIN g2.chunks
    BY <1>7 DEF D
  <2>. QED BY <1>9, <2>2, <2>3 DEF HeadIn
<1>13. lo \in D /\ hi \in D
  BY DEF D
<1>14. {x \in D : x <= lo \/ x >= hi} = D
  BY <1>2
<1>15. g2.chunks[lo] = c[lo] /\ g3.chunks[mid] = h1.chunks[mid] /\ g3.chunks[hi] = g2.chunks[hi]
  BY <1>1, <1>4, <1>7, <1>12, <1>13
<1>16. \A x \in D \cup {mid} : x # lo /\ x # mid /\ x # hi => g3.chunks[x] = c[x]
  BY <1>4, <1>7, <1>12
<1>17. Halved(c, g3.chunks, lo, mid, hi)
  BY <1>4, <1>7, <1>12, <1>14, <1>15, <1>16 DEF Halved, D, a, b, size, prev
<1>18. g3.chunks[hi].prev_inuse
  BY <1>7, <1>15
<1>. QED BY <1>10, <1>11, <1>17, <1>18

(* A multiple of an even number is even.                                   *)
LEMMA EvenMultiple ==
  ASSUME NEW d \in Nat, NEW u \in Nat, u % 2 = 0
  PROVE  (d * u) % 2 = 0
<1> DEFINE e == u \div 2
<1>1. e \in Nat /\ u = 2 * e
  OBVIOUS
<1> HIDE DEF e
<1>2. d * e \in Nat
  BY <1>1
<1>3. d * u = 2 * (d * e)
  BY <1>1
<1>4. \A z \in Nat : (2 * z) % 2 = 0
  OBVIOUS
<1>. QED BY <1>2, <1>3, <1>4

(* The first aligned place of p that leaves room for a chunk before it.    *)
AlignedSpot(p, alignment) ==
  LET spot == mem2chunk(RoundUp(chunk2mem(p), alignment))
  IN IF spot - p < MINSIZE THEN spot + alignment ELSE spot

LEMMA SpotFound ==
  ASSUME NEW p \in Nat, p % 2 = 0, NEW al \in Nat, al >= MINSIZE, al % 2 = 0, NEW q, q = AlignedSpot(p, al)
  PROVE  q \in Nat /\ q % 2 = 0 /\ q - p >= MINSIZE /\ q - p < al + MINSIZE
<1> DEFINE m == RoundUp(p + 2, al)
           spot == m - 2
<1>1. al \in Nat \ {0} /\ al >= 4
  BY DEF MINSIZE
<1>2. m \in Nat /\ p + 2 <= m /\ m < p + 2 + al
  <2>1. p + 2 \in Nat
    OBVIOUS
  <2>. QED BY <1>1, <2>1, RoundedUp
<1>3. m % 2 = 0
  <2>1. (p + 2 + al - 1) \in Nat
    BY <1>1
  <2>2. (p + 2 + al - 1) \div al \in Nat
    BY <1>1, <2>1, Multiples
  <2>3. m = ((p + 2 + al - 1) \div al) * al
    BY DEF RoundUp
  <2>. QED BY <2>2, <2>3, EvenMultiple
<1>4. q = IF spot - p < MINSIZE THEN spot + al ELSE spot
  BY DEF AlignedSpot, mem2chunk, chunk2mem
<1> HIDE DEF m
<1>5. spot \in Nat /\ spot % 2 = 0 /\ (spot + al) % 2 = 0 /\ spot >= p /\ spot - p < al
  BY <1>2, <1>3
<1> HIDE DEF spot
<1>. QED BY <1>1, <1>4, <1>5 DEF MINSIZE
LEMMA FrontFreed ==
  ASSUME NEW h, HeapOK(h), NEW p \in Used(h), NEW q \in Nat, q % 2 = 0, q - p >= MINSIZE,
         NEW hi, hi = After(h.chunks, p), hi - q >= MINSIZE, NEW k, k = FrontCut(h, p, q, hi),
         NEW mem, mem2chunk(mem) = p
  PROVE  Swaps(h, fREe(k, mem), p, q, hi - q)
<1> DEFINE c == h.chunks
           g == fREe(k, mem)
           size == hi - q
<1>1. Tiled(h) /\ p \in DOMAIN c /\ p # h.top /\ p \notin Free(h) /\ q \notin Used(h)
      /\ Free(h) \subseteq DOMAIN c /\ Used(h) \subseteq DOMAIN c
  <2>1. Tiled(h) /\ p \in DOMAIN c /\ p # h.top /\ p \notin Free(h) /\ Free(h) \subseteq DOMAIN c
        /\ Used(h) \subseteq DOMAIN c
    BY Apiece DEF HeapOK
  <2>2. p \in Nat /\ hi \in Nat /\ \A x \in DOMAIN c : x <= p \/ x >= hi
    BY <2>1, OfChunk
  <2>3. p < q /\ q < hi
    <3>1. p \in Nat /\ hi \in Nat
      BY <2>2
    <3> HIDE DEF c
    <3>. QED BY <3>1 DEF MINSIZE
  <2>4. q \notin DOMAIN c
    BY <2>2, <2>3
  <2>. QED BY <2>1, <2>4
<1>2. p \in Nat /\ hi \in Nat /\ hi \in DOMAIN c
  BY <1>1, OfChunk
<1>3. p < q /\ q < hi
  BY <1>2 DEF MINSIZE
<1>4. Alike(h, k) /\ Halved(c, k.chunks, p, q, hi) /\ k.chunks[hi].prev_inuse
  BY <1>1, <1>2, <1>3, FrontCutMade
<1>5. /\ Tiled(k) /\ Keeps(h, k, p, hi)
      /\ Free(k) = Outside(Free(h), p, hi) \cup (IF k.chunks[hi].prev_inuse THEN {} ELSE {q})
      /\ Used(k) = Outside(Used(h), p, hi) \cup (IF k.chunks[hi].prev_inuse THEN {p, q} ELSE {p})
  <2>1. ~k.chunks[hi].prev_inuse => FreeBefore(h, k.chunks, hi, hi - q)
    BY <1>4
  <2>2. p < hi /\ Tiled(h)
    BY <1>1, <1>2, <1>3
  <2>. QED BY <1>1, <1>2, <1>4, <2>1, <2>2, HeapHalved
<1>6. Outside(Free(h), p, hi) = Free(h) \ {p} /\ Outside(Used(h), p, hi) = Used(h) \ {p}
  BY <1>1, Span
<1>7. \A x \in Outside(Free(h), p, hi) \cup Outside(Used(h), p, hi) : k.chunks[x].size = c[x].size
  BY <1>1, <1>5, SizesKept
<1>8. Free(k) = Free(h) /\ Used(k) = Used(h) \cup {q}
  BY <1>1, <1>4, <1>5, <1>6
<1>9. \A x \in Free(h) \cup (Used(h) \ {p}) : k.chunks[x].size = c[x].size
  BY <1>1, <1>6, <1>7
<1>10. BinsFor(k.bins, k.binblocks, c, Free(h))
  BY <1>4 DEF HeapOK, Binned, Alike
<1>11. BinsFor(k.bins, k.binblocks, k.chunks, Free(h))
  <2>1. \A x \in Free(h) \ Listed(k.bins[last_remainder]) : k.chunks[x].size = c[x].size
    BY <1>9
  <2>. QED BY <1>10, <2>1, SameSizes
<1>12. HeapOK(k)
  BY <1>5, <1>8, <1>11 DEF HeapOK, Binned
<1>13. Loses(k, g, p)
  <2>1. p \in Used(k)
    BY <1>8
  <2>. QED BY <1>12, <2>1, Freed
<1> HIDE DEF g
<1>14. HeapOK(g) /\ Used(g) = Used(k) \ {p} /\ \A x \in Used(g) : g.chunks[x].size = k.chunks[x].size
  BY <1>13 DEF Loses
<1>15. q # p
  BY <1>1
<1>16. Used(g) = (Used(h) \ {p}) \cup {q} /\ q \notin Used(h) \ {p}
  BY <1>1, <1>8, <1>14, <1>15
<1>17. g.chunks[q].size = size
  <2>1. k.chunks[q].size = size
    BY <1>4 DEF Halved
  <2>. QED BY <1>14, <1>16, <2>1
<1>18. \A x \in Used(h) \ {p} : g.chunks[x].size = c[x].size
  BY <1>9, <1>14, <1>16
<1>19. size \in Nat
  BY <1>2, <1>3
<1> HIDE DEF size
<1>20. Swaps(h, g, p, q, size)
  BY <1>14, <1>16, <1>17, <1>18, <1>19 DEF Swaps
<1>. QED BY <1>20 DEF g, size

LEMMA Led ==
  ASSUME NEW h, HeapOK(h), NEW p \in Used(h), NEW al \in Nat, al >= MINSIZE, al % 2 = 0,
         NEW nb, Words_(nb), h.chunks[p].size >= nb + al + MINSIZE, NEW r, r = LeadingFreed(h, p, al)
  PROVE  Exchanged(h, r, p, nb)
<1> DEFINE c == h.chunks
           q == AlignedSpot(p, al)
           size == chunksize(h, p) - (q - p)
           mem == chunk2mem(p)
           hi == After(c, p)
<1>1. Tiled(h) /\ p \in DOMAIN c
  BY Apiece DEF HeapOK
<1>2. p \in Nat /\ p % 2 = 0 /\ p # null /\ hi \in Nat /\ hi = p + c[p].size /\ chunksize(h, p) = c[p].size /\ c[p].size \in Nat
  BY <1>1, OfChunk
<1>3. mem2chunk(mem) = p
  BY <1>2 DEF mem2chunk, chunk2mem
<1>4. q \in Nat /\ q % 2 = 0 /\ q - p >= MINSIZE /\ q - p < al + MINSIZE
  BY <1>2, SpotFound
<1>5. r = IF mem % al = 0 THEN Result(h, mem)
          ELSE Result(fREe(set_head_size(set_inuse_bit_at(set_head(h, q, size, TRUE), q + size), p, q - p), mem),
                      chunk2mem(q))
  BY DEF LeadingFreed, AlignedSpot
<1> HIDE DEF q
<1>6. nb \in Nat /\ nb >= MINSIZE
  BY DEF Words_
<1>7. size = hi - q /\ q + size = hi /\ size >= nb /\ hi - q >= MINSIZE
  BY <1>2, <1>4, <1>6 DEF MINSIZE
<1> HIDE DEF size, hi, mem
<1>8. CASE mem % al = 0
  <2>1. c[p].size >= nb
    BY <1>2, <1>6 DEF MINSIZE
  <2>2. Used(h) = (Used(h) \ {p}) \cup {p}
    OBVIOUS
  <2>3. Swaps(h, h, p, p, nb)
    BY <2>1, <2>2 DEF Swaps
  <2>4. r.heap = h /\ r.mem = chunk2mem(p)
    BY <1>5, <1>8 DEF Result, mem
  <2>. QED BY <1>2, <2>3, <2>4, ExchangedFor
<1>9. CASE mem % al # 0
  <2> DEFINE k == FrontCut(h, p, q, hi)
  <2>1. r = Result(fREe(k, mem), chunk2mem(q))
    BY <1>5, <1>7, <1>9 DEF FrontCut
  <2> HIDE DEF k
  <2>2. Swaps(h, fREe(k, mem), p, q, hi - q)
    BY <1>3, <1>4, <1>7, FrontFreed DEF k, hi
  <2>3. hi - q >= nb /\ hi - q \in Nat
    BY <1>6, <1>7, <1>2, <1>4
  <2>4. Swaps(h, fREe(k, mem), p, q, nb)
    <3> DEFINE g == fREe(k, mem)
    <3> HIDE DEF g
    <3>1. Swaps(h, g, p, q, hi - q)
      BY <2>2 DEF g
    <3>2. HeapOK(g) /\ q \in Used(g) /\ g.chunks[q].size >= hi - q
      BY <3>1 DEF Swaps
    <3>3. g.chunks[q].size \in Nat
      <4>1. Tiled(g) /\ q \in DOMAIN g.chunks
        BY <3>2, Apiece DEF HeapOK
      <4>. QED BY <4>1, OfChunk
    <3>4. g.chunks[q].size >= nb
      BY <1>6, <2>3, <3>2, <3>3
    <3>5. Swaps(h, g, p, q, nb)
      BY <3>1, <3>4 DEF Swaps
    <3>. QED BY <3>5 DEF g
  <2>5. r.heap = fREe(k, mem) /\ r.mem = chunk2mem(q)
    BY <2>1 DEF Result
  <2>. QED BY <1>4, <2>4, <2>5, ExchangedFor
<1>. QED BY <1>8, <1>9
(* g has one more chunk in use, p, and the others as they were.            *)
Adds(h, g, p, nb) ==
  /\ HeapOK(g) /\ Used(g) = Used(h) \cup {p} /\ p \notin Used(h) /\ g.chunks[p].size >= nb
  /\ \A q \in Used(h) : g.chunks[q].size = h.chunks[q].size
Added(h, r, nb) == r.mem # null /\ r.mem \in Nat /\ mem2chunk(r.mem) \in Nat /\ Adds(h, r.heap, mem2chunk(r.mem), nb)

LEMMA AddedThenSwapped ==
  ASSUME NEW h, NEW g, NEW p, NEW w, Adds(h, g, p, w), NEW k, NEW q, NEW nb, Swaps(g, k, p, q, nb)
  PROVE  Adds(h, k, q, nb)
<1>1. /\ Used(g) = Used(h) \cup {p} /\ p \notin Used(h)
      /\ \A x \in Used(h) : g.chunks[x].size = h.chunks[x].size
  BY DEF Adds
<1>2. /\ HeapOK(k) /\ Used(k) = (Used(g) \ {p}) \cup {q} /\ q \notin Used(g) \ {p} /\ k.chunks[q].size >= nb
      /\ \A x \in Used(g) \ {p} : k.chunks[x].size = g.chunks[x].size
  BY DEF Swaps
<1>3. Used(g) \ {p} = Used(h)
  BY <1>1
<1>. QED BY <1>1, <1>2, <1>3 DEF Adds

LEMMA AddedThenExchanged ==
  ASSUME NEW h, NEW r, NEW w, Added(h, r, w), NEW s, NEW nb, Exchanged(r.heap, s, mem2chunk(r.mem), nb)
  PROVE  Added(h, s, nb)
BY AddedThenSwapped DEF Added, Exchanged

(* mEMALIGn().                                                             *)
LEMMA Aligned ==
  ASSUME NEW h, HeapOK(h), NEW a \in Nat, a <= MALLOC_ALIGNMENT \/ a % MALLOC_ALIGNMENT = 0,
         NEW n \in Nat, NEW nb, nb = request2size(n), NEW r, r = mEMALIGn(h, a, n)
  PROVE  Added(h, r, nb) \/ (r.mem = null /\ Kept(h, r.heap))
<1> DEFINE al == Max({a, MINSIZE})
           room == nb + al + MINSIZE
           wide == mALLOc(h, room)
           l == LeadingFreed(wide.heap, mem2chunk(wide.mem), al)
           p == mem2chunk(l.mem)
           size == chunksize(l.heap, p)
           s == Result(SplitOff(l.heap, p, size, nb), l.mem)
<1>1. r = IF a <= MALLOC_ALIGNMENT THEN mALLOc(h, n)
          ELSE IF wide.mem = null THEN wide
          ELSE IF size - nb < MINSIZE THEN l ELSE s
  BY DEF mEMALIGn
<1>2. nb \in Nat /\ Words_(nb)
  BY Allocated DEF Words_
<1>3. CASE a <= MALLOC_ALIGNMENT
  <2>1. Answered(h, r, nb)
    BY <1>1, <1>3, Allocated
  <2>. QED BY <2>1 DEF Answered, Got, Added, Gains, Adds
<1>4. CASE ~(a <= MALLOC_ALIGNMENT)
  <2>1. al \in Nat /\ al >= MINSIZE /\ al % 2 = 0
    <3>1. al = IF a >= MINSIZE THEN a ELSE MINSIZE
      BY MaxTwo DEF MINSIZE
    <3>2. a % 2 = 0
      BY <1>4 DEF MALLOC_ALIGNMENT
    <3> HIDE DEF al
    <3>. QED BY <3>1, <3>2 DEF MINSIZE
  <2> HIDE DEF al
  <2>2. room \in Nat
    BY <1>2, <2>1 DEF MINSIZE
  <2> DEFINE w == request2size(room)
  <2>3. w \in Nat /\ w >= room
    BY <2>2, RequestSize
  <2> HIDE DEF w
  <2>4. Answered(h, wide, w)
    BY <2>2, Allocated DEF w
  <2> HIDE DEF wide
  <2>5. CASE wide.mem = null
    <3>1. r = wide /\ Kept(h, wide.heap)
      BY <1>1, <1>4, <2>4, <2>5 DEF Answered, Got
    <3>. QED BY <2>5, <3>1
  <2>6. CASE wide.mem # null
    <3> DEFINE g == wide.heap
               o == mem2chunk(wide.mem)
    <3>1. Added(h, wide, w) /\ HeapOK(g) /\ o \in Used(g) /\ g.chunks[o].size >= w
      BY <2>4, <2>6 DEF Answered, Got, Added, Gains, Adds
    <3>2. g.chunks[o].size \in Nat
      <4>1. Tiled(g) /\ o \in DOMAIN g.chunks
        BY <3>1, Apiece DEF HeapOK
      <4>. QED BY <4>1, OfChunk
    <3>3. g.chunks[o].size >= nb + al + MINSIZE
      BY <2>2, <2>3, <3>1, <3>2
    <3> HIDE DEF l
    <3>4. Exchanged(g, l, o, nb)
      BY <1>2, <2>1, <3>1, <3>3, Led DEF l
    <3> HIDE DEF g, o
    <3>5. Added(h, l, nb)
      BY <3>1, <3>4, AddedThenExchanged DEF g, o
    <3>6. CASE size - nb < MINSIZE
      BY <1>1, <1>4, <2>6, <3>5, <3>6
    <3>7. CASE ~(size - nb < MINSIZE)
      <4>1. r = s
        BY <1>1, <1>4, <2>6, <3>7
      <4>2. HeapOK(l.heap) /\ p \in Used(l.heap) /\ p \in Nat /\ l.mem # null /\ l.mem \in Nat
        BY <3>5 DEF Added, Adds
      <4>3. size \in Nat
        <5>1. Tiled(l.heap) /\ p \in DOMAIN l.heap.chunks
          BY <4>2, Apiece DEF HeapOK
        <5>. QED BY <5>1, OfChunk
      <4>4. size >= nb
        BY <1>2, <3>7, <4>3 DEF MINSIZE
      <4>5. Swaps(l.heap, SplitOff(l.heap, p, size, nb), p, p, nb)
        BY <1>2, <4>2, <4>4, Shrunk
      <4>6. s.heap = SplitOff(l.heap, p, size, nb) /\ s.mem = l.mem
        BY DEF Result
      <4> HIDE DEF s
      <4>7. Exchanged(l.heap, s, p, nb)
        BY <4>2, <4>5, <4>6 DEF Exchanged
      <4>8. Added(h, s, nb)
        BY <3>5, <4>7, AddedThenExchanged
      <4>. QED BY <4>1, <4>8
    <3>. QED BY <3>6, <3>7
  <2>. QED BY <2>5, <2>6
<1>. QED BY <1>3, <1>4-----------------------------------------------------------------------------
(* Every block has a chunk in use that is long enough, and every chunk in  *)
(* use has a block.                                                        *)
Owned(h, l) ==
  /\ \A p \in Used(h) : chunk2mem(p) \in DOMAIN l
  /\ \A b \in DOMAIN l : /\ b \in Nat /\ mem2chunk(b) \in Used(h) /\ l[b] \in Requests
                         /\ h.chunks[mem2chunk(b)].size >= l[b] + 1

(* n words at m for the owner of the blocks of l in kept.                  *)
Owners(l, kept, m, n) == [b \in kept \cup {m} |-> IF b = m THEN n ELSE l[b]]

LEMMA Requested ==
  ASSUME NEW n \in Requests
  PROVE  n \in Nat /\ n > 0
BY RequestsAssumption

LEMMA UsedSize ==
  ASSUME NEW h, HeapOK(h), NEW p \in Used(h)
  PROVE  p \in Nat /\ h.chunks[p].size \in Nat /\ chunk2mem(p) \in Nat /\ mem2chunk(chunk2mem(p)) = p
<1>1. Tiled(h) /\ p \in DOMAIN h.chunks
  BY Apiece DEF HeapOK
<1>2. p \in Nat /\ h.chunks[p].size \in Nat
  BY <1>1, OfChunk
<1>. QED BY <1>2 DEF chunk2mem, mem2chunk

LEMMA OwnedChunk ==
  ASSUME NEW g, HeapOK(g), NEW q \in Used(g), NEW nb, NEW n \in Requests, nb = request2size(n), g.chunks[q].size >= nb
  PROVE  g.chunks[q].size >= n + 1
<1>1. nb \in Nat /\ nb >= n + 1 /\ n \in Nat
  BY RequestSize, Requested
<1>2. g.chunks[q].size \in Nat
  BY UsedSize
<1>. QED BY <1>1, <1>2

LEMMA OwnedKept ==
  ASSUME NEW h, NEW l, Owned(h, l), NEW g, Kept(h, g)
  PROVE  Owned(g, l)
BY DEF Owned, Kept

LEMMA OwnedLess ==
  ASSUME NEW h, HeapOK(h), NEW l, Owned(h, l), NEW g, NEW b \in DOMAIN l, Loses(h, g, mem2chunk(b))
  PROVE  Owned(g, Restrict(l, DOMAIN l \ {b}))
<1> DEFINE m == Restrict(l, DOMAIN l \ {b})
           p == mem2chunk(b)
<1>1. DOMAIN m = DOMAIN l \ {b} /\ \A c \in DOMAIN l \ {b} : m[c] = l[c]
  BY DEF Restrict
<1> HIDE DEF m
<1>2. /\ HeapOK(g) /\ Used(g) = Used(h) \ {p} /\ \A x \in Used(g) : g.chunks[x].size = h.chunks[x].size
  BY DEF Loses
<1>3. ASSUME NEW x \in Used(g) PROVE chunk2mem(x) \in DOMAIN m
  <2>1. x \in Used(h) /\ x # p
    BY <1>2
  <2>2. chunk2mem(x) \in DOMAIN l /\ mem2chunk(chunk2mem(x)) = x
    BY <2>1, UsedSize DEF Owned
  <2>. QED BY <1>1, <2>1, <2>2
<1>4. ASSUME NEW c \in DOMAIN m
      PROVE  /\ c \in Nat /\ mem2chunk(c) \in Used(g) /\ m[c] \in Requests
             /\ g.chunks[mem2chunk(c)].size >= m[c] + 1
  <2>1. c \in DOMAIN l /\ c # b /\ m[c] = l[c]
    BY <1>1
  <2>2. c \in Nat /\ mem2chunk(c) \in Used(h) /\ l[c] \in Requests /\ h.chunks[mem2chunk(c)].size >= l[c] + 1
        /\ b \in Nat
    BY <2>1 DEF Owned
  <2>3. mem2chunk(c) # p
    BY <2>1, <2>2 DEF mem2chunk
  <2>. QED BY <1>2, <2>1, <2>2, <2>3
<1>5. Owned(g, m)
  BY <1>3, <1>4 DEF Owned
<1>. QED BY <1>5 DEF m

(* The chunks of U are those of the blocks in kept; g has those and q.     *)
OwnedPart(h, l, U, kept) ==
  /\ U \subseteq Used(h) /\ kept \subseteq DOMAIN l
  /\ \A x \in Used(h) : x \in U <=> chunk2mem(x) \in kept
Renewed(h, g, U, q, nb) ==
  /\ HeapOK(g) /\ Used(g) = U \cup {q} /\ q \notin U /\ g.chunks[q].size >= nb
  /\ \A x \in U : g.chunks[x].size = h.chunks[x].size

LEMMA OwnedMore ==
  ASSUME NEW h, HeapOK(h), NEW l, Owned(h, l), NEW U, NEW kept, OwnedPart(h, l, U, kept),
         NEW n \in Requests, NEW nb, nb = request2size(n), NEW g, NEW q, Renewed(h, g, U, q, nb),
         NEW mem, mem2chunk(mem) = q, mem \in Nat
  PROVE  Owned(g, Owners(l, kept, mem, n)) /\ mem \notin kept
<1> DEFINE m == Owners(l, kept, mem, n)
<1>0. /\ U \subseteq Used(h) /\ kept \subseteq DOMAIN l
      /\ \A x \in Used(h) : x \in U <=> chunk2mem(x) \in kept
      /\ HeapOK(g) /\ Used(g) = U \cup {q} /\ q \notin U /\ g.chunks[q].size >= nb
      /\ \A x \in U : g.chunks[x].size = h.chunks[x].size
  BY DEF OwnedPart, Renewed
<1>1. DOMAIN m = kept \cup {mem} /\ m[mem] = n /\ \A c \in kept : c # mem => m[c] = l[c]
  BY DEF Owners
<1> HIDE DEF m
<1>2. q \in Used(g)
  BY <1>0
<1>3. chunk2mem(q) = mem
  BY DEF chunk2mem, mem2chunk
<1>4. ASSUME NEW x \in Used(g) PROVE chunk2mem(x) \in DOMAIN m
  <2>1. CASE x = q
    BY <1>1, <1>3, <2>1
  <2>2. CASE x \in U
    BY <1>0, <1>1, <2>2
  <2>. QED BY <1>0, <2>1, <2>2
<1>5. ASSUME NEW c \in kept
      PROVE  /\ c \in Nat /\ mem2chunk(c) \in U /\ l[c] \in Requests
             /\ h.chunks[mem2chunk(c)].size >= l[c] + 1
  <2>1. c \in Nat /\ mem2chunk(c) \in Used(h) /\ l[c] \in Requests /\ h.chunks[mem2chunk(c)].size >= l[c] + 1
    BY <1>0 DEF Owned
  <2>2. chunk2mem(mem2chunk(c)) = c
    BY <2>1 DEF chunk2mem, mem2chunk
  <2>. QED BY <1>0, <2>1, <2>2
<1>6. mem \notin kept
  BY <1>0, <1>5
<1>7. ASSUME NEW c \in DOMAIN m
      PROVE  /\ c \in Nat /\ mem2chunk(c) \in Used(g) /\ m[c] \in Requests
             /\ g.chunks[mem2chunk(c)].size >= m[c] + 1
  <2>1. CASE c = mem
    <3>1. HeapOK(g) /\ q \in Used(g) /\ g.chunks[q].size >= nb
      BY <1>0, <1>2
    <3>2. g.chunks[q].size >= n + 1
      BY <3>1, OwnedChunk
    <3>. QED BY <1>1, <2>1, <3>1, <3>2
  <2>2. CASE c # mem
    <3>1. c \in kept /\ m[c] = l[c]
      BY <1>1, <2>2
    <3>2. mem2chunk(c) \in U
      BY <1>5, <3>1
    <3>3. mem2chunk(c) \in Used(g) /\ g.chunks[mem2chunk(c)].size = h.chunks[mem2chunk(c)].size
      BY <1>0, <3>2
    <3>. QED BY <1>5, <3>1, <3>3
  <2>. QED BY <2>1, <2>2
<1>8. Owned(g, m)
  BY <1>4, <1>7 DEF Owned
<1>. QED BY <1>6, <1>8 DEF m

LEMMA OwnedAdded ==
  ASSUME NEW h, HeapOK(h), NEW l, Owned(h, l), NEW n \in Requests, NEW nb, nb = request2size(n),
         NEW r, Added(h, r, nb)
  PROVE  /\ HeapOK(r.heap) /\ Owned(r.heap, Owners(l, DOMAIN l, r.mem, n)) /\ r.mem \notin DOMAIN l
<1>1. OwnedPart(h, l, Used(h), DOMAIN l)
  BY DEF Owned, OwnedPart
<1>2. Renewed(h, r.heap, Used(h), mem2chunk(r.mem), nb) /\ r.mem \in Nat /\ HeapOK(r.heap)
  BY DEF Added, Adds, Renewed
<1>. QED BY <1>1, <1>2, OwnedMore

LEMMA OwnedExchanged ==
  ASSUME NEW h, HeapOK(h), NEW l, Owned(h, l), NEW b \in DOMAIN l, NEW n \in Requests, NEW nb, nb = request2size(n),
         NEW r, Exchanged(h, r, mem2chunk(b), nb)
  PROVE  /\ HeapOK(r.heap) /\ Owned(r.heap, Owners(l, DOMAIN l \ {b}, r.mem, n)) /\ r.mem \notin DOMAIN l \ {b}
<1> DEFINE p == mem2chunk(b)
           kept == DOMAIN l \ {b}
           U == Used(h) \ {p}
<1>1. ASSUME NEW x \in Used(h) PROVE x \in U <=> chunk2mem(x) \in kept
  <2>1. chunk2mem(x) \in DOMAIN l /\ x \in Nat /\ b \in Nat
    BY UsedSize DEF Owned
  <2>2. x = p <=> chunk2mem(x) = b
    BY <2>1 DEF chunk2mem, mem2chunk
  <2>. QED BY <2>1, <2>2
<1>2. OwnedPart(h, l, U, kept)
  BY <1>1 DEF OwnedPart
<1>3. Renewed(h, r.heap, U, mem2chunk(r.mem), nb) /\ r.mem \in Nat /\ HeapOK(r.heap)
  BY DEF Exchanged, Swaps, Renewed
<1> HIDE DEF U, kept
<1>4. Owned(r.heap, Owners(l, kept, r.mem, n)) /\ r.mem \notin kept
  BY <1>2, <1>3, OwnedMore
<1>. QED BY <1>3, <1>4 DEF kept

-----------------------------------------------------------------------------
(* The heap before the first call.                                         *)
LEMMA NoChunk ==
  /\ <<>> \in ChunkMaps /\ DOMAIN <<>> = {}
<1>1. DOMAIN <<>> = {}
  OBVIOUS
<1>2. <<>> = [x \in {} |-> x]
  OBVIOUS
<1>3. [x \in {} |-> x] \in [{} -> Chunk]
  OBVIOUS
<1>4. {} \in SUBSET Nat
  OBVIOUS
<1>. QED BY <1>1, <1>2, <1>3, <1>4 DEF ChunkMaps

LEMMA EmptyHeap ==
  HeapOK(InitHeap) /\ Used(InitHeap) = {}
<1> DEFINE h == InitHeap
           bins == [i \in 1 .. NAV - 1 |-> <<>>]
<1>1. /\ h.brk = Start /\ h.based = FALSE /\ h.top = null /\ h.chunks = <<>>
      /\ h.bins = bins /\ h.binblocks = {} /\ h.stale = {}
  BY DEF InitHeap
<1>2. <<>> \in ChunkMaps /\ DOMAIN <<>> = {}
  BY NoChunk
<1>3. bins \in [1 .. NAV - 1 -> Seq(Nat)] /\ \A i \in 1 .. NAV - 1 : bins[i] = <<>>
  OBVIOUS
<1>4. Start \in Nat /\ End \in Nat /\ Start <= End
  BY MallocAssumption
<1>5. h \in Heaps
  BY <1>2, <1>3, <1>4 DEF InitHeap, Heaps, null
<1>6. Free(h) = {} /\ Used(h) = {}
  BY <1>1, <1>2 DEF Free, Used, FreeIn, UsedIn
<1>7. Tiles(h.chunks, h.top, h.brk)
  BY <1>1, <1>2 DEF Tiles
<1>8. Tiled(h)
  BY <1>1, <1>2, <1>4, <1>5, <1>7 DEF Tiled
<1> HIDE DEF bins
<1>9. BinsFor(bins, {}, h.chunks, {})
  <2>1. \A i \in 1 .. NAV - 1 : Listed(bins[i]) = {}
    <3>1. Listed(<<>>) = {}
      BY DEF Listed
    <3>. QED BY <1>3, <3>1
  <2>2. \A i \in 1 .. NAV - 1 : OneBin(i, bins[i], {}, h.chunks)
    <3>1. Once(<<>>) /\ Downwards(<<>>, h.chunks) /\ Len(<<>>) = 0 /\ Listed(<<>>) = {}
      BY DEF Once, Downwards, Listed
    <3>. QED BY <1>3, <3>1 DEF OneBin
  <2>3. UNION {Listed(bins[i]) : i \in 1 .. NAV - 1} = {}
    BY <2>1
  <2>. QED BY <1>3, <2>1, <2>2, <2>3 DEF BinsFor
<1>. QED BY <1>1, <1>6, <1>8, <1>9 DEF HeapOK, Binned

(* cALLOc() clears the old part of top, and all of any other chunk: what   *)
(* it leaves has come from above the break.                                *)
LEMMA Cleared ==
  ASSUME NEW h, HeapOK(h), NEW n \in Nat, NEW r, NEW nb, Got(h, r, nb)
  PROVE  cALLOc_dirty(h, r) = {}
<1> DEFINE p == mem2chunk(r.mem)
           g == r.heap
           size == chunksize(g, p)
           old == chunksize(h, h.top)
           fresh == p = h.top /\ size > old
<1>1. Gains(h, g, p, nb) /\ p \in Nat /\ r.mem \in Nat
  BY DEF Got
<1>2. HeapOK(g) /\ p \in Used(g) /\ (p = h.top => g.top = After(g.chunks, p)) /\ h.stale = {} /\ Tiled(h)
  BY <1>1 DEF Gains, HeapOK, Tiled
<1>3. Tiled(g) /\ p \in DOMAIN g.chunks
  BY <1>2, Apiece DEF HeapOK
<1>4. size \in Nat /\ p # null /\ After(g.chunks, p) = p + size
  BY <1>3, OfChunk
<1>5. cALLOc_dirty(h, r) =
        ((r.mem .. r.mem + size - 2) \ (r.mem .. r.mem + (IF fresh THEN old ELSE size) - 2))
          \cap ((1 .. h.brk - 1 \cup {g.top + 1}) \cup h.stale)
  BY DEF cALLOc_dirty, UserWords
<1>6. r.mem = p + 2
  BY <1>1 DEF mem2chunk
<1> HIDE DEF p, g, size, old
<1>7. CASE ~fresh
  BY <1>5, <1>7
<1>8. CASE fresh
  <2>1. h.top = p /\ h.top # null /\ g.top = p + size
    BY <1>2, <1>4, <1>8
  <2>2. old \in Nat /\ h.brk = p + old /\ h.brk \in Nat
    BY <1>2, <2>1, OfTop DEF old
  <2>. QED BY <1>1, <1>2, <1>4, <1>5, <1>6, <1>8, <2>1, <2>2
<1>. QED BY <1>7, <1>8
-----------------------------------------------------------------------------
(* The inductive invariant: the heap is in order, its chunks in use are    *)
(* those of the blocks, a refusal was justified and no word was left over. *)
HeapInv ==
  /\ HeapOK(heap) /\ Owned(heap, live)
  /\ refused > 0 => Refused(heap, request2size(refused))
  /\ ~uncleared

LEMMA HeapInvInit ==
  HeapInit => HeapInv
<1> SUFFICES ASSUME HeapInit PROVE HeapInv
  OBVIOUS
<1>1. heap = InitHeap /\ live = <<>> /\ refused = 0 /\ ~uncleared
  BY DEF HeapInit
<1>2. HeapOK(heap) /\ Used(heap) = {} /\ DOMAIN live = {}
  BY <1>1, EmptyHeap, NoChunk
<1>. QED BY <1>1, <1>2 DEF HeapInv, Owned

(* What the caller of a plain request gets.                                *)
LEMMA AnswerKeeps ==
  ASSUME HeapInv, NEW n \in Requests, NEW r, Answered(heap, r, request2size(n)), Answer(r, n, DOMAIN live)
  PROVE  HeapOK(heap') /\ Owned(heap', live') /\ (refused' > 0 => Refused(heap', request2size(refused')))
<1> DEFINE nb == request2size(n)
<1>1. HeapOK(heap) /\ Owned(heap, live)
  BY DEF HeapInv
<1>2. heap' = r.heap
  BY DEF Answer
<1>3. CASE r.mem = null
  <2>1. refused' = n /\ live' = live
    BY <1>3 DEF Answer
  <2>2. Kept(heap, r.heap) /\ Refused(r.heap, nb)
    BY <1>3 DEF Answered, Got
  <2>3. Owned(r.heap, live) /\ HeapOK(r.heap)
    BY <1>1, <2>2, OwnedKept DEF Kept
  <2>. QED BY <1>2, <2>1, <2>2, <2>3
<1>4. CASE r.mem # null
  <2>1. refused' = 0 /\ live' = Owners(live, DOMAIN live, r.mem, n)
    BY <1>4 DEF Answer, Owning, Owners
  <2>2. Added(heap, r, nb)
    BY <1>4 DEF Answered, Got, Gains, Added, Adds
  <2>3. HeapOK(r.heap) /\ Owned(r.heap, Owners(live, DOMAIN live, r.mem, n))
    BY <1>1, <2>2, OwnedAdded
  <2>. QED BY <1>2, <2>1, <2>3
<1>. QED BY <1>3, <1>4

LEMMA mallocKeeps ==
  ASSUME HeapInv, NEW n \in Requests, malloc(n)
  PROVE  HeapInv'
<1>1. HeapOK(heap) /\ n \in Nat
  BY Requested DEF HeapInv
<1>2. Answered(heap, mALLOc(heap, n), request2size(n))
  BY <1>1, Allocated
<1>3. Answer(mALLOc(heap, n), n, DOMAIN live) /\ uncleared' = uncleared
  BY DEF malloc
<1>4. HeapOK(heap') /\ Owned(heap', live') /\ (refused' > 0 => Refused(heap', request2size(refused')))
  BY <1>2, <1>3, AnswerKeeps
<1>. QED BY <1>3, <1>4 DEF HeapInv

LEMMA callocKeeps ==
  ASSUME HeapInv, NEW n \in Requests, calloc(n)
  PROVE  HeapInv'
<1> DEFINE r == mALLOc(heap, n)
<1>1. HeapOK(heap) /\ n \in Nat /\ ~uncleared
  BY Requested DEF HeapInv
<1>2. Answered(heap, r, request2size(n))
  BY <1>1, Allocated
<1>3. /\ Answer(r, n, DOMAIN live)
      /\ uncleared' = (uncleared \/ (r.mem # null /\ cALLOc_dirty(heap, r) # {}))
  BY DEF calloc
<1> HIDE DEF r
<1>4. HeapOK(heap') /\ Owned(heap', live') /\ (refused' > 0 => Refused(heap', request2size(refused')))
  BY <1>2, <1>3, AnswerKeeps
<1>5. r.mem # null => cALLOc_dirty(heap, r) = {}
  BY <1>1, <1>2, Cleared DEF Answered
<1>6. ~uncleared'
  BY <1>1, <1>3, <1>5
<1>. QED BY <1>4, <1>6 DEF HeapInv

LEMMA memalignKeeps ==
  ASSUME HeapInv, NEW a \in Alignments, NEW n \in Requests, memalign(a, n)
  PROVE  HeapInv'
<1> DEFINE r == mEMALIGn(heap, a, n)
           nb == request2size(n)
<1>1. HeapOK(heap) /\ Owned(heap, live) /\ n \in Nat /\ ~uncleared
  BY Requested DEF HeapInv
<1>2. a \in Nat /\ (a <= MALLOC_ALIGNMENT \/ a % MALLOC_ALIGNMENT = 0)
  BY RequestsAssumption
<1>3. Added(heap, r, nb) \/ (r.mem = null /\ Kept(heap, r.heap))
  BY <1>1, <1>2, Aligned
<1>4. /\ heap' = r.heap /\ refused' = 0 /\ uncleared' = uncleared
      /\ live' = IF r.mem = null THEN live ELSE Owners(live, DOMAIN live, r.mem, n)
  BY DEF memalign, Owning, Owners
<1> HIDE DEF r, nb
<1>5. HeapOK(heap') /\ Owned(heap', live')
  <2>1. CASE r.mem = null
    <3>1. Kept(heap, r.heap)
      BY <1>3, <2>1 DEF Added
    <3>. QED BY <1>1, <1>4, <2>1, <3>1, OwnedKept DEF Kept
  <2>2. CASE r.mem # null
    <3>1. HeapOK(r.heap) /\ Owned(r.heap, Owners(live, DOMAIN live, r.mem, n))
      BY <1>1, <1>3, <2>2, OwnedAdded DEF nb
    <3>. QED BY <1>4, <2>2, <3>1
  <2>. QED BY <2>1, <2>2
<1>. QED BY <1>1, <1>4, <1>5 DEF HeapInv

LEMMA freeKeeps ==
  ASSUME HeapInv, NEW b \in DOMAIN live, free(b)
  PROVE  HeapInv'
<1>1. HeapOK(heap) /\ Owned(heap, live) /\ ~uncleared
  BY DEF HeapInv
<1>2. mem2chunk(b) \in Used(heap)
  BY <1>1 DEF Owned
<1>3. Loses(heap, fREe(heap, b), mem2chunk(b))
  BY <1>1, <1>2, Freed
<1>4. heap' = fREe(heap, b) /\ live' = Restrict(live, DOMAIN live \ {b}) /\ refused' = 0 /\ uncleared' = uncleared
  BY DEF free
<1>5. HeapOK(heap') /\ Owned(heap', live')
  BY <1>1, <1>3, <1>4, OwnedLess DEF Loses
<1>. QED BY <1>1, <1>4, <1>5 DEF HeapInv

LEMMA reallocKeeps ==
  ASSUME HeapInv, NEW b \in DOMAIN live, NEW n \in Requests, realloc(b, n)
  PROVE  HeapInv'
<1> DEFINE r == rEALLOc(heap, b, n)
           nb == request2size(n)
           p == mem2chunk(b)
<1>1. HeapOK(heap) /\ Owned(heap, live) /\ n \in Nat /\ ~uncleared
  BY Requested DEF HeapInv
<1>2. p \in Used(heap) /\ b = chunk2mem(p)
  BY <1>1 DEF Owned, mem2chunk, chunk2mem
<1> HIDE DEF p
<1>3. Exchanged(heap, r, p, nb) \/ Denied(heap, r, nb)
  BY <1>1, <1>2, Reallocated
<1>4. Answer(r, n, DOMAIN live \ {b}) /\ uncleared' = uncleared
  BY DEF realloc
<1> HIDE DEF r, nb
<1>5. HeapOK(heap') /\ Owned(heap', live') /\ (refused' > 0 => Refused(heap', request2size(refused')))
  <2>1. heap' = r.heap
    BY <1>4 DEF Answer
  <2>2. CASE r.mem = null
    <3>1. Kept(heap, r.heap) /\ Refused(r.heap, nb)
      BY <1>3, <2>2 DEF Exchanged, Denied
    <3>2. refused' = n /\ live' = live
      BY <1>4, <2>2 DEF Answer
    <3>3. Owned(r.heap, live) /\ HeapOK(r.heap)
      BY <1>1, <3>1, OwnedKept DEF Kept
    <3>. QED BY <2>1, <3>1, <3>2, <3>3 DEF nb
  <2>3. CASE r.mem # null
    <3>1. Exchanged(heap, r, mem2chunk(b), nb)
      BY <1>3, <2>3 DEF Denied, p
    <3>2. refused' = 0 /\ live' = Owners(live, DOMAIN live \ {b}, r.mem, n)
      BY <1>4, <2>3 DEF Answer, Owning, Owners
    <3>3. HeapOK(r.heap) /\ Owned(r.heap, Owners(live, DOMAIN live \ {b}, r.mem, n))
      BY <1>1, <3>1, OwnedExchanged DEF nb
    <3>. QED BY <2>1, <3>2, <3>3
  <2>. QED BY <2>2, <2>3
<1>. QED BY <1>1, <1>4, <1>5 DEF HeapInv

LEMMA HeapInvNext ==
  HeapInv /\ [HeapNext]_heapVars => HeapInv'
<1> SUFFICES ASSUME HeapInv, [HeapNext]_heapVars PROVE HeapInv'
  OBVIOUS
<1>1. CASE UNCHANGED heapVars
  BY <1>1 DEF heapVars, HeapInv
<1>2. ASSUME NEW n \in Requests, malloc(n) PROVE HeapInv'
  BY <1>2, mallocKeeps
<1>3. ASSUME NEW n \in Requests, calloc(n) PROVE HeapInv'
  BY <1>3, callocKeeps
<1>4. ASSUME NEW n \in Requests, NEW a \in Alignments, memalign(a, n) PROVE HeapInv'
  BY <1>4, memalignKeeps
<1>5. ASSUME NEW b \in DOMAIN live, free(b) PROVE HeapInv'
  BY <1>5, freeKeeps
<1>6. ASSUME NEW b \in DOMAIN live, NEW n \in Requests, realloc(b, n) PROVE HeapInv'
  BY <1>6, reallocKeeps
<1>. QED BY <1>1, <1>2, <1>3, <1>4, <1>5, <1>6 DEF HeapNext

(* Between two calls the heap is in order, and every chunk in use is the   *)
(* one of the block that owns it.                                          *)
THEOREM HeapInvariance ==
  HeapSpec => []HeapInv
BY HeapInvInit, HeapInvNext, PTL DEF HeapSpec
-----------------------------------------------------------------------------
LEMMA HeapSets ==
  ASSUME HeapOK(heap)
  PROVE  FreeChunks = Free(heap) /\ {q \in Heads : InUse(q)} = Used(heap)
<1>1. Tiled(heap)
  BY DEF HeapOK
<1>2. \A p \in DOMAIN heap.chunks : p + chunksize(heap, p) = After(heap.chunks, p)
  BY <1>1, OfChunk
<1>. QED BY <1>2 DEF FreeChunks, Free, FreeIn, InUse, Used, UsedIn, Heads, inuse, prev_inuse

LEMMA TilesHold ==
  ASSUME HeapOK(heap)
  PROVE  ChunksTile
<1> DEFINE c == heap.chunks
<1>1. Tiled(heap) /\ FreeChunks = Free(heap) /\ Heads = DOMAIN c
  BY HeapSets DEF HeapOK, Heads
<1>2. heap.top = null => Heads = {}
  BY <1>1 DEF Tiled, Tiles
<1>3. heap.top # null => heap.top \in Heads /\ Next_(heap.top) = heap.brk
  <2>1. heap.top # null => /\ heap.top \in DOMAIN c /\ chunksize(heap, heap.top) = c[heap.top].size
                           /\ heap.brk = heap.top + c[heap.top].size
    BY <1>1, OfTop
  <2>. QED BY <1>1, <2>1 DEF Next_
<1>4. ASSUME NEW p \in Heads
      PROVE  /\ chunksize(heap, p) >= MINSIZE /\ chunk2mem(p) % MALLOC_ALIGNMENT = 0
             /\ p # heap.top => Next_(p) \in Heads
             /\ \A q \in Heads : q <= p \/ q >= Next_(p)
             /\ ~prev_inuse(heap, p) => prev_chunk(heap, p) \in FreeChunks /\ Next_(prev_chunk(heap, p)) = p
             /\ p \in FreeChunks \cup {heap.top} => prev_inuse(heap, p)
  <2>1. p \in DOMAIN c
    BY <1>1
  <2> DEFINE n == After(c, p)
             r == p - c[p].prev_size
  <2>2. /\ p \in Nat /\ p % 2 = 0 /\ chunksize(heap, p) >= MINSIZE /\ n = p + chunksize(heap, p)
        /\ p # heap.top => n \in DOMAIN c
        /\ \A q \in DOMAIN c : q <= p \/ q >= n
        /\ p \in Free(heap) \cup {heap.top} => c[p].prev_inuse
        /\ ~c[p].prev_inuse => r \in DOMAIN c /\ r \in Free(heap) /\ After(c, r) = p
    BY <1>1, <2>1, OfChunk
  <2>3. n = Next_(p) /\ r = prev_chunk(heap, p) /\ c[p].prev_inuse = prev_inuse(heap, p)
    BY <2>2 DEF Next_, prev_chunk, prev_inuse
  <2>4. r \in DOMAIN c => After(c, r) = Next_(r)
    <3> HIDE DEF r
    <3>1. r \in DOMAIN c => After(c, r) = r + chunksize(heap, r)
      BY <1>1, OfChunk
    <3>. QED BY <3>1 DEF Next_
  <2>5. chunk2mem(p) % MALLOC_ALIGNMENT = 0
    BY <2>2 DEF chunk2mem, MALLOC_ALIGNMENT
  <2> HIDE DEF n, r, c
  <2>. QED BY <1>1, <2>2, <2>3, <2>4, <2>5
<1>. QED BY <1>2, <1>3, <1>4 DEF ChunksTile

LEMMA OneSpot ==
  ASSUME HeapOK(heap), NEW p \in Free(heap)
  PROVE  \E s \in Spots : \A r \in Spots : heap.bins[r[1]][r[2]] = p <=> r = s
<1> DEFINE bins == heap.bins
<1>1. /\ \A i \in 1 .. NAV - 1 : Once(bins[i])
      /\ \A i, j \in 1 .. NAV - 1 : i # j => Listed(bins[i]) \cap Listed(bins[j]) = {}
      /\ Free(heap) = UNION {Listed(bins[i]) : i \in 1 .. NAV - 1}
  BY DEF HeapOK, Binned, BinsFor, OneBin
<1>2. \A i \in 1 .. NAV - 1 : DOMAIN bins[i] = 1 .. Len(bins[i])
  BY InBin
<1> HIDE DEF bins
<1>3. PICK i \in 1 .. NAV - 1 : p \in Listed(bins[i])
  BY <1>1
<1>4. PICK k \in 1 .. Len(bins[i]) : bins[i][k] = p
  BY <1>3 DEF Listed
<1>5. <<i, k>> \in Spots
  BY <1>2, <1>4 DEF Spots, bins
<1>6. ASSUME NEW r \in Spots PROVE bins[r[1]][r[2]] = p <=> r = <<i, k>>
  <2>1. PICK j \in 1 .. NAV - 1 : r \in {j} \X DOMAIN bins[j]
    BY DEF Spots, bins
  <2>2. r[1] = j /\ r[2] \in 1 .. Len(bins[j]) /\ r = <<r[1], r[2]>>
    BY <1>2, <2>1
  <2>3. ASSUME bins[j][r[2]] = p PROVE j = i /\ r[2] = k
    <3>1. p \in Listed(bins[j])
      BY <2>2, <2>3 DEF Listed
    <3>2. j = i
      BY <1>1, <1>3, <3>1
    <3>. QED BY <1>1, <1>4, <2>2, <2>3, <3>2 DEF Once
  <2>4. bins[r[1]][r[2]] = p => r = <<i, k>>
    BY <2>2, <2>3
  <2>5. r = <<i, k>> => bins[r[1]][r[2]] = p
    BY <1>4
  <2>. QED BY <2>4, <2>5
<1>. QED BY <1>5, <1>6 DEF bins

LEMMA BinsHold ==
  ASSUME HeapOK(heap)
  PROVE  BinsExact
<1>1. FreeChunks = Free(heap)
  BY HeapSets
<1>2. \A p \in FreeChunks : \E s \in Spots : \A r \in Spots : heap.bins[r[1]][r[2]] = p <=> r = s
  BY <1>1, OneSpot
<1>3. last_remainder \in 1 .. NAV - 1
  BY Tables DEF last_remainder
<1>4. Len(heap.bins[last_remainder]) <= 1
  BY <1>3 DEF HeapOK, Binned, BinsFor, OneBin
<1>5. ASSUME NEW i \in 1 .. NAV - 1, NEW k \in DOMAIN heap.bins[i]
      PROVE  LET p == heap.bins[i][k]
             IN /\ p \in FreeChunks
                /\ i # last_remainder => BinOf(chunksize(heap, p)) = i /\ BlockOf(i) \in heap.binblocks
                /\ k > 1 => chunksize(heap, p) <= chunksize(heap, heap.bins[i][k - 1])
  <2> DEFINE q == heap.bins[i]
             p == q[k]
  <2>1. /\ Listed(q) \subseteq Free(heap) /\ DOMAIN q = 1 .. Len(q) /\ Len(q) \in Nat
        /\ \A x \in Listed(q) : /\ chunksize(heap, x) = heap.chunks[x].size
                                /\ i # last_remainder => BinOf(heap.chunks[x].size) = i /\ BlockOf(i) \in heap.binblocks
    BY InBin
  <2>2. Downwards(q, heap.chunks)
    BY DEF HeapOK, Binned, BinsFor, OneBin
  <2> HIDE DEF q
  <2>3. k \in 1 .. Len(q) /\ k \in Nat
    BY <2>1 DEF q
  <2>4. p \in Listed(q) /\ (k > 1 => k - 1 \in 1 .. Len(q) /\ q[k - 1] \in Listed(q))
    BY <2>1, <2>3 DEF Listed
  <2>5. k > 1 => heap.chunks[p].size <= heap.chunks[q[k - 1]].size
    BY <2>1, <2>2, <2>3, <2>4 DEF Downwards
  <2>6. /\ p \in FreeChunks
        /\ i # last_remainder => BinOf(chunksize(heap, p)) = i /\ BlockOf(i) \in heap.binblocks
        /\ k > 1 => chunksize(heap, p) <= chunksize(heap, q[k - 1])
    BY <1>1, <2>1, <2>4, <2>5
  <2>. QED BY <2>6 DEF q
<1>. QED BY <1>2, <1>4, <1>5 DEF BinsExact

LEMMA BlocksHold ==
  ASSUME HeapOK(heap), Owned(heap, live)
  PROVE  BlocksHeld
<1>1. {q \in Heads : InUse(q)} = Used(heap)
  BY HeapSets
<1> DEFINE S == {chunk2mem(p) : p \in Used(heap)}
<1>2. ASSUME NEW b \in S PROVE b \in DOMAIN live
  BY DEF Owned
<1>3. ASSUME NEW b \in DOMAIN live PROVE b \in S
  <2>1. mem2chunk(b) \in Used(heap) /\ b \in Nat
    BY DEF Owned
  <2>2. b = chunk2mem(mem2chunk(b))
    BY <2>1 DEF chunk2mem, mem2chunk
  <2>. QED BY <2>1, <2>2
<1>4. S = DOMAIN live
  BY <1>2, <1>3
<1>5. ASSUME NEW b \in DOMAIN live PROVE chunksize(heap, mem2chunk(b)) >= live[b] + 1
  <2>1. mem2chunk(b) \in Used(heap) /\ heap.chunks[mem2chunk(b)].size >= live[b] + 1
    BY DEF Owned
  <2>2. Tiled(heap) /\ mem2chunk(b) \in DOMAIN heap.chunks
    BY <2>1, Apiece DEF HeapOK
  <2>3. chunksize(heap, mem2chunk(b)) = heap.chunks[mem2chunk(b)].size
    BY <2>2, OfChunk
  <2>. QED BY <2>1, <2>3
<1>. QED BY <1>1, <1>4, <1>5 DEF BlocksHeld

LEMMA RefusalsHold ==
  ASSUME HeapInv
  PROVE  RefusedOnlyWhenFull
<1> SUFFICES ASSUME refused > 0
             PROVE  /\ \A p \in FreeChunks : chunksize(heap, p) < request2size(refused)
                    /\ heap.brk + RoundUp(request2size(refused) + TopPad + MINSIZE, PageSize)
                         + (IF heap.top = null THEN PageSize ELSE 0) > End
  BY DEF RefusedOnlyWhenFull
<1> DEFINE nb == request2size(refused)
<1>1. HeapOK(heap) /\ Refused(heap, nb)
  BY DEF HeapInv
<1> HIDE DEF nb
<1>2. Tiled(heap) /\ FreeChunks = Free(heap) /\ Free(heap) \subseteq DOMAIN heap.chunks
  BY <1>1, HeapSets, Apiece DEF HeapOK
<1>3. \A p \in Free(heap) : chunksize(heap, p) = heap.chunks[p].size
  BY <1>2, OfChunk
<1>. QED BY <1>1, <1>2, <1>3 DEF Refused, Needed, nb

(* Every chunk is where the boundary tags, the bins and its owner say,     *)
(* whatever was split, merged, moved, trimmed or taken for a block.        *)
THEOREM HeapTagsCorrect ==
  HeapSpec => []HeapExact
<1>1. HeapInv => HeapExact
  BY TilesHold, BinsHold, BlocksHold DEF HeapInv, HeapExact
<1>. QED BY <1>1, HeapInvariance, PTL

(* A plain request is refused only when no free chunk would do and the     *)
(* break cannot be moved far enough.                                       *)
THEOREM RefusalsJustified ==
  HeapSpec => []RefusedOnlyWhenFull
BY HeapInvariance, RefusalsHold, PTL

(* cALLOc() leaves nothing that is not zero, though it does not clear what *)
(* sbrk() has just given.                                                  *)
THEOREM CallocCorrect ==
  HeapSpec => []CallocClears
<1>1. HeapInv => CallocClears
  BY DEF HeapInv, CallocClears
<1>. QED BY <1>1, HeapInvariance, PTL
-----------------------------------------------------------------------------
(* The words of a block lie inside its chunk, and the chunks lie apart.    *)
LEMMA BlocksApart ==
  ASSUME NEW h, HeapOK(h), NEW l, Owned(h, l)
  PROVE  /\ \A b \in DOMAIN l : b \in Nat /\ l[b] \in Nat /\ l[b] > 0 /\ b >= Start /\ b + l[b] <= End + 1
         /\ \A b, d \in DOMAIN l : b # d => (b .. b + l[b] - 1) \cap (d .. d + l[d] - 1) = {}
<1>0. Tiled(h)
  BY DEF HeapOK
<1>1. ASSUME NEW b \in DOMAIN l
      PROVE  LET p == mem2chunk(b)
             IN /\ p \in Nat /\ b = p + 2 /\ l[b] \in Nat /\ l[b] > 0 /\ p \in DOMAIN h.chunks
                /\ h.chunks[p].size \in Nat /\ h.chunks[p].size >= l[b] + 1
                /\ p >= Start /\ p + h.chunks[p].size <= End
                /\ \A q \in DOMAIN h.chunks : q <= p \/ q >= p + h.chunks[p].size
  <2> DEFINE p == mem2chunk(b)
  <2>1. b \in Nat /\ p \in Used(h) /\ l[b] \in Requests /\ h.chunks[p].size >= l[b] + 1
    BY DEF Owned
  <2>2. b = p + 2
    BY <2>1 DEF mem2chunk
  <2> HIDE DEF p
  <2>3. p \in DOMAIN h.chunks
    BY <1>0, <2>1, Apiece
  <2>4. /\ p \in Nat /\ h.chunks[p].size \in Nat /\ After(h.chunks, p) = p + h.chunks[p].size
        /\ p >= Start /\ p + h.chunks[p].size <= h.brk
        /\ \A q \in DOMAIN h.chunks : q <= p \/ q >= p + h.chunks[p].size
    BY <1>0, <2>3, OfChunk
  <2>5. h.brk \in Nat /\ h.brk <= End /\ End \in Nat
    BY <1>0, Fields, MallocAssumption DEF Tiled
  <2>6. p + h.chunks[p].size <= End
    BY <2>4, <2>5
  <2>7. l[b] \in Nat /\ l[b] > 0
    BY <2>1, Requested
  <2>8. /\ p \in Nat /\ b = p + 2 /\ l[b] \in Nat /\ l[b] > 0 /\ p \in DOMAIN h.chunks
        /\ h.chunks[p].size \in Nat /\ h.chunks[p].size >= l[b] + 1
        /\ p >= Start /\ p + h.chunks[p].size <= End
        /\ \A q \in DOMAIN h.chunks : q <= p \/ q >= p + h.chunks[p].size
    BY <2>1, <2>2, <2>3, <2>4, <2>6, <2>7
  <2>. QED BY <2>8 DEF p
<1>2. ASSUME NEW b \in DOMAIN l
      PROVE  b \in Nat /\ l[b] \in Nat /\ l[b] > 0 /\ b >= Start /\ b + l[b] <= End + 1
  <2> DEFINE p == mem2chunk(b)  s == h.chunks[p].size
  <2>1. /\ p \in Nat /\ b = p + 2 /\ l[b] \in Nat /\ l[b] > 0 /\ s \in Nat /\ s >= l[b] + 1
        /\ p >= Start /\ p + s <= End
    BY <1>1
  <2>2. Start \in Nat /\ End \in Nat
    BY MallocAssumption
  <2> HIDE DEF p, s
  <2>. QED BY <2>1, <2>2
<1>3. ASSUME NEW b \in DOMAIN l, NEW d \in DOMAIN l, b # d
      PROVE  (b .. b + l[b] - 1) \cap (d .. d + l[d] - 1) = {}
  <2> DEFINE p == mem2chunk(b)  s == h.chunks[p].size
             q == mem2chunk(d)  t == h.chunks[q].size
  <2>1. /\ p \in Nat /\ b = p + 2 /\ l[b] \in Nat /\ s \in Nat /\ s >= l[b] + 1 /\ p \in DOMAIN h.chunks
        /\ q \in Nat /\ d = q + 2 /\ l[d] \in Nat /\ t \in Nat /\ t >= l[d] + 1 /\ q \in DOMAIN h.chunks
    BY <1>1
  <2>2. (q <= p \/ q >= p + s) /\ (p <= q \/ p >= q + t)
    BY <1>1, <2>1
  <2> HIDE DEF p, q, s, t
  <2>3. q >= p + s \/ p >= q + t
    BY <1>3, <2>1, <2>2
  <2>. QED BY <2>1, <2>3
<1>. QED BY <1>2, <1>3

(* Who is given a block may take it to be free memory of the arena.        *)
LEMMA BlockGiven ==
  ASSUME NEW kept, kept \subseteq DOMAIN live, NEW mem, NEW n \in Requests, mem \notin kept,
         live' = Owners(live, kept, mem, n), HeapOK(heap'), Owned(heap', live')
  PROVE  /\ mem \in DOMAIN live' \cap (Start .. End + 1)
         /\ Blocks!Become(mem, n, kept)
<1> DEFINE l == live'
<1>1. DOMAIN l = kept \cup {mem} /\ l[mem] = n /\ \A b \in kept : l[b] = live[b]
  BY DEF Owners
<1>2. /\ \A b \in DOMAIN l : b \in Nat /\ l[b] \in Nat /\ l[b] > 0 /\ b >= Start /\ b + l[b] <= End + 1
      /\ \A b, d \in DOMAIN l : b # d => (b .. b + l[b] - 1) \cap (d .. d + l[d] - 1) = {}
  BY BlocksApart
<1>3. Start \in Nat /\ End \in Nat
  BY MallocAssumption
<1> HIDE DEF l
<1>4. mem \in DOMAIN l /\ mem \in Nat /\ mem >= Start /\ mem + n <= End + 1 /\ n \in Nat
  BY <1>1, <1>2, Requested
<1>5. mem \in DOMAIN l \cap (Start .. End + 1)
  BY <1>3, <1>4
<1>6. \A b \in kept : Blocks!Words(b) \cap (mem .. mem + n - 1) = {}
  BY <1>1, <1>2 DEF Blocks!Words
<1>7. Blocks!Fits(mem, n, kept)
  BY <1>4, <1>6 DEF Blocks!Fits
<1>8. live' = [b \in kept \cup {mem} |-> IF b = mem THEN n ELSE live[b]]
  BY DEF Owners
<1>. QED BY <1>5, <1>7, <1>8 DEF Blocks!Become, l

(* The blocks are used as the abstract memory promises: none overlaps      *)
(* another, and each stays as it is until its owner gives it back.         *)
THEOREM BlocksImplemented ==
  HeapSpec => ImplementsBlocks
<1>1. HeapInit => Blocks!BlocksInit
  BY DEF HeapInit, Blocks!BlocksInit
<1>2. ASSUME HeapInv, HeapInv', [HeapNext]_heapVars PROVE [Blocks!BlocksNext]_live
  <2>0. HeapOK(heap) /\ Owned(heap, live) /\ HeapOK(heap') /\ Owned(heap', live')
    BY <1>2 DEF HeapInv
  <2>1. ASSUME NEW n \in Requests, NEW r, Answered(heap, r, request2size(n)), Answer(r, n, DOMAIN live)
        PROVE  [Blocks!BlocksNext]_live
    <3>1. CASE r.mem = null
      BY <2>1, <3>1 DEF Answer
    <3>2. CASE r.mem # null
      <4>1. live' = Owners(live, DOMAIN live, r.mem, n)
        BY <2>1, <3>2 DEF Answer, Owning, Owners
      <4>2. Added(heap, r, request2size(n))
        BY <2>1, <3>2 DEF Answered, Got, Gains, Added, Adds
      <4>3. r.mem \notin DOMAIN live
        BY <2>0, <4>2, OwnedAdded
      <4>4. r.mem \in DOMAIN live' \cap (Start .. End + 1) /\ Blocks!Give(r.mem, n)
        BY <2>0, <4>1, <4>3, BlockGiven DEF Blocks!Give
      <4>. QED BY <4>4 DEF Blocks!BlocksNext
    <3>. QED BY <3>1, <3>2
  <2>2. CASE UNCHANGED heapVars
    BY <2>2 DEF heapVars
  <2>3. ASSUME NEW n \in Requests, malloc(n) \/ calloc(n) PROVE [Blocks!BlocksNext]_live
    <3> DEFINE r == mALLOc(heap, n)
    <3>1. Answered(heap, r, request2size(n))
      BY <2>0, Requested, Allocated
    <3>2. Answer(r, n, DOMAIN live)
      BY <2>3 DEF malloc, calloc
    <3> HIDE DEF r
    <3>. QED BY <2>1, <3>1, <3>2
  <2>4. ASSUME NEW n \in Requests, NEW a \in Alignments, memalign(a, n) PROVE [Blocks!BlocksNext]_live
    <3> DEFINE r == mEMALIGn(heap, a, n)
    <3>1. Added(heap, r, request2size(n)) \/ (r.mem = null /\ Kept(heap, r.heap))
      BY <2>0, Requested, Aligned, RequestsAssumption
    <3>2. live' = IF r.mem = null THEN live ELSE Owners(live, DOMAIN live, r.mem, n)
      BY <2>4 DEF memalign, Owning, Owners
    <3> HIDE DEF r
    <3>3. CASE r.mem = null
      BY <3>2, <3>3
    <3>4. CASE r.mem # null
      <4>1. live' = Owners(live, DOMAIN live, r.mem, n)
        BY <3>2, <3>4
      <4>2. r.mem \notin DOMAIN live
        BY <2>0, <3>1, <3>4, OwnedAdded
      <4>3. r.mem \in DOMAIN live' \cap (Start .. End + 1) /\ Blocks!Give(r.mem, n)
        BY <2>0, <4>1, <4>2, BlockGiven DEF Blocks!Give
      <4>. QED BY <4>3 DEF Blocks!BlocksNext
    <3>. QED BY <3>3, <3>4
  <2>5. ASSUME NEW b \in DOMAIN live, free(b) PROVE [Blocks!BlocksNext]_live
    <3>1. live' = [c \in DOMAIN live \ {b} |-> live[c]]
      BY <2>5 DEF free, Restrict
    <3>. QED BY <3>1 DEF Blocks!BlocksNext, Blocks!TakeBack
  <2>6. ASSUME NEW b \in DOMAIN live, NEW n \in Requests, realloc(b, n) PROVE [Blocks!BlocksNext]_live
    <3> DEFINE r == rEALLOc(heap, b, n)
               nb == request2size(n)
               p == mem2chunk(b)
    <3>1. Exchanged(heap, r, p, nb) \/ Denied(heap, r, nb)
      <4>1. p \in Used(heap) /\ b = chunk2mem(p) /\ n \in Nat
        BY <2>0, Requested DEF Owned, mem2chunk, chunk2mem
      <4>. QED BY <2>0, <4>1, Reallocated
    <3>2. Answer(r, n, DOMAIN live \ {b})
      BY <2>6 DEF realloc
    <3> HIDE DEF r, nb
    <3>3. CASE r.mem = null
      BY <3>2, <3>3 DEF Answer
    <3>4. CASE r.mem # null
      <4>1. live' = Owners(live, DOMAIN live \ {b}, r.mem, n)
        BY <3>2, <3>4 DEF Answer, Owning, Owners
      <4>2. r.mem \notin DOMAIN live \ {b}
        BY <2>0, <3>1, <3>4, OwnedExchanged DEF Denied, nb
      <4>3. r.mem \in DOMAIN live' \cap (Start .. End + 1) /\ Blocks!Resize(b, r.mem, n)
        BY <2>0, <4>1, <4>2, BlockGiven DEF Blocks!Resize
      <4>. QED BY <4>3 DEF Blocks!BlocksNext
    <3>. QED BY <3>3, <3>4
  <2>. QED BY <1>2, <2>2, <2>3, <2>4, <2>5, <2>6 DEF HeapNext
<1>3. HeapSpec => Blocks!BlocksSpec
  BY <1>1, <1>2, HeapInvariance, PTL DEF HeapSpec, Blocks!BlocksSpec
<1>. QED BY <1>3 DEF ImplementsBlocks
=============================================================================
