------------------------------ MODULE HugeBuf ------------------------------
(***************************************************************************)
(* HugeBuf.c: the ring that bulk transfers fill and the print task empties,*)
(* with the part of fifo.c, ezusb.c and platform.c it stands on.  A job is *)
(* a row of bands, each a header and its data.  Sizes are counted in       *)
(* headers (HEADSIZE, 1024 bytes), of which every size is a multiple.      *)
(***************************************************************************)
EXTENDS Integers, Sequences, SequencesExt, FiniteSetsExt

CONSTANTS
  Tasks,        \* those that call HugeBuf_StartOneReceive()
  RingSize,     \* count of the ring
  MaxChunk      \* 0x10000 - sizeof_header: the most one transfer brings

ASSUME HugeBufAssumption == RingSize \in Nat \ {0, 1} /\ MaxChunk \in Nat \ {0}

VARIABLES
  in, out, unused,      \* struct fifo
  ring,                 \* its memory
  first, remainning, cnt,       \* xinfo: the transfer that is next or under way
  sizeof_band, nextheader,
  g_USBTransStoped,
  busy, dmaAddr, dmaLen,        \* the bulk controller
  wait,                 \* count of the semaphore behind the completion __wait
  pc                    \* where a task is in HugeBuf_StartOneReceive()

fifo == <<in, out, unused>>
xinfo == <<first, remainning, cnt>>
bandInfo == <<sizeof_band, nextheader>>
bulk == <<busy, dmaAddr, dmaLen, wait>>
hugeVars == <<fifo, ring, xinfo, bandInfo, g_USBTransStoped, bulk, pc>>

Cells == 0 .. RingSize - 1
EmptyCell == [band |-> 0, pos |-> 0, size |-> 0]
IsHeader(u) == u.band > 0 /\ u.pos = 0          \* "XHYB"

InitReceiveSize == first' = TRUE /\ remainning' = 0 /\ cnt' = 1

HugBuf_Init ==
  /\ in = 0 /\ out = 0 /\ unused = RingSize
  /\ ring = [c \in Cells |-> EmptyCell]
  /\ first = TRUE /\ remainning = 0 /\ cnt = 1
  /\ sizeof_band = 0 /\ nextheader = 0
  /\ g_USBTransStoped = FALSE
  /\ busy = FALSE /\ dmaAddr = 0 /\ dmaLen = 0 /\ wait = 0
  /\ pc = [t \in Tasks |-> "out"]

-----------------------------------------------------------------------------
(* fifo.c.  Both calls take what there is and leave the bytes alone.       *)
fifo_cached == RingSize - unused

fifo_in(n) ==
  LET k == Min({n, unused})
  IN /\ in' = (in + k) % RingSize
     /\ unused' = unused - k
     /\ UNCHANGED out

fifo_out(n) ==
  LET k == Min({n, fifo_cached})
  IN /\ out' = (out + k) % RingSize
     /\ unused' = unused + k
     /\ UNCHANGED in

fifo_reset == in' = 0 /\ out' = 0 /\ unused' = RingSize

-----------------------------------------------------------------------------
(* HugeBuf_StartOneReceive(): wait for the controller, then look for room  *)
(* with interrupts disabled and start a transfer.  USBD_Read() waits for   *)
(* its end with a semaphore, and while the task sleeps all others run.     *)
StartCall(t) == pc[t] = "out" /\ pc' = [pc EXCEPT ![t] = "idle?"]

StartIdle(t) ==
  /\ pc[t] = "idle?" /\ ~busy
  /\ pc' = [pc EXCEPT ![t] = "lock"]
  /\ UNCHANGED <<fifo, ring, xinfo, bandInfo, g_USBTransStoped, bulk>>

(* Mutant: the completion is not set back.                                 *)
StartTransfer_StaleToken(t) ==
  /\ pc[t] = "lock" /\ unused >= cnt /\ ~busy
  /\ g_USBTransStoped' = FALSE
  /\ busy' = TRUE /\ dmaAddr' = in /\ dmaLen' = cnt
  /\ pc' = [pc EXCEPT ![t] = "wait"]
  /\ UNCHANGED <<fifo, ring, xinfo, bandInfo, wait>>

(* bulk_in() tries for ten milliseconds before it gives up: the controller *)
(* may become idle while the task is here.  It never is busy, since nobody *)
(* else starts a transfer after StartIdle (StartSteps of Memory_proofs).   *)
StartTransfer(t) ==
  /\ pc[t] = "lock" /\ unused >= cnt
  /\ g_USBTransStoped' = FALSE
  /\ IF busy
       THEN pc' = [pc EXCEPT ![t] = "out"] /\ UNCHANGED bulk     \* EBUSY
       ELSE /\ wait' = 0                                         \* INIT_COMPLETION
            /\ busy' = TRUE /\ dmaAddr' = in /\ dmaLen' = cnt
            /\ pc' = [pc EXCEPT ![t] = "wait"]
  /\ UNCHANGED <<fifo, ring, xinfo, bandInfo>>

(* Mutant: the reader is not told that the receiver stopped.               *)
StartNoRoom_Silent(t) ==
  /\ pc[t] = "lock" /\ unused < cnt
  /\ pc' = [pc EXCEPT ![t] = "out"]
  /\ UNCHANGED <<fifo, ring, xinfo, bandInfo, g_USBTransStoped, bulk>>

StartNoRoom(t) ==
  /\ pc[t] = "lock" /\ unused < cnt
  /\ g_USBTransStoped' = TRUE
  /\ pc' = [pc EXCEPT ![t] = "out"]
  /\ UNCHANGED <<fifo, ring, xinfo, bandInfo, bulk>>

(* The caller adds what the call-back of the transfer does.                *)
StartCompleted(t) ==
  /\ pc[t] = "wait" /\ wait > 0
  /\ wait' = wait - 1
  /\ pc' = [pc EXCEPT ![t] = "out"]
  /\ UNCHANGED <<fifo, ring, xinfo, bandInfo, g_USBTransStoped, busy, dmaAddr, dmaLen>>

(* After five seconds the pend ends, the controller's registers are        *)
(* cleared, and the call-back gets an error and does nothing.  The         *)
(* interrupt may still come between the two.                               *)
StartTimedOut(t) ==
  /\ pc[t] = "wait" /\ wait = 0
  /\ pc' = [pc EXCEPT ![t] = "late"]
  /\ UNCHANGED <<fifo, ring, xinfo, bandInfo, g_USBTransStoped, bulk>>

StartGivenUp(t) ==
  /\ pc[t] = "late"
  /\ busy' = FALSE
  /\ pc' = [pc EXCEPT ![t] = "out"]
  /\ UNCHANGED <<fifo, ring, xinfo, bandInfo, g_USBTransStoped, dmaAddr, dmaLen, wait>>

(* The controller has moved the units and raises its interrupt.            *)
ezusb_bulk_isr(units) ==
  /\ busy /\ Len(units) = dmaLen
  /\ ring' = [c \in Cells |-> IF c \in dmaAddr .. dmaAddr + dmaLen - 1
                                THEN units[c - dmaAddr + 1] ELSE ring[c]]
  /\ busy' = FALSE /\ wait' = wait + 1
  /\ UNCHANGED <<fifo, xinfo, bandInfo, g_USBTransStoped, dmaAddr, dmaLen, pc>>

-----------------------------------------------------------------------------
(* What is left of the band when a transfer of cnt has come: a first one   *)
(* is a header and says how much follows.                                  *)
Left == IF first THEN (IF IsHeader(ring[in]) THEN ring[in].size ELSE 0)
                 ELSE remainning - cnt

(* Mutant: a transfer may run over the end of the ring.                    *)
NextCnt_Wraps(left, pos) == IF left = 0 THEN 1 ELSE Min({left, MaxChunk})

NextCnt(left, pos) ==
  IF left = 0 THEN 1 ELSE Min({left, MaxChunk, RingSize - pos})

HugeBuf_CompleteOneReceive ==
  /\ remainning' = Left
  /\ first' = (Left = 0)
  /\ fifo_in(cnt)
  /\ cnt' = NextCnt(Left, in')
  /\ UNCHANGED <<ring, bandInfo, g_USBTransStoped, bulk>>

-----------------------------------------------------------------------------
(* The reader.                                                             *)
WrongHeader == fifo_cached >= 1 /\ ~IsHeader(ring[out])

HugeBuf_GetInfHead ==
  /\ fifo_cached >= 1 /\ ~WrongHeader
  /\ fifo_out(1)
  /\ sizeof_band' = ring[out].size
  /\ nextheader' = (out' + ring[out].size) % RingSize
  /\ UNCHANGED <<ring, xinfo, g_USBTransStoped, bulk, pc>>

(* The band is skipped by the difference of two addresses, negative when   *)
(* the band goes over the end of the ring; fifo_out() takes it for a huge  *)
(* count and skips all there is.                                           *)
FlushDistance == IF nextheader >= out THEN nextheader - out ELSE fifo_cached

HugeBuf_FlushCurBand ==
  /\ fifo_out(FlushDistance)
  /\ UNCHANGED <<ring, xinfo, bandInfo, g_USBTransStoped, bulk, pc>>

HugeBuf_Flush(size) ==
  /\ size <= fifo_cached
  /\ fifo_out(size)
  /\ UNCHANGED <<ring, xinfo, bandInfo, g_USBTransStoped, bulk, pc>>

HugeBuf_Reset == fifo_reset

(* Mutant: the ring keeps the bands of the cancelled job.                  *)
CancelReset_KeepsRing(t) ==
  /\ InitReceiveSize
  /\ StartCall(t)
  /\ UNCHANGED <<fifo, ring, bandInfo, g_USBTransStoped, bulk>>

(* The section of HugeBuf_CancelJob() that runs with interrupts disabled,  *)
(* until HugeBuf_StartOneReceive() sleeps.                                 *)
CancelReset(t) ==
  /\ HugeBuf_Reset /\ InitReceiveSize
  /\ StartCall(t)
  /\ UNCHANGED <<ring, bandInfo, g_USBTransStoped, bulk>>
=============================================================================
