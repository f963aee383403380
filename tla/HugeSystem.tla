----------------------------- MODULE HugeSystem -----------------------------
(***************************************************************************)
(* The ring of HugeBuf.c between its two tasks, the USB controller and the *)
(* host.  The tasks are not part of the repository: the receiver completes *)
(* a transfer and starts the next one, the print task reads band by band   *)
(* and tells the receiver to start again when it finds it stopped.  The    *)
(* receiver has the higher priority, so HugeBuf_CompleteOneReceive(),      *)
(* which takes no lock, is one step.                                       *)
(***************************************************************************)
EXTENDS HugeBuf

CONSTANTS
  BandSizes,    \* data_bytescnt of the bands
  MaxBands,     \* BOUND on the bands the host sends
  MaxCancels,   \* BOUND on the jobs that are cancelled
  SkipByAddress \* may HugeBuf_FlushCurBand() skip a band that wraps

ASSUME SystemAssumption ==
  /\ Tasks = {"receiver", "printer"}
  /\ BandSizes \subseteq 0 .. RingSize - 1

VARIABLES
  feed,         \* units the host has for the bulk endpoint
  gaveUp,       \* a transfer timed out since the last cancel
  lost,         \* one came to its end after that and is not counted
  again,        \* the receiver is told to start
  done,         \* USBDMA_EP2_DoneInterrupt() was called
  at,           \* where the print task is
  aborted,      \* USBD_AbortDataRead() was called, CancelJob() not yet over
  offered, taken, dropped, cancels

printing == <<at, taken>>
hostVars == <<feed, offered>>
transferVars == <<gaveUp, lost>>
vars == <<hugeVars, feed, done, again, transferVars, at, aborted, offered, taken, dropped, cancels>>

Init ==
  /\ HugBuf_Init
  /\ feed = <<>> /\ done = FALSE /\ aborted = FALSE
  /\ again = TRUE /\ gaveUp = FALSE /\ lost = FALSE
  /\ at = "header" /\ offered = 0 /\ taken = 0 /\ dropped = 0 /\ cancels = 0

-----------------------------------------------------------------------------
Band(n, size) == [i \in 1 .. size + 1 |-> [band |-> n, pos |-> i - 1, size |-> size]]

HostSends ==
  /\ offered < MaxBands /\ Len(feed) <= MaxChunk
  /\ offered' = offered + 1
  /\ \E size \in BandSizes : feed' = feed \o Band(offered + 1, size)
  /\ UNCHANGED <<hugeVars, done, again, transferVars, printing, aborted, dropped, cancels>>

(* Nothing comes from the endpoint after USBD_AbortDataRead(), until       *)
(* HugeBuf_CancelJob() has started its own transfer.                       *)
Controller ==
  /\ ~aborted /\ Len(feed) >= dmaLen
  /\ ezusb_bulk_isr(SubSeq(feed, 1, dmaLen))
  /\ feed' = SubSeq(feed, dmaLen + 1, Len(feed))
  /\ lost' = (lost \/ \A t \in Tasks : pc[t] # "wait")
  /\ UNCHANGED <<done, again, gaveUp, printing, aborted, offered, dropped, cancels>>

(* HugeBuf_StartOneReceive() in either task.  The host may be silent for   *)
(* five seconds at any time.                                               *)
Starting(t) ==
  \/ /\ StartIdle(t) \/ StartNoRoom(t) \/ StartGivenUp(t)
     /\ UNCHANGED <<done, aborted, transferVars>>
  \/ /\ StartTransfer(t) /\ aborted' = (aborted /\ (busy \/ t = "receiver"))
     /\ UNCHANGED <<done, transferVars>>
  \/ StartCompleted(t) /\ done' = TRUE /\ UNCHANGED <<aborted, transferVars>>
  \/ StartTimedOut(t) /\ gaveUp' = TRUE /\ UNCHANGED <<done, aborted, lost>>

TaskStarting(t) == Starting(t) /\ UNCHANGED <<hostVars, printing, again, dropped, cancels>>

ReceiverCompletes ==
  /\ done /\ done' = FALSE
  /\ HugeBuf_CompleteOneReceive
  /\ StartCall("receiver")
  /\ UNCHANGED <<hostVars, printing, again, transferVars, aborted, dropped, cancels>>

ReceiverStarts ==
  /\ again /\ ~done /\ again' = FALSE
  /\ StartCall("receiver")
  /\ UNCHANGED <<fifo, ring, xinfo, bandInfo, g_USBTransStoped, bulk,
                 hostVars, printing, done, transferVars, aborted, dropped, cancels>>

Receiver == ReceiverCompletes \/ ReceiverStarts

-----------------------------------------------------------------------------
(* The print task.                                                         *)
Printer == pc["printer"] = "out"

GetHeader ==
  /\ Printer /\ at = "header"
  /\ HugeBuf_GetInfHead
  /\ at' = "data" /\ taken' = ring[out].band
  /\ UNCHANGED <<hostVars, done, again, transferVars, aborted, dropped, cancels>>

(* It has printed the band once all of it was there.                       *)
Skip ==
  /\ Printer /\ at = "data" /\ fifo_cached >= sizeof_band
  /\ \/ HugeBuf_Flush(sizeof_band)
     \/ (nextheader >= out \/ SkipByAddress) /\ HugeBuf_FlushCurBand
  /\ at' = "restart"
  /\ UNCHANGED <<hostVars, done, again, transferVars, aborted, taken, dropped, cancels>>

Restart ==
  /\ Printer /\ at = "restart"
  /\ again' = (again \/ g_USBTransStoped)
  /\ at' = "header"
  /\ UNCHANGED <<hugeVars, hostVars, done, transferVars, aborted, taken, dropped, cancels>>

(* HugeBuf_CancelJob(): the host's endpoint is told, ...                   *)
CancelAbort ==
  /\ Printer /\ at \in {"header", "data"} /\ cancels < MaxCancels
  /\ cancels' = cancels + 1
  /\ at' = "cancel" /\ aborted' = TRUE
  /\ feed' = <<>> /\ dropped' = offered
  /\ UNCHANGED <<hugeVars, done, again, transferVars, taken, offered>>

(* ... and a tick later, which the receiver needs to come to rest, the     *)
(* ring is cleared and the next transfer is started.                       *)
ReceiverAtRest ==
  /\ ~done /\ ~again
  /\ pc["receiver"] = "out" \/ (pc["receiver"] = "wait" /\ wait = 0)

CancelRestart ==
  /\ Printer /\ at = "cancel" /\ ReceiverAtRest
  /\ CancelReset("printer")
  /\ at' = "header" /\ gaveUp' = FALSE /\ lost' = FALSE
  /\ UNCHANGED <<hostVars, done, again, aborted, taken, dropped, cancels>>

PrintTask == GetHeader \/ Skip \/ Restart \/ CancelRestart

Next ==
  \/ HostSends \/ Controller \/ Receiver \/ PrintTask \/ CancelAbort
  \/ \E t \in Tasks : TaskStarting(t)

(* The host sends what it has begun, both tasks run when they can.         *)
Fairness ==
  /\ WF_vars(Controller) /\ WF_vars(Receiver) /\ WF_vars(PrintTask)
  /\ \A t \in Tasks : WF_vars(TaskStarting(t))

Spec == Init /\ [][Next]_vars /\ Fairness
-----------------------------------------------------------------------------
(* A transfer that is under way, or over and not yet counted, fills free   *)
(* cells only and does not run over the end of the ring, whatever was read *)
(* or cancelled since it was started; what is in the ring is counted.      *)
TransferTarget ==
  /\ in = (out + fifo_cached) % RingSize /\ unused \in 0 .. RingSize
  /\ busy /\ ~aborted =>
       dmaAddr = in /\ dmaLen = cnt /\ dmaLen <= unused /\ dmaAddr + dmaLen <= RingSize

(* HugeBuf_GetInfHead() never meets a wrong header, for which it stops for *)
(* ever: bands and transfers stay aligned across the end of the ring and   *)
(* across a cancelled job, unless a transfer ended after it was given up.  *)
HeadersFound == at = "header" /\ ~lost => ~WrongHeader

(* The band that the print task is told to be complete is in the ring.     *)
BandComplete ==
  at = "data" /\ fifo_cached >= sizeof_band /\ ~lost =>
    \A i \in 1 .. sizeof_band :
      ring[(out + i - 1) % RingSize] = [band |-> taken, pos |-> i, size |-> sizeof_band]

(* What the print task reads is what it takes it for.                      *)
BandsInPlace == HeadersFound /\ BandComplete

Bands == INSTANCE HugeBufAbs

(* The bands are read in the order they were sent.                         *)
ImplementsBands == Bands!BandsSpec

(* Every band that the host has sent is read, if its job is not cancelled  *)
(* and no transfer times out: the receiver, stopped for want of room, is   *)
(* started again.                                                          *)
EveryBandRead ==
  \A n \in 1 .. MaxBands : offered >= n ~> (taken >= n \/ dropped >= n \/ gaveUp)
=============================================================================
