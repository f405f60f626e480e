------------------------------ MODULE DRAMCtrl ------------------------------
(***************************************************************************)
(* The DRAM controller of gem5 with MIMDRAM's row operations               *)
(* (gem5/src/mem/dram_ctrl.cc): the read, write and response queues, the   *)
(* bus turnaround, the row-operation counter, the request and response     *)
(* events, back-pressure towards the port, draining, and the refresh state *)
(* machine of every rank as far as the queues can see it.                  *)
(*                                                                         *)
(* Ticks are abstracted: an event is scheduled or not, and any scheduled   *)
(* event may be the next one to fire.  FR-FCFS picks a packet by bank      *)
(* timing, so here it may pick any packet that goes to an available rank;  *)
(* FCFS picks the first such packet.                                       *)
(***************************************************************************)
EXTENDS Naturals, Sequences, FiniteSets, Queues

CONSTANTS
  ranksPerChannel,    \* number of ranks behind this controller
  Bursts,             \* burst-aligned addresses
  RankOf,             \* decodeAddr, as far as the rank: [Bursts -> Ranks]
  Units,              \* the sub-burst ranges that (addr, size) can tell apart
  Spans,              \* the burst pieces a read or write may be split into
  RowOpDests,         \* burst addresses at which a destination row starts
  Reqs,               \* identities of the reads that may be in flight
  readBufferSize, writeBufferSize,
  writeHighThreshold, writeLowThreshold, minWritesPerSwitch,
  memSchedPolicy      \* "fcfs" or "frfcfs"

Ranks == 0..(ranksPerChannel - 1)

\* One DRAM burst of a packet: its burst address and the part of it asked for.
Piece == [burst : Bursts, bytes : SUBSET Units]

\* A packet covers one burst or two consecutive ones: a 64-byte line over the
\* 32- or 64-byte bursts of the configured devices.
ASSUME SpanAssumption ==
  /\ Spans \subseteq Seq(Piece)
  /\ \A s \in Spans : Len(s) \in 1..2 /\ (Len(s) = 2 => s[1].burst # s[2].burst)

ASSUME AddressAssumption ==
  /\ ranksPerChannel \in Nat \ {0}
  /\ RankOf \in [Bursts -> Ranks]
  /\ RowOpDests \subseteq Bursts

\* The constructor refuses a low threshold that is not below the high one.
ASSUME BufferAssumption ==
  /\ readBufferSize \in Nat /\ writeBufferSize \in Nat
  /\ writeHighThreshold \in Nat /\ writeLowThreshold \in Nat
  /\ writeLowThreshold < writeHighThreshold
  /\ writeHighThreshold <= writeBufferSize
  /\ minWritesPerSwitch \in Nat
  /\ memSchedPolicy \in {"fcfs", "frfcfs"}

VARIABLES
  readQueue,       \* bursts of reads waiting for DRAM
  writeQueue,      \* bursts of writes, and row operations, waiting for DRAM
  respQueue,       \* bursts of reads that DRAM has served, in readyTime order
  isInWriteQueue,  \* burst addresses of queued writes
  pendingRowOps,   \* the counter of queued row operations
  busState, writesThisTime,
  nextReqEvent,    \* nextReqEvent.scheduled()
  respondEvent,    \* respondEvent.scheduled()
  retryRdReq, retryWrReq,
  drainState,
  activeRank,      \* the rank of the last access
  refreshState,    \* per rank
  helper,          \* BurstHelper of each read; burstCount 0 stands for NULL
  outstanding,     \* reads accepted and not answered yet
  held             \* the packet the port refused, kept by the peer

queues   == <<readQueue, writeQueue, respQueue, isInWriteQueue, pendingRowOps>>
bus      == <<busState, writesThisTime, activeRank>>
requests == <<helper, outstanding>>
retries  == <<retryRdReq, retryWrReq>>
vars == <<readQueue, writeQueue, respQueue, isInWriteQueue, pendingRowOps,
          busState, writesThisTime, nextReqEvent, respondEvent, retryRdReq,
          retryWrReq, drainState, activeRank, refreshState, helper,
          outstanding, held>>

----------------------------------------------------------------------------
(* Packets and queue entries *)

NoPkt     == [cmd |-> "none"]
ReadPkt   == [cmd : {"read"}, req : Reqs, pieces : Spans]
WritePkt  == [cmd : {"write"}, pieces : Spans]
RowOpPkt  == [cmd : {"rowop"}, dest : RowOpDests]
Packet    == ReadPkt \cup WritePkt \cup RowOpPkt

ReadEntry  == [req : Reqs, burst : Bursts]
WriteEntry == [rowop : BOOLEAN, burst : Bursts, bytes : SUBSET Units]

NoHelper == [burstCount |-> 0, burstsServiced |-> 0]

\* divCeil(offset + size, burstSize); the packet of a row operation has address
\* 0 and the size of its payload, which is at most one burst.
dram_pkt_count(pkt) == IF pkt.cmd = "rowop" THEN 1 ELSE Len(pkt.pieces)

isAvailable(r) == refreshState[r] = "REF_IDLE"

FullIgnoringResponses(n) == Len(readQueue) + n > readBufferSize  \* mutant
readQueueFull(n)  == Len(readQueue) + Len(respQueue) + n > readBufferSize

FullOneEarly(n) == Len(writeQueue) + n >= writeBufferSize  \* mutant
writeQueueFull(n) == Len(writeQueue) + n > writeBufferSize

\* A one-element sequence, or nothing.
When(c, e) == IF c THEN <<e>> ELSE <<>>

\* The entries of the bursts kept, in address order: e[1] and e[2] or one of them.
Kept(keep, e) == When(1 \in keep, e[1]) \o When(2 \in keep, e[2])

----------------------------------------------------------------------------
(* Requests arriving at the port *)

\* The read is subsumed by a queued write; a row operation has size 0 and
\* never subsumes anything.
foundInWrQ(p) ==
  /\ p.burst \in isInWriteQueue
  /\ \E i \in DOMAIN writeQueue :
       /\ ~writeQueue[i].rowop
       /\ writeQueue[i].burst = p.burst
       /\ p.bytes \subseteq writeQueue[i].bytes

ReadBursts(pkt) ==
  [i \in DOMAIN pkt.pieces |-> [req |-> pkt.req, burst |-> pkt.pieces[i].burst]]

\* A split read waits for its bursts; those found in the write queue are served.
ForgetsServedByWrQ(pktCount, missed) ==  \* mutant
  [burstCount |-> pktCount, burstsServiced |-> 0]
BurstHelper(pktCount, missed) ==
  [burstCount |-> pktCount, burstsServiced |-> pktCount - Len(missed)]

addToReadQueue(pkt) ==
  LET pktCount == Len(pkt.pieces)
      missed   == Kept({i \in 1..pktCount : ~foundInWrQ(pkt.pieces[i])},
                       ReadBursts(pkt))
  IN  /\ readQueue' = readQueue \o missed
      /\ IF missed = <<>>
           THEN UNCHANGED <<helper, outstanding, nextReqEvent>>
           ELSE /\ helper' =
                     [helper EXCEPT ![pkt.req] =
                        IF pktCount > 1
                          THEN BurstHelper(pktCount, missed) ELSE NoHelper]
                /\ outstanding' = outstanding \cup {pkt.req}
                /\ nextReqEvent' = TRUE
      /\ UNCHANGED <<writeQueue, respQueue, isInWriteQueue, pendingRowOps>>

WriteBursts(pkt) ==
  [i \in DOMAIN pkt.pieces |-> [rowop |-> FALSE, burst |-> pkt.pieces[i].burst,
                                bytes |-> pkt.pieces[i].bytes]]

\* A write to a burst that is queued already is merged with it and disappears.
merged(p) == p.burst \in isInWriteQueue

addToWriteQueue(pkt) ==
  /\ IF pkt.cmd = "rowop"
       THEN /\ writeQueue' = Append(writeQueue,
                 [rowop |-> TRUE, burst |-> pkt.dest, bytes |-> {}])
            /\ pendingRowOps' = pendingRowOps + 1
            /\ UNCHANGED isInWriteQueue
       ELSE /\ writeQueue' = writeQueue \o
                 Kept({i \in DOMAIN pkt.pieces : ~merged(pkt.pieces[i])},
                      WriteBursts(pkt))
            /\ isInWriteQueue' = isInWriteQueue \cup
                 {pkt.pieces[i].burst : i \in DOMAIN pkt.pieces}
            /\ UNCHANGED pendingRowOps
  /\ nextReqEvent' = TRUE
  /\ UNCHANGED <<readQueue, respQueue, helper, outstanding>>

recvTimingReq(pkt) ==
  /\ \/ /\ pkt.cmd = "read"
        /\ readQueueFull(dram_pkt_count(pkt))
        /\ retryRdReq' = TRUE /\ held' = pkt
        /\ UNCHANGED <<queues, requests, nextReqEvent, retryWrReq>>
     \/ /\ pkt.cmd = "read"
        /\ ~readQueueFull(dram_pkt_count(pkt))
        /\ addToReadQueue(pkt) /\ held' = NoPkt
        /\ UNCHANGED retries
     \/ /\ pkt.cmd # "read"
        /\ writeQueueFull(dram_pkt_count(pkt))
        /\ retryWrReq' = TRUE /\ held' = pkt
        /\ UNCHANGED <<queues, requests, nextReqEvent, retryRdReq>>
     \/ /\ pkt.cmd # "read"
        /\ ~writeQueueFull(dram_pkt_count(pkt))
        /\ addToWriteQueue(pkt) /\ held' = NoPkt
        /\ UNCHANGED retries
  /\ UNCHANGED <<bus, respondEvent, drainState, refreshState>>

\* The peer sends a new packet; it holds no refused one and the requester of a
\* read is not waiting for an earlier one of the same identity.
Send(pkt) ==
  /\ held = NoPkt
  /\ pkt.cmd = "read" => pkt.req \notin outstanding
  /\ recvTimingReq(pkt)

\* After sendRetryReq the peer sends the refused packet again.
Resend ==
  /\ held # NoPkt
  /\ ~retryRdReq /\ ~retryWrReq
  /\ recvTimingReq(held)

----------------------------------------------------------------------------
(* Answers *)

\* The head leaves and the event is scheduled again for the next one.
PopsWithoutRescheduling == respQueue' = Tail(respQueue) /\ respondEvent' = FALSE  \* mutant
popResponse == respQueue' = Tail(respQueue) /\ respondEvent' = (respQueue' # <<>>)

processRespondEvent ==
  LET r    == Head(respQueue).req
      last == helper[r].burstsServiced + 1 = helper[r].burstCount
  IN  /\ respondEvent
      /\ IF helper[r].burstCount # 0
           THEN IF last
                  THEN /\ helper' = [helper EXCEPT ![r] = NoHelper]
                       /\ outstanding' = outstanding \ {r}
                  ELSE /\ helper' = [helper EXCEPT ![r].burstsServiced = @ + 1]
                       /\ UNCHANGED outstanding
           ELSE /\ outstanding' = outstanding \ {r}
                /\ UNCHANGED helper
      /\ popResponse
      /\ drainState' = IF /\ respQueue' = <<>> /\ drainState = "Draining"
                          /\ writeQueue = <<>> /\ readQueue = <<>>
                         THEN "Drained" ELSE drainState
      /\ retryRdReq' = FALSE
      /\ UNCHANGED <<readQueue, writeQueue, isInWriteQueue, pendingRowOps, bus,
                     nextReqEvent, retryWrReq, refreshState, held>>

----------------------------------------------------------------------------
(* Scheduling the next request: processNextReqEvent *)

\* chooseNext: the positions of queue that may be served next.  For FR-FCFS this
\* is an upper bound: reorderQueue (FRFCFS) takes the older of two packets to one
\* row of a bank.  An invariant that holds of any choice holds of its choice; the
\* runs that show a violation use FCFS.
chooseNext(queue) ==
  LET free == {i \in DOMAIN queue : isAvailable(RankOf[queue[i].burst])}
  IN  IF memSchedPolicy = "fcfs"
        THEN {i \in free : \A j \in free : i <= j}
        ELSE free

\* The direction of this turn, once a pending turnaround has been taken.
Turn == IF busState \in {"READ", "WRITE_TO_READ"} THEN "READ" ELSE "WRITE"

\* writesThisTime is cleared when the bus turns back to reads.
WritesSoFar == IF busState = "WRITE_TO_READ" THEN 0 ELSE writesThisTime

\* With no read to serve, writes start above the low threshold, when draining,
\* or when a row operation is queued.
WritesDue ==
  /\ writeQueue # <<>>
  /\ \/ drainState = "Draining"
     \/ Len(writeQueue) > writeLowThreshold
     \/ pendingRowOps > 0

\* After a read, writes start above the high threshold or for a row operation.
ForcedByThresholdOnly == Len(writeQueue) > writeHighThreshold  \* mutant
WritesForced == Len(writeQueue) > writeHighThreshold \/ pendingRowOps > 0

\* After a write that leaves queue q, n row operations and w writes done.
StaysWhenEmptied(q, n, w) ==  \* mutant
  n = 0 /\ readQueue # <<>> /\ w >= minWritesPerSwitch
IgnoresWaitingReads(q, n, w) == n = 0 /\ q = <<>>  \* mutant
BackToReads(q, n, w) ==
  /\ n = 0
  /\ \/ q = <<>>
     \/ /\ Len(q) + minWritesPerSwitch < writeLowThreshold
        /\ drainState # "Draining"
     \/ readQueue # <<>> /\ w >= minWritesPerSwitch

\* A rank that waited for the request in progress may now precharge.
NeverWakesRank == UNCHANGED refreshState  \* mutant
checkDrainDone ==
  refreshState' = [r \in Ranks |-> IF refreshState[r] = "REF_DRAIN"
                                     THEN "REF_PRE" ELSE refreshState[r]]

\* The end of the handler: schedule the next request and let a refused write
\* try again if q, the write queue left behind, has room.
ForgetsRetry(q) == nextReqEvent' = TRUE /\ UNCHANGED retryWrReq  \* mutant
Reschedule(q) ==
  /\ nextReqEvent' = TRUE
  /\ retryWrReq' = (retryWrReq /\ ~(Len(q) < writeBufferSize))

\* The handler returns early without scheduling another request.
Pause ==
  /\ nextReqEvent' = FALSE
  /\ UNCHANGED <<queues, respondEvent, requests, retryWrReq, activeRank>>

AllRanksBusy ==
  /\ \A r \in Ranks : ~isAvailable(r)
  /\ Pause
  /\ UNCHANGED <<busState, writesThisTime, drainState>>

DrainedWithAnswersPending ==  \* mutant
  /\ Turn = "READ" /\ readQueue = <<>> /\ ~WritesDue
  /\ drainState' = IF drainState = "Draining" THEN "Drained" ELSE drainState
  /\ busState' = "READ" /\ writesThisTime' = WritesSoFar
  /\ Pause
NeverSignalsDrained ==  \* mutant
  /\ Turn = "READ" /\ readQueue = <<>> /\ ~WritesDue
  /\ busState' = "READ" /\ writesThisTime' = WritesSoFar
  /\ Pause /\ UNCHANGED drainState
NothingToDo ==
  /\ Turn = "READ" /\ readQueue = <<>> /\ ~WritesDue
  /\ drainState' = IF drainState = "Draining" /\ respQueue = <<>>
                     THEN "Drained" ELSE drainState
  /\ busState' = "READ" /\ writesThisTime' = WritesSoFar
  /\ Pause

StartWrites ==
  /\ Turn = "READ" /\ readQueue = <<>> /\ WritesDue
  /\ busState' = "READ_TO_WRITE" /\ writesThisTime' = WritesSoFar
  /\ Reschedule(writeQueue)
  /\ UNCHANGED <<queues, requests, respondEvent, drainState, activeRank>>

NoReadToFreeRank ==
  /\ Turn = "READ" /\ readQueue # <<>> /\ chooseNext(readQueue) = {}
  /\ busState' = "READ" /\ writesThisTime' = WritesSoFar
  /\ Pause
  /\ UNCHANGED drainState

ServeRead(i) ==
  /\ Turn = "READ" /\ i \in chooseNext(readQueue)
  /\ readQueue' = erase(readQueue, i)
  /\ respQueue' = Append(respQueue, readQueue[i])
  /\ respondEvent' = TRUE
  /\ activeRank' = RankOf[readQueue[i].burst]
  /\ busState' = IF WritesForced THEN "READ_TO_WRITE" ELSE "READ"
  /\ writesThisTime' = WritesSoFar
  /\ Reschedule(writeQueue)
  /\ UNCHANGED <<writeQueue, isInWriteQueue, pendingRowOps, requests, drainState>>

NoWriteToFreeRank ==
  /\ Turn = "WRITE" /\ chooseNext(writeQueue) = {}
  /\ busState' = "WRITE"
  /\ Pause
  /\ UNCHANGED <<writesThisTime, drainState>>

\* doDRAMAccess of a queued write or row operation.  A row operation returns
\* before writesThisTime is incremented; that counter is only compared with
\* minWritesPerSwitch, so it is capped there.
CountWrite == writesThisTime' = IF writesThisTime < minWritesPerSwitch
                                  THEN writesThisTime + 1 ELSE writesThisTime
CountsEveryAccess(e) == pendingRowOps' = pendingRowOps - 1 /\ CountWrite  \* mutant
ForgetsRowOpDone(e) ==  \* mutant
  /\ UNCHANGED pendingRowOps
  /\ IF e.rowop THEN UNCHANGED writesThisTime ELSE CountWrite
doDRAMAccess(e) ==
  IF e.rowop
    THEN pendingRowOps' = pendingRowOps - 1 /\ UNCHANGED writesThisTime
    ELSE CountWrite /\ UNCHANGED pendingRowOps

\* The served entry leaves the queue, and its burst address the set.
PopsWithoutErasing(i) ==  \* mutant
  writeQueue' = erase(writeQueue, i) /\ UNCHANGED isInWriteQueue
popWrite(i) ==
  /\ writeQueue' = erase(writeQueue, i)
  /\ isInWriteQueue' = isInWriteQueue \ {writeQueue[i].burst}

ServeWrite(i) ==
  /\ Turn = "WRITE" /\ i \in chooseNext(writeQueue)
  /\ doDRAMAccess(writeQueue[i])
  /\ popWrite(i)
  /\ activeRank' = RankOf[writeQueue[i].burst]
  /\ busState' = IF BackToReads(writeQueue', pendingRowOps', writesThisTime')
                   THEN "WRITE_TO_READ" ELSE "WRITE"
  /\ Reschedule(writeQueue')
  /\ UNCHANGED <<readQueue, respQueue, respondEvent, requests, drainState>>

processNextReqEvent ==
  /\ nextReqEvent
  /\ checkDrainDone
  /\ UNCHANGED <<retryRdReq, held>>
  /\ \/ AllRanksBusy
     \/ /\ \E r \in Ranks : isAvailable(r)
        /\ \/ NothingToDo
           \/ StartWrites
           \/ NoReadToFreeRank
           \/ \E i \in DOMAIN readQueue : ServeRead(i)
           \/ NoWriteToFreeRank
           \/ \E i \in DOMAIN writeQueue : ServeWrite(i)

----------------------------------------------------------------------------
(* Refresh of a rank, draining *)

\* The refresh falls due: wait for a request to this rank that is being handled,
\* else precharge at once and run.
WaitsForIdleController(r) ==  \* mutant
  /\ refreshState[r] = "REF_IDLE"
  /\ refreshState' = [refreshState EXCEPT ![r] =
       IF r = activeRank THEN "REF_DRAIN" ELSE "REF_RUN"]
  /\ UNCHANGED <<queues, bus, nextReqEvent, respondEvent, retries, drainState,
                 requests, held>>
refreshDue(r) ==
  /\ refreshState[r] = "REF_IDLE"
  /\ refreshState' = [refreshState EXCEPT ![r] =
       IF r = activeRank /\ nextReqEvent THEN "REF_DRAIN" ELSE "REF_RUN"]
  /\ UNCHANGED <<queues, bus, nextReqEvent, respondEvent, retries, drainState,
                 requests, held>>

\* The refresh event that checkDrainDone scheduled.
refreshPrecharge(r) ==
  /\ refreshState[r] = "REF_PRE"
  /\ refreshState' = [refreshState EXCEPT ![r] = "REF_RUN"]
  /\ UNCHANGED <<queues, bus, nextReqEvent, respondEvent, retries, drainState,
                 requests, held>>

\* The refresh is over: processPowerEvent leaves PWR_REF.
refreshDone(r) ==
  /\ refreshState[r] = "REF_RUN"
  /\ refreshState' = [refreshState EXCEPT ![r] = "REF_IDLE"]
  /\ nextReqEvent' = TRUE
  /\ UNCHANGED <<queues, bus, respondEvent, retries, drainState, requests, held>>

\* The drain manager asks a running object, or in a later round a drained one.
DrainWithoutKick ==  \* mutant
  /\ drainState # "Draining"
  /\ drainState' = IF writeQueue = <<>> /\ readQueue = <<>> /\ respQueue = <<>>
                     THEN "Drained" ELSE "Draining"
  /\ UNCHANGED <<queues, bus, nextReqEvent, respondEvent, retries, refreshState,
                 requests, held>>
drain ==
  /\ drainState # "Draining"
  /\ IF writeQueue = <<>> /\ readQueue = <<>> /\ respQueue = <<>>
       THEN drainState' = "Drained" /\ UNCHANGED nextReqEvent
       ELSE /\ drainState' = "Draining"
            /\ nextReqEvent' = (nextReqEvent \/ writeQueue # <<>>)
  /\ UNCHANGED <<queues, bus, respondEvent, retries, refreshState, requests, held>>

drainResume ==
  /\ drainState = "Drained"
  /\ drainState' = "Running"
  /\ UNCHANGED <<queues, bus, nextReqEvent, respondEvent, retries, refreshState,
                 requests, held>>

----------------------------------------------------------------------------
Init ==
  /\ readQueue = <<>> /\ writeQueue = <<>> /\ respQueue = <<>>
  /\ isInWriteQueue = {} /\ pendingRowOps = 0
  /\ busState = "READ" /\ writesThisTime = 0
  /\ nextReqEvent = FALSE /\ respondEvent = FALSE
  /\ retryRdReq = FALSE /\ retryWrReq = FALSE
  /\ drainState = "Running"
  /\ activeRank = 0
  /\ refreshState = [r \in Ranks |-> "REF_IDLE"]
  /\ helper = [r \in Reqs |-> NoHelper]
  /\ outstanding = {}
  /\ held = NoPkt

Next ==
  \/ \E pkt \in Packet : Send(pkt)
  \/ Resend
  \/ processRespondEvent
  \/ processNextReqEvent
  \/ \E r \in Ranks : refreshDue(r) \/ refreshPrecharge(r) \/ refreshDone(r)
  \/ drain
  \/ drainResume

Spec == Init /\ [][Next]_vars

\* Scheduled events fire, a refresh ends, and the peer answers a retry.  All
\* ranks refresh together, once every tREFI (Rank::startup), and a refresh takes
\* a fraction of it (the constructor checks tREFI > tRP, tRFC): if every rank
\* comes back from its refreshes, then there are always later moments at which
\* no rank refreshes, and request events that find them.
NoRankRefreshing == \A r \in Ranks : isAvailable(r)
RefreshTogether ==
  (\A r \in Ranks : []<>isAvailable(r)) => []<>NoRankRefreshing
Fairness ==
  /\ WF_vars(processRespondEvent)
  /\ WF_vars(processNextReqEvent)
  /\ RefreshTogether /\ SF_vars(processNextReqEvent /\ NoRankRefreshing)
  /\ \A r \in Ranks : WF_vars(refreshPrecharge(r)) /\ WF_vars(refreshDone(r))
  /\ WF_vars(Resend)

FairSpec == Spec /\ Fairness

----------------------------------------------------------------------------
(* Properties *)

\* Every variable holds a value of its kind.
TypeOK ==
  /\ readQueue \in Seq(ReadEntry) /\ respQueue \in Seq(ReadEntry)
  /\ writeQueue \in Seq(WriteEntry)
  /\ isInWriteQueue \subseteq Bursts
  /\ pendingRowOps \in Nat
  /\ busState \in {"READ", "READ_TO_WRITE", "WRITE", "WRITE_TO_READ"}
  /\ writesThisTime \in 0..minWritesPerSwitch
  /\ nextReqEvent \in BOOLEAN /\ respondEvent \in BOOLEAN
  /\ retryRdReq \in BOOLEAN /\ retryWrReq \in BOOLEAN
  /\ drainState \in {"Running", "Draining", "Drained"}
  /\ activeRank \in Ranks
  /\ refreshState \in
       [Ranks -> {"REF_IDLE", "REF_DRAIN", "REF_PRE", "REF_RUN"}]
  /\ helper \in [Reqs -> [burstCount : 0..2, burstsServiced : 0..2]]
  /\ outstanding \subseteq Reqs
  /\ held \in Packet \cup {NoPkt}

RowOpsIn(q) == {i \in DOMAIN q : q[i].rowop}

\* The counter that forces and prolongs write turns (dram_ctrl.cc:547, 1214)
\* is the number of row operations in the write queue at every moment.
RowOpsCounted == pendingRowOps = Cardinality(RowOpsIn(writeQueue))

\* Whenever the bus is turning or turned to writes there is something to write,
\* so chooseNext's assert(!queue.empty()) (dram_ctrl.cc:754) never fails.
WriteTurnHasWork ==
  busState \in {"READ_TO_WRITE", "WRITE"} => writeQueue # <<>>

\* No wake-up is lost: with nextReqEvent unscheduled, either a rank is being
\* refreshed, whose end schedules it (dram_ctrl.cc:1961), or there is no read,
\* no row operation, and no write the controller would start on by itself.
NoLostWakeup ==
  \/ nextReqEvent
  \/ \E r \in Ranks : ~isAvailable(r)
  \/ /\ readQueue = <<>> /\ busState = "READ" /\ ~WritesDue

\* A rank that waits for the request in progress (dram_ctrl.cc:1782) is woken by
\* it: the request event is still scheduled, so the refresh cannot be stuck.
RefreshWaitIsWoken ==
  \A r \in Ranks : refreshState[r] = "REF_DRAIN" => nextReqEvent

\* A burst address marked as queued has a queued write: a write is never merged
\* (dram_ctrl.cc:562) into an entry that already left for DRAM.
NoPhantomMerge ==
  \A b \in isInWriteQueue :
    \E i \in DOMAIN writeQueue : ~writeQueue[i].rowop /\ writeQueue[i].burst = b

\* The buffers keep their limits, counting the reads that wait for their answer.
WithinBuffers ==
  /\ Len(readQueue) + Len(respQueue) <= readBufferSize
  /\ Len(writeQueue) <= writeBufferSize

BurstsOf(r, q) == {i \in DOMAIN q : q[i].req = r}

\* Each accepted read is answered exactly once: the bursts it still has in the
\* two queues are those its BurstHelper waits for (dram_ctrl.cc:498, 704), and an
\* answered read has none left.
BurstsAccounted ==
  \A r \in Reqs :
    Cardinality(BurstsOf(r, readQueue)) + Cardinality(BurstsOf(r, respQueue)) =
      IF r \notin outstanding THEN 0
      ELSE IF helper[r].burstCount = 0 THEN 1
      ELSE helper[r].burstCount - helper[r].burstsServiced

\* The response event is pending exactly when a served read waits for its answer
\* (the asserts of dram_ctrl.cc:1526 and 1530).
ResponseScheduled == respondEvent <=> respQueue # <<>>

\* A refused packet can rely on its retry: while a retry flag is set the queue it
\* waits for holds a burst whose departure clears the flag.
RetryWillCome ==
  /\ retryRdReq => readQueue # <<>> \/ respQueue # <<>>
  /\ retryWrReq => Len(writeQueue) > writeLowThreshold

\* The drain manager is told the controller is drained (dram_ctrl.cc:735, 1477,
\* 2356) only when no read, write or row operation is left in any queue.
DrainedMeansEmpty ==
  [][drainState # "Drained" /\ drainState' = "Drained" =>
       readQueue' = <<>> /\ writeQueue' = <<>> /\ respQueue' = <<>>]_vars

\* "Since we merge writes to the same location we never have more than one
\* address to the same burst address" (dram_ctrl.hh:710-712).
OneWritePerBurst ==
  \A i, j \in DOMAIN writeQueue :
    /\ ~writeQueue[i].rowop /\ ~writeQueue[j].rowop
    /\ writeQueue[i].burst = writeQueue[j].burst
    => i = j

\* "or we have reads waiting and have done enough writes, then switch to reads"
\* (dram_ctrl.cc:1585-1586): a waiting read gets the bus back.
WaitingReadsGetTheBus == readQueue # <<>> /\ Turn = "WRITE" ~> Turn = "READ"

\* A read is answered eventually, unless row operations keep coming so fast that
\* the write queue is never without one (dram_ctrl.cc:1536, 1587).
ReadsAnswered ==
  []<>(pendingRowOps = 0) =>
    \A r \in Reqs : r \in outstanding ~> r \notin outstanding

\* Reads never hold off a row operation: the bus turns to writes.
RowOpsGetTheBus == pendingRowOps > 0 ~> Turn = "WRITE"

\* A packet that was refused for lack of space is accepted eventually.
RefusedIsAccepted == held # NoPkt ~> held = NoPkt

\* A rank that starts to refresh becomes available again.
RefreshCompletes ==
  \A r \in Ranks : ~isAvailable(r) ~> isAvailable(r)

\* The request loop and the refresh loops keep the protocol that the timed model
\* of the ranks implements as well (dram_ctrl.cc:1411, 1725, 1762, 1953).
Protocol == INSTANCE RankRefresh
RefreshProtocol == Protocol!Spec

=============================================================================
