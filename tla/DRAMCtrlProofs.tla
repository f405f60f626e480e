--------------------------- MODULE DRAMCtrlProofs ---------------------------
(***************************************************************************)
(* What is proved about the DRAM controller, for every number of ranks,    *)
(* every buffer size and threshold, every address map and both scheduling  *)
(* policies.  First the inductive invariant and the lemmas about the       *)
(* operators of the model, then that every step keeps the invariant (the   *)
(* port, the refreshes and draining, the request loop), then the theorems; *)
(* last the account of every read and the retry a refused packet relies    *)
(* on.                                                                     *)
(***************************************************************************)
EXTENDS DRAMCtrl, QueueLemmas

\* A split read still waits for a burst: its BurstHelper has not reached
\* burstCount (it is deleted when it does, dram_ctrl.cc:708).
HelperWaits ==
  \A r \in Reqs : \/ helper[r] = NoHelper
                  \/ helper[r].burstsServiced < helper[r].burstCount

\* The inductive invariant.
Inv ==
  /\ TypeOK /\ HelperWaits /\ RowOpsCounted /\ WriteTurnHasWork /\ NoLostWakeup
  /\ RefreshWaitIsWoken /\ NoPhantomMerge /\ WithinBuffers /\ ResponseScheduled

----------------------------------------------------------------------------
(* Lemmas about the operators of the model *)

\* Kept selects entries of e, keeps every entry asked for and adds none.
LEMMA KeptProperties ==
  ASSUME NEW S, NEW e \in Seq(S), Len(e) \in 1..2, NEW keep \in SUBSET DOMAIN e
  PROVE  /\ Kept(keep, e) \in Seq(S)
         /\ Len(Kept(keep, e)) <= Len(e)
         /\ \A i \in DOMAIN Kept(keep, e) : \E j \in keep : Kept(keep, e)[i] = e[j]
         /\ \A j \in keep : \E i \in DOMAIN Kept(keep, e) : Kept(keep, e)[i] = e[j]
<1> DEFINE c == Kept(keep, e)
<1>0. DOMAIN e = 1..Len(e) /\ keep \subseteq {1, 2} /\ Len(e) \in Nat
  OBVIOUS
<1>1. CASE 1 \in keep /\ 2 \in keep
  <2>1. e[1] \in S /\ e[2] \in S /\ Len(e) = 2
    BY <1>0, <1>1
  <2>2. <<e[1]>> \in Seq(S) /\ <<e[2]>> \in Seq(S)
    BY <2>1
  <2>3. c = <<e[1]>> \o <<e[2]>>
    BY <1>1 DEF Kept, When
  <2>4. c \in Seq(S) /\ Len(c) = 2 /\ c[1] = e[1] /\ c[2] = e[2] /\ DOMAIN c = 1..2
    BY <2>2, <2>3, Joined
  <2> HIDE DEF c
  <2>5. /\ \A i \in 1..2 : \E j \in keep : c[i] = e[j]
        /\ \A j \in keep : \E i \in 1..2 : c[i] = e[j]
    BY <1>0, <1>1, <2>4
  <2>6. /\ c \in Seq(S) /\ Len(c) <= Len(e)
        /\ \A i \in DOMAIN c : \E j \in keep : c[i] = e[j]
        /\ \A j \in keep : \E i \in DOMAIN c : c[i] = e[j]
    BY <2>1, <2>4, <2>5
  <2> QED BY <2>6 DEF c
<1>2. CASE 1 \in keep /\ 2 \notin keep
  <2>1. c = <<e[1]>> /\ e[1] \in S
    BY <1>0, <1>2 DEF Kept, When
  <2> QED BY <1>0, <1>2, <2>1
<1>3. CASE 1 \notin keep /\ 2 \in keep
  <2>1. c = <<e[2]>> /\ e[2] \in S
    BY <1>0, <1>3 DEF Kept, When
  <2> QED BY <1>0, <1>3, <2>1
<1>4. CASE 1 \notin keep /\ 2 \notin keep
  <2>1. c = <<>>
    BY <1>4 DEF Kept, When
  <2> QED BY <1>0, <1>4, <2>1
<1> QED BY <1>1, <1>2, <1>3, <1>4, Zenon

\* Every queue has finitely many row operations, and a queue with one is not
\* empty.
LEMMA RowOpsFinite ==
  ASSUME NEW q \in Seq(WriteEntry)
  PROVE  /\ IsFiniteSet(RowOpsIn(q)) /\ Cardinality(RowOpsIn(q)) \in Nat
         /\ Cardinality(RowOpsIn(q)) # 0 => q # <<>>
<1>1. IsFiniteSet(1..Len(q)) /\ RowOpsIn(q) \in SUBSET (1..Len(q))
  BY FS_Interval DEF RowOpsIn
<1>2. IsFiniteSet(RowOpsIn(q)) /\ Cardinality(RowOpsIn(q)) \in Nat
  BY <1>1, FS_Subset, FS_CardinalityType
<1>3. q = <<>> => RowOpsIn(q) = {}
  BY DEF RowOpsIn
<1> QED BY <1>2, <1>3, FS_EmptySet, Zenon

\* Pushing a row operation adds one to the count.
LEMMA RowOpsAppend ==
  ASSUME NEW q \in Seq(WriteEntry), NEW e \in WriteEntry, e.rowop
  PROVE  Cardinality(RowOpsIn(Append(q, e))) = Cardinality(RowOpsIn(q)) + 1
<1>1. /\ DOMAIN Append(q, e) = 1..(Len(q) + 1) /\ Append(q, e)[Len(q) + 1] = e
      /\ \A i \in 1..Len(q) : Append(q, e)[i] = q[i]
      /\ DOMAIN q = 1..Len(q) /\ Len(q) \in Nat
  BY Appended
<1>2. RowOpsIn(Append(q, e)) = RowOpsIn(q) \cup {Len(q) + 1}
  BY <1>1 DEF RowOpsIn
<1>3. Len(q) + 1 \notin RowOpsIn(q)
  BY <1>1 DEF RowOpsIn
<1> QED BY <1>2, <1>3, RowOpsFinite, FS_AddElement, Zenon

\* Pushing writes leaves the count as it was.
LEMMA RowOpsConcat ==
  ASSUME NEW q \in Seq(WriteEntry), NEW t \in Seq(WriteEntry),
         \A i \in DOMAIN t : ~t[i].rowop
  PROVE  RowOpsIn(q \o t) = RowOpsIn(q)
<1>1. /\ DOMAIN (q \o t) = 1..(Len(q) + Len(t)) /\ DOMAIN q = 1..Len(q)
      /\ DOMAIN t = 1..Len(t) /\ Len(q) \in Nat /\ Len(t) \in Nat
  BY Joined
<1>2. \A i \in 1..Len(q) : (q \o t)[i] = q[i]
  BY Joined
<1>3. ASSUME NEW i \in 1..(Len(q) + Len(t)), i \notin 1..Len(q)
      PROVE  ~(q \o t)[i].rowop
  <2>1. i - Len(q) \in 1..Len(t) /\ ~(i <= Len(q))
    BY <1>1, <1>3
  <2>2. (q \o t)[i] = t[i - Len(q)]
    BY <2>1, Joined
  <2> QED BY <1>1, <2>1, <2>2, Zenon
<1> QED BY <1>1, <1>2, <1>3 DEF RowOpsIn

\* Erasing position k takes one from the count if a row operation was there.
LEMMA RowOpsRemove ==
  ASSUME NEW q \in Seq(WriteEntry), NEW k \in DOMAIN q
  PROVE  Cardinality(RowOpsIn(erase(q, k))) =
           IF q[k].rowop THEN Cardinality(RowOpsIn(q)) - 1
                         ELSE Cardinality(RowOpsIn(q))
<1> DEFINE n == Len(q)
           c == erase(q, k)
<1>1. n \in Nat /\ k \in 1..n /\ DOMAIN q = 1..n
  OBVIOUS
<1>2. /\ c \in Seq(WriteEntry) /\ Len(c) = n - 1
      /\ \A i \in 1..(n - 1) : c[i] = IF i < k THEN q[i] ELSE q[i + 1]
  BY <1>1, EraseProperties, Zenon
<1> HIDE DEF n, c
<1>3. DOMAIN c = 1..(n - 1)
  BY <1>2
<1>4. RowOpsIn(q) \in SUBSET (1..n) /\ RowOpsIn(c) \in SUBSET (1..(n - 1))
  BY <1>1, <1>3 DEF RowOpsIn
<1>5. ASSUME NEW i \in 1..(n - 1)
      PROVE  i \in RowOpsIn(c) <=> (IF i < k THEN i ELSE i + 1) \in RowOpsIn(q)
  <2>1. (IF i < k THEN i ELSE i + 1) \in 1..n
    BY <1>1
  <2>2. c[i] = q[IF i < k THEN i ELSE i + 1]
    BY <1>2, Zenon
  <2> QED BY <1>1, <1>3, <2>1, <2>2 DEF RowOpsIn
<1>6. Cardinality(RowOpsIn(c)) = IF k \in RowOpsIn(q)
        THEN Cardinality(RowOpsIn(q)) - 1 ELSE Cardinality(RowOpsIn(q))
  <2> DEFINE T == RowOpsIn(q)
             U == RowOpsIn(c)
  <2>1. Renumbered(n, k, T, U)
    BY <1>1, <1>4, <1>5, Zenon DEF Renumbered
  <2> HIDE DEF T, U
  <2>2. Cardinality(U) = IF k \in T THEN Cardinality(T) - 1 ELSE Cardinality(T)
    BY <2>1, RenumberedCount, Zenon
  <2> QED BY <2>2 DEF T, U
<1>7. k \in RowOpsIn(q) <=> q[k].rowop
  BY <1>1 DEF RowOpsIn
<1> QED BY <1>6, <1>7 DEF c

\* A span is one or two pieces, each with a burst address and a range of it.
LEMMA SpanType ==
  ASSUME NEW s \in Spans
  PROVE  /\ Len(s) \in 1..2 /\ DOMAIN s = 1..Len(s)
         /\ \A i \in DOMAIN s : s[i].burst \in Bursts /\ s[i].bytes \in SUBSET Units
<1>1. s \in Seq(Piece) /\ Len(s) \in 1..2
  BY SpanAssumption, Zenon
<1>2. DOMAIN s = 1..Len(s) /\ \A i \in DOMAIN s : s[i] \in Piece
  BY <1>1
<1> QED BY <1>1, <1>2, Zenon DEF Piece

\* chooseNext finds a packet unless every queued packet goes to a busy rank.
LEMMA ChooseNextFindsFree ==
  ASSUME NEW S, \A s \in S : s.burst \in Bursts,
         NEW q \in Seq(S), q # <<>>, chooseNext(q) = {}
  PROVE  \E r \in Ranks : ~isAvailable(r)
<1> DEFINE free == {i \in DOMAIN q : isAvailable(RankOf[q[i].burst])}
<1>1. free \in SUBSET Nat /\ 1 \in DOMAIN q /\ q[1] \in S
  OBVIOUS
<1>2. free # {} => chooseNext(q) # {}
  <2>1. free # {} => \E i \in free : \A j \in free : i <= j
    BY <1>1, LeastPosition, Zenon
  <2> QED BY <2>1, Zenon DEF chooseNext
<1>3. ~isAvailable(RankOf[q[1].burst])
  BY <1>1, <1>2, Zenon
<1>4. RankOf[q[1].burst] \in Ranks
  BY <1>1, AddressAssumption, Zenon
<1> QED BY <1>3, <1>4

----------------------------------------------------------------------------
(* The invariant holds initially and every action preserves it *)

\* The state the constructor leaves behind satisfies the invariant.
LEMMA InitInv == Init => Inv
<1> SUFFICES ASSUME Init PROVE Inv
  OBVIOUS
<1> USE DEF Init
<1>1. TypeOK
  <2>1. <<>> \in Seq(ReadEntry) /\ <<>> \in Seq(WriteEntry)
    OBVIOUS
  <2>2. /\ 0 \in Ranks /\ writesThisTime \in 0..minWritesPerSwitch
        /\ pendingRowOps \in Nat
    BY AddressAssumption, BufferAssumption DEF Ranks
  <2>3. helper \in [Reqs -> [burstCount : 0..2, burstsServiced : 0..2]]
    BY DEF NoHelper
  <2> QED BY <2>1, <2>2, <2>3, Zenon DEF TypeOK
<1>2. RowOpsCounted
  BY FS_EmptySet DEF RowOpsCounted, RowOpsIn
<1>3. HelperWaits /\ WriteTurnHasWork /\ RefreshWaitIsWoken /\ NoPhantomMerge
  BY Zenon DEF HelperWaits, WriteTurnHasWork, RefreshWaitIsWoken, NoPhantomMerge
<1>4. NoLostWakeup /\ WithinBuffers /\ ResponseScheduled
  BY BufferAssumption DEF NoLostWakeup, WritesDue, WithinBuffers, ResponseScheduled
<1> QED BY <1>1, <1>2, <1>3, <1>4, Zenon DEF Inv

\* A refused packet changes a retry flag and nothing else of the controller.
LEMMA RefusalInv ==
  ASSUME Inv, held' \in Packet \cup {NoPkt}, retryRdReq' \in BOOLEAN,
         retryWrReq' \in BOOLEAN,
         UNCHANGED <<queues, requests, nextReqEvent, bus, respondEvent,
                     drainState, refreshState>>
  PROVE  Inv'
<1> USE DEF Inv, queues, requests, bus
<1>1. TypeOK'
  BY DEF TypeOK
<1>2. RowOpsCounted' /\ HelperWaits'
  BY Zenon DEF RowOpsCounted, RowOpsIn, HelperWaits
<1>3. WriteTurnHasWork' /\ RefreshWaitIsWoken' /\ NoPhantomMerge'
  BY Zenon DEF WriteTurnHasWork, RefreshWaitIsWoken, NoPhantomMerge
<1>4. NoLostWakeup' /\ WithinBuffers' /\ ResponseScheduled'
  BY Zenon DEF NoLostWakeup, isAvailable, WritesDue, WithinBuffers, ResponseScheduled
<1> QED BY <1>1, <1>2, <1>3, <1>4, Zenon

\* addToReadQueue preserves it: the bursts not found in the write queue fit in the
\* read buffer, and the request event is scheduled for them.
LEMMA ReadAcceptedInv ==
  ASSUME Inv, NEW pkt \in ReadPkt, ~readQueueFull(dram_pkt_count(pkt)),
         addToReadQueue(pkt), held' = NoPkt,
         UNCHANGED <<retries, bus, respondEvent, drainState, refreshState>>
  PROVE  Inv'
<1> DEFINE e == ReadBursts(pkt)
           n == Len(pkt.pieces)
           keep == {i \in 1..n : ~foundInWrQ(pkt.pieces[i])}
           missed == Kept(keep, e)
<1>1. /\ n \in 1..2 /\ DOMAIN pkt.pieces = 1..n /\ pkt.req \in Reqs
      /\ \A i \in 1..n : pkt.pieces[i].burst \in Bursts
      /\ dram_pkt_count(pkt) = n
  BY SpanType, Zenon DEF ReadPkt, dram_pkt_count
<1>2. \A i \in 1..n : [req |-> pkt.req, burst |-> pkt.pieces[i].burst] \in ReadEntry
  BY <1>1, Zenon DEF ReadEntry
<1>3. e \in Seq(ReadEntry) /\ Len(e) = n /\ DOMAIN e = 1..n
  BY <1>1, <1>2 DEF ReadBursts
<1> HIDE DEF e
<1>4. missed \in Seq(ReadEntry) /\ Len(missed) <= n /\ Len(missed) \in Nat
  BY <1>1, <1>3, KeptProperties
<1>5. /\ readQueue' = readQueue \o missed
      /\ IF missed = <<>>
           THEN UNCHANGED <<helper, outstanding, nextReqEvent>>
           ELSE /\ helper' =
                     [helper EXCEPT ![pkt.req] =
                        IF n > 1
                          THEN [burstCount |-> n,
                                burstsServiced |-> n - Len(missed)]
                          ELSE NoHelper]
                /\ outstanding' = outstanding \cup {pkt.req}
                /\ nextReqEvent' = TRUE
      /\ UNCHANGED <<writeQueue, respQueue, isInWriteQueue, pendingRowOps>>
  BY Zenon DEF addToReadQueue, BurstHelper, e
<1> HIDE DEF n, missed
<1> USE DEF Inv, retries, bus
<1>6. /\ readQueue' \in Seq(ReadEntry)
      /\ Len(readQueue') = Len(readQueue) + Len(missed)
  BY <1>4, <1>5, Joined DEF TypeOK
<1>7. missed # <<>> => Len(missed) > 0
  BY <1>4
<1>8. TypeOK' /\ HelperWaits'
  <2>1. CASE missed = <<>>
    BY <1>5, <1>6, <2>1 DEF TypeOK, HelperWaits
  <2>2. CASE missed # <<>>
    <3> DEFINE h == IF n > 1 THEN [burstCount |-> n, burstsServiced |-> n - Len(missed)]
                             ELSE NoHelper
    <3>1. /\ h \in [burstCount : 0..2, burstsServiced : 0..2]
          /\ h = NoHelper \/ h.burstsServiced < h.burstCount
      BY <1>1, <1>4, <1>7, <2>2 DEF NoHelper
    <3>2. helper' = [helper EXCEPT ![pkt.req] = h]
      BY <1>5, <2>2, Zenon
    <3> HIDE DEF h
    <3>3. helper' \in [Reqs -> [burstCount : 0..2, burstsServiced : 0..2]]
      BY <1>1, <3>1, <3>2, Zenon DEF TypeOK
    <3>4. HelperWaits'
      BY <1>1, <3>1, <3>2, Zenon DEF TypeOK, HelperWaits
    <3>5. outstanding' \subseteq Reqs
      BY <1>1, <1>5, <2>2, Zenon DEF TypeOK
    <3>6. nextReqEvent' \in BOOLEAN
      BY <1>5, <2>2, Zenon
    <3> QED BY <1>5, <1>6, <3>3, <3>4, <3>5, <3>6, Zenon DEF TypeOK
  <2> QED BY <2>1, <2>2, Zenon
<1>9. RowOpsCounted' /\ WriteTurnHasWork' /\ NoPhantomMerge' /\ ResponseScheduled'
  BY <1>5, Zenon DEF RowOpsCounted, RowOpsIn, WriteTurnHasWork, NoPhantomMerge,
              ResponseScheduled
<1>10. NoLostWakeup'
  <2>1. CASE missed = <<>>
    <3>1. readQueue' = readQueue
      BY <1>5, <2>1 DEF TypeOK
    <3> QED BY <1>5, <2>1, <3>1, Zenon DEF NoLostWakeup, isAvailable, WritesDue
  <2>2. CASE missed # <<>>
    BY <1>5, <2>2, Zenon DEF NoLostWakeup
  <2> QED BY <2>1, <2>2, Zenon
<1>11. RefreshWaitIsWoken'
  BY <1>5, Zenon DEF RefreshWaitIsWoken
<1>12. WithinBuffers'
  <2>1. /\ Len(writeQueue') <= writeBufferSize /\ respQueue' = respQueue
        /\ ~(Len(readQueue) + Len(respQueue) + n > readBufferSize)
    BY <1>1, <1>5, Zenon DEF WithinBuffers, readQueueFull
  <2>2. Len(readQueue) \in Nat /\ Len(respQueue) \in Nat
    BY DEF TypeOK
  <2>3. readBufferSize \in Nat /\ n \in Nat
    BY <1>1, BufferAssumption
  <2> HIDE DEF Inv, retries, bus
  <2>4. Len(readQueue') + Len(respQueue') <= readBufferSize
    BY <1>4, <1>6, <2>1, <2>2, <2>3
  <2> QED BY <2>1, <2>4, Zenon DEF WithinBuffers
<1> QED BY <1>8, <1>9, <1>10, <1>11, <1>12, Zenon

\* Queueing a row operation: the counter and the queue grow together.
LEMMA RowOpAcceptedInv ==
  ASSUME Inv, NEW pkt \in RowOpPkt, ~writeQueueFull(dram_pkt_count(pkt)),
         addToWriteQueue(pkt), held' = NoPkt,
         UNCHANGED <<retries, bus, respondEvent, drainState, refreshState>>
  PROVE  Inv'
<1> DEFINE e == [rowop |-> TRUE, burst |-> pkt.dest, bytes |-> {}]
<1>1. e \in WriteEntry /\ e.rowop
  BY AddressAssumption, Zenon DEF RowOpPkt, WriteEntry
<1>2. /\ pkt.cmd = "rowop" /\ dram_pkt_count(pkt) = 1
      /\ writeQueue' = Append(writeQueue, e) /\ pendingRowOps' = pendingRowOps + 1
      /\ nextReqEvent' = TRUE
      /\ UNCHANGED <<isInWriteQueue, readQueue, respQueue, helper, outstanding>>
  BY Zenon DEF RowOpPkt, dram_pkt_count, addToWriteQueue
<1> HIDE DEF e
<1> USE DEF Inv, retries, bus
<1>3. /\ writeQueue' \in Seq(WriteEntry) /\ Len(writeQueue') = Len(writeQueue) + 1
      /\ \A i \in DOMAIN writeQueue :
           i \in DOMAIN writeQueue' /\ writeQueue'[i] = writeQueue[i]
      /\ Len(writeQueue) \in Nat
  BY <1>1, <1>2, Appended DEF TypeOK
<1>4. TypeOK' /\ HelperWaits'
  BY <1>2, <1>3, SMTT(30) DEF TypeOK, HelperWaits
<1>5. RowOpsCounted'
  BY <1>1, <1>2, RowOpsAppend, Zenon DEF RowOpsCounted, TypeOK
<1>6. WriteTurnHasWork' /\ NoPhantomMerge'
  BY <1>2, <1>3 DEF WriteTurnHasWork, NoPhantomMerge
<1>7. NoLostWakeup' /\ RefreshWaitIsWoken' /\ ResponseScheduled'
  BY <1>2, Zenon DEF NoLostWakeup, RefreshWaitIsWoken, ResponseScheduled
<1>8. WithinBuffers'
  <2>1. /\ Len(readQueue') + Len(respQueue') <= readBufferSize
        /\ ~(Len(writeQueue) + 1 > writeBufferSize)
    BY <1>2, Zenon DEF WithinBuffers, writeQueueFull
  <2> HIDE DEF Inv, retries, bus
  <2>2. Len(writeQueue') <= writeBufferSize
    BY <1>3, <2>1, BufferAssumption
  <2> QED BY <2>1, <2>2, Zenon DEF WithinBuffers
<1> QED BY <1>4, <1>5, <1>6, <1>7, <1>8, Zenon

\* Queueing a write: every burst it has is marked and has an entry.
LEMMA WriteAcceptedInv ==
  ASSUME Inv, NEW pkt \in WritePkt, ~writeQueueFull(dram_pkt_count(pkt)),
         addToWriteQueue(pkt), held' = NoPkt,
         UNCHANGED <<retries, bus, respondEvent, drainState, refreshState>>
  PROVE  Inv'
<1> DEFINE e == WriteBursts(pkt)
           n == Len(pkt.pieces)
           keep == {i \in DOMAIN pkt.pieces : ~merged(pkt.pieces[i])}
           new == Kept(keep, e)
<1>1. /\ n \in 1..2 /\ DOMAIN pkt.pieces = 1..n /\ dram_pkt_count(pkt) = n
      /\ \A i \in 1..n : /\ pkt.pieces[i].burst \in Bursts
                         /\ pkt.pieces[i].bytes \in SUBSET Units
      /\ pkt.cmd # "rowop"
  BY SpanType, Zenon DEF WritePkt, dram_pkt_count
<1>2. \A i \in 1..n : [rowop |-> FALSE, burst |-> pkt.pieces[i].burst,
                       bytes |-> pkt.pieces[i].bytes] \in WriteEntry
  BY <1>1, Zenon DEF WriteEntry
<1>3. /\ e \in Seq(WriteEntry) /\ Len(e) = n /\ DOMAIN e = 1..n
      /\ \A i \in 1..n : ~e[i].rowop /\ e[i].burst = pkt.pieces[i].burst
  BY <1>1, <1>2, SMTT(30) DEF WriteBursts
<1>4. /\ writeQueue' = writeQueue \o new /\ nextReqEvent' = TRUE
      /\ isInWriteQueue' = isInWriteQueue \cup
           {pkt.pieces[i].burst : i \in DOMAIN pkt.pieces}
      /\ UNCHANGED <<pendingRowOps, readQueue, respQueue, helper, outstanding>>
  BY <1>1, Zenon DEF addToWriteQueue
<1> HIDE DEF e
<1>5. /\ new \in Seq(WriteEntry) /\ Len(new) <= n /\ Len(new) \in Nat
      /\ \A i \in DOMAIN new : \E j \in keep : new[i] = e[j]
      /\ \A j \in keep : \E i \in DOMAIN new : new[i] = e[j]
  <2>1. keep \in SUBSET DOMAIN e
    BY <1>1, <1>3, Zenon
  <2>2. e \in Seq(WriteEntry) /\ Len(e) \in 1..2
    BY <1>1, <1>3, Zenon
  <2> HIDE DEF keep
  <2>3. /\ new \in Seq(WriteEntry) /\ Len(new) <= Len(e)
        /\ \A i \in DOMAIN new : \E j \in keep : new[i] = e[j]
        /\ \A j \in keep : \E i \in DOMAIN new : new[i] = e[j]
    BY <2>1, <2>2, KeptProperties, Zenon
  <2> HIDE DEF new
  <2> QED BY <1>3, <2>3, SMTT(30)
<1> HIDE DEF n, new
<1>6. \A i \in DOMAIN new : ~new[i].rowop
  BY <1>1, <1>3, <1>5, Zenon
<1> USE DEF Inv, retries, bus
<1>7. /\ writeQueue' \in Seq(WriteEntry)
      /\ Len(writeQueue') = Len(writeQueue) + Len(new) /\ Len(writeQueue) \in Nat
      /\ \A i \in DOMAIN writeQueue :
           i \in DOMAIN writeQueue' /\ writeQueue'[i] = writeQueue[i]
  BY <1>4, <1>5, Joined DEF TypeOK
<1>8. ASSUME NEW i \in DOMAIN new
      PROVE  Len(writeQueue) + i \in DOMAIN writeQueue' /\
             writeQueue'[Len(writeQueue) + i] = new[i]
  <2>0. writeQueue \in Seq(WriteEntry) /\ new \in Seq(WriteEntry)
    BY <1>5, Zenon DEF TypeOK
  <2> HIDE DEF Inv, retries, bus
  <2>1. /\ Len(writeQueue \o new) = Len(writeQueue) + Len(new)
        /\ \A k \in 1..(Len(writeQueue) + Len(new)) :
             (writeQueue \o new)[k] = IF k <= Len(writeQueue) THEN writeQueue[k]
                                     ELSE new[k - Len(writeQueue)]
    BY <2>0, Joined, Zenon
  <2>2. /\ Len(writeQueue) + i \in 1..(Len(writeQueue) + Len(new))
        /\ ~(Len(writeQueue) + i <= Len(writeQueue))
        /\ (Len(writeQueue) + i) - Len(writeQueue) = i
    BY <1>5, <1>7
  <2>3. Len(writeQueue) + i \in DOMAIN writeQueue'
    BY <1>7, <2>2
  <2> QED BY <1>4, <2>1, <2>2, <2>3, Zenon
<1>9. TypeOK' /\ HelperWaits'
  <2>1. isInWriteQueue' \subseteq Bursts
    BY <1>1, <1>4, Zenon DEF TypeOK
  <2> QED BY <1>4, <1>7, <2>1, Zenon DEF TypeOK, HelperWaits
<1>10. RowOpsCounted'
  BY <1>4, <1>5, <1>6, RowOpsConcat, Zenon DEF RowOpsCounted, TypeOK
<1>11. WriteTurnHasWork'
  <2>1. writeQueue # <<>> => Len(writeQueue) > 0
    BY DEF TypeOK
  <2>2. Len(writeQueue) > 0 => writeQueue' # <<>>
    <3> HIDE DEF Inv, retries, bus
    <3> QED BY <1>5, <1>7
  <2> QED BY <1>4, <2>1, <2>2, Zenon DEF WriteTurnHasWork
<1>12. NoPhantomMerge'
  <2> SUFFICES ASSUME NEW b \in isInWriteQueue'
               PROVE  \E i \in DOMAIN writeQueue' :
                        ~writeQueue'[i].rowop /\ writeQueue'[i].burst = b
    BY Zenon DEF NoPhantomMerge
  <2>1. CASE b \in isInWriteQueue
    BY <1>7, <2>1, Zenon DEF NoPhantomMerge
  <2>2. CASE b \notin isInWriteQueue
    <3>1. PICK j \in DOMAIN pkt.pieces : b = pkt.pieces[j].burst
      BY <1>4, <2>2, Zenon
    <3>2. j \in keep
      BY <2>2, <3>1, Zenon DEF merged
    <3>3. PICK i \in DOMAIN new : new[i] = e[j]
      BY <1>5, <3>2, Zenon
    <3> QED BY <1>1, <1>3, <1>8, <3>1, <3>3, Zenon
  <2> QED BY <2>1, <2>2, Zenon
<1>13. NoLostWakeup' /\ RefreshWaitIsWoken' /\ ResponseScheduled'
  BY <1>4, Zenon DEF NoLostWakeup, RefreshWaitIsWoken, ResponseScheduled
<1>14. WithinBuffers'
  <2>1. /\ Len(readQueue') + Len(respQueue') <= readBufferSize
        /\ ~(Len(writeQueue) + n > writeBufferSize)
    BY <1>1, <1>4, Zenon DEF WithinBuffers, writeQueueFull
  <2>2. writeBufferSize \in Nat /\ n \in Nat
    BY <1>1, BufferAssumption
  <2> HIDE DEF Inv, retries, bus
  <2>3. Len(writeQueue') <= writeBufferSize
    BY <1>5, <1>7, <2>1, <2>2
  <2> QED BY <2>1, <2>3, Zenon DEF WithinBuffers
<1> QED BY <1>9, <1>10, <1>11, <1>12, <1>13, <1>14, Zenon

\* Whatever packet the port delivers, accepted or refused.
LEMMA RecvInv ==
  ASSUME Inv, NEW pkt \in Packet, recvTimingReq(pkt)
  PROVE  Inv'
<1>1. /\ pkt.cmd = "read" <=> pkt \in ReadPkt
      /\ pkt.cmd # "read" => pkt \in WritePkt \/ pkt \in RowOpPkt
  BY Zenon DEF Packet, ReadPkt, WritePkt, RowOpPkt
<1>2. UNCHANGED <<bus, respondEvent, drainState, refreshState>>
  BY Zenon DEF recvTimingReq
<1>3. CASE \/ /\ pkt.cmd = "read" /\ readQueueFull(dram_pkt_count(pkt))
              /\ retryRdReq' = TRUE /\ held' = pkt
              /\ UNCHANGED <<queues, requests, nextReqEvent, retryWrReq>>
           \/ /\ pkt.cmd # "read" /\ writeQueueFull(dram_pkt_count(pkt))
              /\ retryWrReq' = TRUE /\ held' = pkt
              /\ UNCHANGED <<queues, requests, nextReqEvent, retryRdReq>>
  <2>1. retryRdReq \in BOOLEAN /\ retryWrReq \in BOOLEAN
    BY Zenon DEF Inv, TypeOK
  <2>2. retryRdReq' \in BOOLEAN /\ retryWrReq' \in BOOLEAN
    BY <1>3, <2>1, Zenon
  <2>3. /\ held' \in Packet \cup {NoPkt}
        /\ UNCHANGED <<queues, requests, nextReqEvent>>
    BY <1>3, Zenon
  <2> QED BY <1>2, <2>2, <2>3, RefusalInv, Zenon
<1>4. CASE /\ pkt.cmd = "read" /\ ~readQueueFull(dram_pkt_count(pkt))
           /\ addToReadQueue(pkt) /\ held' = NoPkt /\ UNCHANGED retries
  BY <1>1, <1>2, <1>4, ReadAcceptedInv, Zenon
<1>5. CASE /\ pkt.cmd # "read" /\ ~writeQueueFull(dram_pkt_count(pkt))
           /\ addToWriteQueue(pkt) /\ held' = NoPkt /\ UNCHANGED retries
  BY <1>1, <1>2, <1>5, WriteAcceptedInv, RowOpAcceptedInv, Zenon
<1> QED BY <1>3, <1>4, <1>5, Zenon DEF recvTimingReq

\* Answering the read at the head of the response queue.
LEMMA RespondInv ==
  ASSUME Inv, processRespondEvent
  PROVE  Inv'
<1> USE DEF Inv, bus
<1> DEFINE r == Head(respQueue).req
<1>1. respQueue # <<>> /\ respQueue \in Seq(ReadEntry)
  BY Zenon DEF processRespondEvent, ResponseScheduled, TypeOK
<1>2. Head(respQueue) \in ReadEntry
  BY <1>1
<1>3. r \in Reqs
  BY <1>2, Zenon DEF ReadEntry
<1>4. /\ Tail(respQueue) \in Seq(ReadEntry)
      /\ Len(Tail(respQueue)) = Len(respQueue) - 1 /\ Len(respQueue) \in Nat
  BY <1>1
<1>5. /\ respQueue' = Tail(respQueue)
      /\ respondEvent' = (Tail(respQueue) # <<>>)
      /\ retryRdReq' = FALSE
      /\ UNCHANGED <<readQueue, writeQueue, isInWriteQueue, pendingRowOps, bus,
                     nextReqEvent, retryWrReq, refreshState, held>>
  BY Zenon DEF processRespondEvent, popResponse
<1>6. drainState' = drainState \/ drainState' = "Drained"
  BY Zenon DEF processRespondEvent
<1>7. /\ helper' \in [Reqs -> [burstCount : 0..2, burstsServiced : 0..2]]
      /\ HelperWaits'
  <2> DEFINE h == helper[r]
  <2>1. h \in [burstCount : 0..2, burstsServiced : 0..2]
    BY <1>3, Zenon DEF TypeOK
  <2>2. CASE UNCHANGED helper
    BY <2>2, Zenon DEF TypeOK, HelperWaits
  <2>3. CASE helper' = [helper EXCEPT ![r] = NoHelper]
    BY <1>3, <2>3 DEF TypeOK, HelperWaits, NoHelper
  <2>4. CASE /\ helper' = [helper EXCEPT ![r].burstsServiced = @ + 1]
             /\ h.burstCount # 0 /\ h.burstsServiced + 1 # h.burstCount
    <3>1. h.burstsServiced < h.burstCount
      BY <1>3, <2>4 DEF HelperWaits, NoHelper
    <3> DEFINE g == [h EXCEPT !.burstsServiced = @ + 1]
    <3>2. /\ g \in [burstCount : 0..2, burstsServiced : 0..2]
          /\ g.burstsServiced < g.burstCount
      BY <2>1, <2>4, <3>1
    <3>3. helper' = [helper EXCEPT ![r] = g]
      BY <2>4, Zenon
    <3> HIDE DEF g
    <3> QED BY <1>3, <3>2, <3>3, Zenon DEF TypeOK, HelperWaits
  <2> QED BY <2>2, <2>3, <2>4, Zenon DEF processRespondEvent
<1>8. outstanding' \subseteq Reqs
  BY Zenon DEF processRespondEvent, TypeOK
<1>9. respondEvent' \in BOOLEAN /\ retryRdReq' \in BOOLEAN
  BY <1>5, Zenon
<1>10. TypeOK'
  BY <1>4, <1>5, <1>6, <1>7, <1>8, <1>9, Zenon DEF TypeOK
<1>11. RowOpsCounted' /\ WriteTurnHasWork' /\ NoPhantomMerge'
  BY <1>5, Zenon DEF RowOpsCounted, RowOpsIn, WriteTurnHasWork, NoPhantomMerge
<1>12. NoLostWakeup' /\ RefreshWaitIsWoken'
  BY <1>5, <1>6, Zenon DEF NoLostWakeup, isAvailable, WritesDue, RefreshWaitIsWoken
<1>13. WithinBuffers'
  BY <1>4, <1>5, BufferAssumption DEF WithinBuffers, TypeOK
<1>14. ResponseScheduled'
  BY <1>5, Zenon DEF ResponseScheduled
<1> QED BY <1>7, <1>10, <1>11, <1>12, <1>13, <1>14, Zenon

----------------------------------------------------------------------------
(* Refreshes, draining and the request loop *)

\* The refresh state machine of a rank.
LEMMA RefreshInv ==
  ASSUME Inv, NEW r \in Ranks, refreshDue(r) \/ refreshPrecharge(r) \/ refreshDone(r)
  PROVE  Inv'
<1> USE DEF Inv, queues, bus, requests, retries, refreshDue, refreshPrecharge,
            refreshDone
<1>1. /\ UNCHANGED <<queues, bus, respondEvent, retries, drainState, requests, held>>
      /\ nextReqEvent' = nextReqEvent \/ nextReqEvent' = TRUE
  OBVIOUS
<1>2. refreshState' \in [Ranks -> {"REF_IDLE", "REF_DRAIN", "REF_PRE", "REF_RUN"}]
  BY DEF TypeOK
<1>3. TypeOK' /\ HelperWaits'
  <2>1. nextReqEvent' \in BOOLEAN
    BY <1>1, Zenon DEF TypeOK
  <2> QED BY <1>1, <1>2, <2>1 DEF TypeOK, HelperWaits
<1>4. RowOpsCounted' /\ WriteTurnHasWork' /\ NoPhantomMerge'
  BY <1>1, Zenon DEF RowOpsCounted, RowOpsIn, WriteTurnHasWork, NoPhantomMerge
<1>5. NoLostWakeup'
  <2>1. CASE refreshDue(r)
    <3>1. refreshState'[r] # "REF_IDLE"
      BY <2>1, Zenon DEF TypeOK
    <3> QED BY <3>1, Zenon DEF NoLostWakeup, isAvailable
  <2>2. CASE refreshPrecharge(r)
    <3>1. refreshState'[r] # "REF_IDLE"
      BY <2>2 DEF TypeOK
    <3> QED BY <3>1 DEF NoLostWakeup, isAvailable
  <2>3. CASE refreshDone(r)
    BY <2>3, Zenon DEF NoLostWakeup
  <2> QED BY <2>1, <2>2, <2>3, Zenon
<1>6. RefreshWaitIsWoken'
  BY Zenon DEF RefreshWaitIsWoken, TypeOK
<1>7. WithinBuffers' /\ ResponseScheduled'
  BY <1>1, Zenon DEF WithinBuffers, ResponseScheduled
<1> QED BY <1>3, <1>4, <1>5, <1>6, <1>7

\* The drain manager's calls.
LEMMA DrainInv ==
  ASSUME Inv, drain \/ drainResume
  PROVE  Inv'
<1> USE DEF Inv, queues, bus, requests, retries
<1>1. /\ UNCHANGED <<queues, bus, respondEvent, retries, refreshState, requests, held>>
      /\ drainState' \in {"Running", "Draining", "Drained"}
  BY Zenon DEF drain, drainResume
<1>2. /\ nextReqEvent' \in BOOLEAN
      /\ nextReqEvent => nextReqEvent'
      /\ ~nextReqEvent' => drainState' # "Draining" \/ writeQueue = <<>>
  <2>1. nextReqEvent \in BOOLEAN
    BY Zenon DEF TypeOK
  <2>2. CASE drainResume
    BY <2>1, <2>2, Zenon DEF drainResume
  <2>3. CASE drain /\ UNCHANGED nextReqEvent /\ drainState' = "Drained"
    BY <2>1, <2>3
  <2>4. CASE drain /\ nextReqEvent' = (nextReqEvent \/ writeQueue # <<>>)
    BY <2>1, <2>4, Zenon
  <2> QED BY <2>2, <2>3, <2>4, Zenon DEF drain
<1>3. TypeOK' /\ HelperWaits'
  <2>1. nextReqEvent' \in BOOLEAN
    BY <1>2, Zenon
  <2> QED BY <1>1, <2>1 DEF TypeOK, HelperWaits
<1>4. RowOpsCounted' /\ WriteTurnHasWork' /\ NoPhantomMerge'
  BY <1>1 DEF RowOpsCounted, RowOpsIn, WriteTurnHasWork, NoPhantomMerge
<1>5. NoLostWakeup' /\ RefreshWaitIsWoken'
  <2>1. CASE nextReqEvent'
    BY <2>1, Zenon DEF NoLostWakeup, RefreshWaitIsWoken
  <2>2. CASE ~nextReqEvent'
    <3>1. ~nextReqEvent /\ (drainState' # "Draining" \/ writeQueue = <<>>)
      BY <1>2, <2>2, Zenon
    <3>2. \A r \in Ranks : refreshState[r] # "REF_DRAIN"
      BY <3>1 DEF RefreshWaitIsWoken
    <3> QED BY <1>1, <3>1, <3>2, Zenon
            DEF NoLostWakeup, isAvailable, WritesDue, RefreshWaitIsWoken
  <2> QED BY <2>1, <2>2, Zenon
<1>6. WithinBuffers' /\ ResponseScheduled'
  BY <1>1 DEF WithinBuffers, ResponseScheduled
<1> QED BY <1>3, <1>4, <1>5, <1>6

\* The handler leaves no rank waiting for it and makes none available or busy.
LEMMA CheckDrainDoneWakes ==
  ASSUME TypeOK, checkDrainDone
  PROVE  /\ refreshState' \in [Ranks -> {"REF_IDLE", "REF_DRAIN", "REF_PRE", "REF_RUN"}]
         /\ \A r \in Ranks : refreshState'[r] # "REF_DRAIN"
         /\ \A r \in Ranks : refreshState'[r] = "REF_IDLE" <=> refreshState[r] = "REF_IDLE"
BY Zenon DEF TypeOK, checkDrainDone

\* What the handler does with the bus counter stays in its range.
LEMMA WritesSoFarType ==
  ASSUME TypeOK
  PROVE  WritesSoFar \in 0..minWritesPerSwitch
BY BufferAssumption DEF TypeOK, WritesSoFar

\* A handler that returns early keeps the invariant if it leaves a reason to wait.
LEMMA PauseInv ==
  ASSUME Inv, checkDrainDone, UNCHANGED <<retryRdReq, held>>, Pause,
         busState' \in {"READ", "READ_TO_WRITE", "WRITE", "WRITE_TO_READ"},
         writesThisTime' \in 0..minWritesPerSwitch,
         drainState' \in {"Running", "Draining", "Drained"},
         WriteTurnHasWork', NoLostWakeup'
  PROVE  Inv'
<1> USE DEF Inv, Pause, queues, requests
<1>1. /\ refreshState' \in [Ranks -> {"REF_IDLE", "REF_DRAIN", "REF_PRE", "REF_RUN"}]
      /\ RefreshWaitIsWoken'
  BY CheckDrainDoneWakes, Zenon DEF RefreshWaitIsWoken
<1>2. TypeOK' /\ HelperWaits'
  BY <1>1, Zenon DEF TypeOK, HelperWaits
<1>3. RowOpsCounted' /\ NoPhantomMerge' /\ WithinBuffers' /\ ResponseScheduled'
  BY Zenon DEF RowOpsCounted, RowOpsIn, NoPhantomMerge, WithinBuffers, ResponseScheduled
<1> QED BY <1>1, <1>2, <1>3, Zenon

\* The early returns of processNextReqEvent.
LEMMA EarlyReturnInv ==
  ASSUME Inv, checkDrainDone, UNCHANGED <<retryRdReq, held>>,
         AllRanksBusy \/ NothingToDo \/ NoReadToFreeRank \/ NoWriteToFreeRank
  PROVE  Inv'
<1> USE DEF Inv
<1>1. \A r \in Ranks : refreshState'[r] = "REF_IDLE" <=> refreshState[r] = "REF_IDLE"
  BY CheckDrainDoneWakes, Zenon
<1>2. (\E r \in Ranks : ~isAvailable(r)) => NoLostWakeup'
  BY <1>1, Zenon DEF isAvailable, NoLostWakeup
<1>3. WritesSoFar \in 0..minWritesPerSwitch
  BY WritesSoFarType, Zenon
<1>4. CASE AllRanksBusy
  <2>1. 0 \in Ranks
    BY AddressAssumption DEF Ranks
  <2>2. NoLostWakeup'
    BY <1>2, <1>4, <2>1, Zenon DEF AllRanksBusy
  <2>3. WriteTurnHasWork'
    BY <1>4, Zenon DEF AllRanksBusy, Pause, queues, WriteTurnHasWork
  <2> QED BY <1>4, <2>2, <2>3, PauseInv, Zenon DEF AllRanksBusy, TypeOK
<1>5. CASE NothingToDo
  <2>1. /\ busState' = "READ" /\ writesThisTime' = WritesSoFar /\ Pause
        /\ drainState' = drainState \/ drainState' = "Drained"
        /\ readQueue = <<>> /\ ~WritesDue
    BY <1>5, Zenon DEF NothingToDo
  <2>2. WriteTurnHasWork'
    BY <2>1, Zenon DEF WriteTurnHasWork
  <2>3. NoLostWakeup'
    BY <2>1, Zenon DEF NoLostWakeup, WritesDue, Pause, queues
  <2> QED BY <1>3, <2>1, <2>2, <2>3, PauseInv, Zenon DEF TypeOK
<1>6. CASE NoReadToFreeRank
  <2>1. \A s \in ReadEntry : s.burst \in Bursts
    BY Zenon DEF ReadEntry
  <2>2. \E r \in Ranks : ~isAvailable(r)
    BY <1>6, <2>1, ChooseNextFindsFree, Zenon DEF NoReadToFreeRank, TypeOK
  <2>3. WriteTurnHasWork'
    BY <1>6, Zenon DEF NoReadToFreeRank, WriteTurnHasWork
  <2> QED BY <1>2, <1>3, <1>6, <2>2, <2>3, PauseInv, Zenon DEF NoReadToFreeRank, TypeOK
<1>7. CASE NoWriteToFreeRank
  <2>1. \A s \in WriteEntry : s.burst \in Bursts
    BY Zenon DEF WriteEntry
  <2>2. writeQueue # <<>>
    BY <1>7, Zenon DEF NoWriteToFreeRank, Turn, WriteTurnHasWork, TypeOK
  <2>3. \E r \in Ranks : ~isAvailable(r)
    BY <1>7, <2>1, <2>2, ChooseNextFindsFree, Zenon DEF NoWriteToFreeRank, TypeOK
  <2>4. WriteTurnHasWork'
    BY <1>7, <2>2, Zenon DEF NoWriteToFreeRank, Pause, queues, WriteTurnHasWork
  <2> QED BY <1>2, <1>7, <2>3, <2>4, PauseInv, Zenon DEF NoWriteToFreeRank, TypeOK
<1> QED BY <1>4, <1>5, <1>6, <1>7, Zenon

\* Turning to writes with an empty read queue.
LEMMA StartWritesInv ==
  ASSUME Inv, checkDrainDone, UNCHANGED <<retryRdReq, held>>, StartWrites
  PROVE  Inv'
<1> USE DEF Inv, StartWrites, Reschedule, queues, requests
<1>1. /\ refreshState' \in [Ranks -> {"REF_IDLE", "REF_DRAIN", "REF_PRE", "REF_RUN"}]
      /\ RefreshWaitIsWoken' /\ NoLostWakeup'
  BY CheckDrainDoneWakes, Zenon DEF RefreshWaitIsWoken, NoLostWakeup
<1>2. writesThisTime' \in 0..minWritesPerSwitch
  BY WritesSoFarType, Zenon
<1>3. retryWrReq' \in BOOLEAN
  BY Zenon
<1>4. TypeOK' /\ HelperWaits'
  BY <1>1, <1>2, <1>3, Zenon DEF TypeOK, HelperWaits
<1>5. RowOpsCounted' /\ NoPhantomMerge' /\ WithinBuffers' /\ ResponseScheduled'
  BY Zenon DEF RowOpsCounted, RowOpsIn, NoPhantomMerge, WithinBuffers, ResponseScheduled
<1>6. WriteTurnHasWork'
  BY Zenon DEF WriteTurnHasWork, WritesDue
<1> QED BY <1>1, <1>4, <1>5, <1>6, Zenon

\* Serving a read moves it from the read queue to the response queue.
LEMMA ServeReadInv ==
  ASSUME Inv, checkDrainDone, UNCHANGED <<retryRdReq, held>>,
         NEW i \in DOMAIN readQueue, ServeRead(i)
  PROVE  Inv'
<1> USE DEF Inv
<1> DEFINE q == readQueue
           e == readQueue[i]
<1>1. /\ q \in Seq(ReadEntry) /\ i \in 1..Len(q) /\ e \in ReadEntry
      /\ Len(q) \in Nat /\ respQueue \in Seq(ReadEntry) /\ Len(respQueue) \in Nat
  BY DEF TypeOK
<1>2. RankOf[e.burst] \in Ranks
  BY <1>1, AddressAssumption, Zenon DEF ReadEntry
<1>3. /\ readQueue' = erase(q, i) /\ respQueue' = Append(respQueue, e)
      /\ respondEvent' = TRUE /\ activeRank' = RankOf[e.burst]
      /\ busState' = IF WritesForced THEN "READ_TO_WRITE" ELSE "READ"
      /\ writesThisTime' = WritesSoFar
      /\ nextReqEvent' = TRUE
      /\ UNCHANGED <<writeQueue, isInWriteQueue, pendingRowOps, helper, outstanding,
                     drainState>>
  BY Zenon DEF ServeRead, Reschedule, requests
<1>4. retryWrReq' \in BOOLEAN
  BY Zenon DEF ServeRead, Reschedule
<1>5. readQueue' \in Seq(ReadEntry) /\ Len(readQueue') = Len(q) - 1
  BY <1>1, <1>3, EraseProperties, Zenon
<1>6. /\ respQueue' \in Seq(ReadEntry) /\ Len(respQueue') = Len(respQueue) + 1
      /\ respQueue' # <<>>
  BY <1>1, <1>3, Appended
<1>7. /\ refreshState' \in [Ranks -> {"REF_IDLE", "REF_DRAIN", "REF_PRE", "REF_RUN"}]
      /\ RefreshWaitIsWoken' /\ NoLostWakeup'
  BY <1>3, CheckDrainDoneWakes, Zenon DEF RefreshWaitIsWoken, NoLostWakeup
<1>8. writesThisTime' \in 0..minWritesPerSwitch
  BY <1>3, WritesSoFarType, Zenon
<1>9. TypeOK' /\ HelperWaits'
  <2> HIDE DEF e, q
  <2> QED BY <1>2, <1>3, <1>4, <1>5, <1>6, <1>7, <1>8, Zenon DEF TypeOK, HelperWaits
<1>10. RowOpsCounted' /\ NoPhantomMerge'
  BY <1>3, Zenon DEF RowOpsCounted, RowOpsIn, NoPhantomMerge
<1>11. WithinBuffers'
  BY <1>1, <1>3, <1>5, <1>6, BufferAssumption DEF WithinBuffers
<1>12. ResponseScheduled'
  BY <1>3, <1>6, Zenon DEF ResponseScheduled
<1>13. WriteTurnHasWork'
  <2> SUFFICES ASSUME WritesForced PROVE writeQueue # <<>>
    BY <1>3, Zenon DEF WriteTurnHasWork
  <2>1. writeQueue \in Seq(WriteEntry) /\ pendingRowOps > 0 => writeQueue # <<>>
    BY RowOpsFinite DEF RowOpsCounted, TypeOK
  <2>2. Len(writeQueue) > writeHighThreshold => writeQueue # <<>>
    BY BufferAssumption
  <2> QED BY <2>1, <2>2, Zenon DEF WritesForced, TypeOK
<1> QED BY <1>7, <1>9, <1>10, <1>11, <1>12, <1>13, Zenon

\* Serving a write or a row operation: the entry at position i leaves.
LEMMA ServeWriteInv ==
  ASSUME Inv, checkDrainDone, UNCHANGED <<retryRdReq, held>>,
         NEW i \in DOMAIN writeQueue, ServeWrite(i)
  PROVE  Inv'
<1> USE DEF Inv
<1> DEFINE q == writeQueue
           e == writeQueue[i]
<1>1. /\ q \in Seq(WriteEntry) /\ Len(q) \in Nat /\ i \in 1..Len(q)
      /\ DOMAIN q = 1..Len(q) /\ e \in WriteEntry
  BY DEF TypeOK
<1>2. RankOf[e.burst] \in Ranks
  BY <1>1, AddressAssumption, Zenon DEF WriteEntry
<1>3. /\ writeQueue' = erase(q, i)
      /\ isInWriteQueue' = isInWriteQueue \ {e.burst}
      /\ IF e.rowop
           THEN pendingRowOps' = pendingRowOps - 1 /\ UNCHANGED writesThisTime
           ELSE /\ writesThisTime' = IF writesThisTime < minWritesPerSwitch
                                       THEN writesThisTime + 1 ELSE writesThisTime
                /\ UNCHANGED pendingRowOps
      /\ activeRank' = RankOf[e.burst]
      /\ busState' = IF BackToReads(writeQueue', pendingRowOps', writesThisTime')
                       THEN "WRITE_TO_READ" ELSE "WRITE"
      /\ nextReqEvent' = TRUE
      /\ UNCHANGED <<readQueue, respQueue, respondEvent, helper, outstanding,
                     drainState>>
  BY Zenon DEF ServeWrite, Reschedule, requests, doDRAMAccess, CountWrite, popWrite
<1>4. retryWrReq' \in BOOLEAN
  BY Zenon DEF ServeWrite, Reschedule
<1>5. /\ writeQueue' \in Seq(WriteEntry) /\ Len(writeQueue') = Len(q) - 1
      /\ \A j \in 1..(Len(q) - 1) : writeQueue'[j] = IF j < i THEN q[j] ELSE q[j + 1]
  BY <1>1, <1>3, EraseProperties, Zenon
<1>6. /\ refreshState' \in [Ranks -> {"REF_IDLE", "REF_DRAIN", "REF_PRE", "REF_RUN"}]
      /\ RefreshWaitIsWoken' /\ NoLostWakeup'
  BY <1>3, CheckDrainDoneWakes, Zenon DEF RefreshWaitIsWoken, NoLostWakeup
<1>7. writesThisTime' \in 0..minWritesPerSwitch
  <2>1. writesThisTime \in 0..minWritesPerSwitch
    BY Zenon DEF TypeOK
  <2>2. minWritesPerSwitch \in Nat
    BY BufferAssumption, Zenon
  <2>3. \/ writesThisTime' = writesThisTime
        \/ writesThisTime < minWritesPerSwitch /\ writesThisTime' = writesThisTime + 1
    BY <1>3, Zenon
  <2> HIDE DEF Inv
  <2> QED BY <2>1, <2>2, <2>3
<1>8. RowOpsCounted' /\ pendingRowOps' \in Nat
  <2>1. /\ pendingRowOps = Cardinality(RowOpsIn(q))
        /\ Cardinality(RowOpsIn(writeQueue')) =
             IF e.rowop THEN pendingRowOps - 1 ELSE pendingRowOps
    BY <1>1, <1>3, RowOpsRemove, Zenon DEF RowOpsCounted
  <2>2. pendingRowOps' = Cardinality(RowOpsIn(writeQueue'))
    BY <1>3, <2>1, Zenon
  <2>3. Cardinality(RowOpsIn(writeQueue')) \in Nat
    BY <1>5, RowOpsFinite, Zenon
  <2> QED BY <2>2, <2>3, Zenon DEF RowOpsCounted
<1>9. TypeOK' /\ HelperWaits'
  <2>1. isInWriteQueue' \subseteq Bursts
    BY <1>3, Zenon DEF TypeOK
  <2> HIDE DEF e, q
  <2> QED BY <1>2, <1>3, <1>4, <1>5, <1>6, <1>7, <1>8, <2>1, Zenon DEF TypeOK, HelperWaits
<1>10. WriteTurnHasWork'
  <2> SUFFICES ASSUME ~BackToReads(writeQueue', pendingRowOps', writesThisTime')
               PROVE  writeQueue' # <<>>
    BY <1>3, Zenon DEF WriteTurnHasWork
  <2>1. pendingRowOps' # 0 => writeQueue' # <<>>
    BY <1>5, <1>8, RowOpsFinite, Zenon DEF RowOpsCounted
  <2> QED BY <2>1 DEF BackToReads
<1>11. NoPhantomMerge'
  <2> SUFFICES ASSUME NEW b \in isInWriteQueue'
               PROVE  \E j \in DOMAIN writeQueue' :
                        ~writeQueue'[j].rowop /\ writeQueue'[j].burst = b
    BY Zenon DEF NoPhantomMerge
  <2>1. b \in isInWriteQueue /\ b # e.burst
    BY <1>3, Zenon
  <2>2. PICK j \in 1..Len(q) : ~q[j].rowop /\ q[j].burst = b
    BY <1>1, <2>1, Zenon DEF NoPhantomMerge
  <2>3. j # i
    BY <2>1, <2>2, Zenon
  <2>4. DOMAIN writeQueue' = 1..(Len(q) - 1)
    BY <1>5
  <2>5. CASE j < i
    <3>1. j \in 1..(Len(q) - 1) /\ writeQueue'[j] = q[j]
      BY <1>1, <1>5, <2>5
    <3> QED BY <2>2, <2>4, <3>1, Zenon
  <2>6. CASE ~(j < i)
    <3>1. j - 1 \in 1..(Len(q) - 1) /\ ~(j - 1 < i) /\ (j - 1) + 1 = j
      BY <1>1, <2>3, <2>6
    <3>2. writeQueue'[j - 1] = q[j]
      BY <1>5, <3>1, Zenon
    <3> QED BY <2>2, <2>4, <3>1, <3>2, Zenon
  <2> QED BY <2>5, <2>6, Zenon
<1>12. WithinBuffers' /\ ResponseScheduled'
  BY <1>1, <1>3, <1>5, BufferAssumption, SMTT(30) DEF WithinBuffers, ResponseScheduled
<1> QED BY <1>6, <1>8, <1>9, <1>10, <1>11, <1>12, Zenon

----------------------------------------------------------------------------
(* The theorems about the invariant *)

\* Every step of the controller, and every stuttering step, preserves it.
LEMMA NextInv == Inv /\ [Next]_vars => Inv'
<1> SUFFICES ASSUME Inv, [Next]_vars PROVE Inv'
  BY Zenon
<1>1. CASE \E pkt \in Packet : Send(pkt)
  BY <1>1, RecvInv, Zenon DEF Send
<1>2. CASE Resend
  <2>1. held \in Packet
    BY <1>2, Zenon DEF Resend, Inv, TypeOK
  <2> QED BY <1>2, <2>1, RecvInv, Zenon DEF Resend
<1>3. CASE processRespondEvent
  BY <1>3, RespondInv, Zenon
<1>4. CASE processNextReqEvent
  <2>1. checkDrainDone /\ UNCHANGED <<retryRdReq, held>>
    BY <1>4, Zenon DEF processNextReqEvent
  <2>2. CASE AllRanksBusy \/ NothingToDo \/ NoReadToFreeRank \/ NoWriteToFreeRank
    BY <2>1, <2>2, EarlyReturnInv, Zenon
  <2>3. CASE StartWrites
    BY <2>1, <2>3, StartWritesInv
  <2>4. CASE \E i \in DOMAIN readQueue : ServeRead(i)
    BY <2>1, <2>4, ServeReadInv
  <2>5. CASE \E i \in DOMAIN writeQueue : ServeWrite(i)
    BY <2>1, <2>5, ServeWriteInv, Zenon
  <2> QED BY <1>4, <2>2, <2>3, <2>4, <2>5, Zenon DEF processNextReqEvent
<1>5. CASE \E r \in Ranks : refreshDue(r) \/ refreshPrecharge(r) \/ refreshDone(r)
  BY <1>5, RefreshInv
<1>6. CASE drain \/ drainResume
  BY <1>6, DrainInv
<1>7. CASE UNCHANGED vars
  <2>1. TypeOK' /\ HelperWaits'
    BY <1>7 DEF vars, Inv, TypeOK, HelperWaits
  <2>2. RowOpsCounted' /\ WriteTurnHasWork' /\ RefreshWaitIsWoken' /\ NoPhantomMerge'
    BY <1>7 DEF vars, Inv, RowOpsCounted, RowOpsIn, WriteTurnHasWork,
                RefreshWaitIsWoken, NoPhantomMerge
  <2>3. NoLostWakeup' /\ WithinBuffers' /\ ResponseScheduled'
    BY <1>7 DEF vars, Inv, NoLostWakeup, isAvailable, WritesDue, WithinBuffers,
                ResponseScheduled
  <2> QED BY <2>1, <2>2, <2>3, Zenon DEF Inv
<1> QED BY <1>1, <1>2, <1>3, <1>4, <1>5, <1>6, <1>7, Zenon DEF Next

\* The invariant holds in every reachable state.
THEOREM Invariance == Spec => []Inv
BY InitInv, NextInv, PTL DEF Spec

\* Every variable of the controller keeps its type.
THEOREM TypeCorrect == Spec => []TypeOK
<1>1. Inv => TypeOK
  BY Zenon DEF Inv
<1> QED BY <1>1, Invariance, PTL

\* pendingRowOps is the number of row operations in the write queue.
THEOREM RowOpsAlwaysCounted == Spec => []RowOpsCounted
<1>1. Inv => RowOpsCounted
  BY Zenon DEF Inv
<1> QED BY <1>1, Invariance, PTL

\* chooseNext is never called with an empty write queue.
THEOREM WriteTurnsHaveWork == Spec => []WriteTurnHasWork
<1>1. Inv => WriteTurnHasWork
  BY Zenon DEF Inv
<1> QED BY <1>1, Invariance, PTL

\* The request event is never lost while the controller has something to do.
THEOREM WakeupsNeverLost == Spec => []NoLostWakeup
<1>1. Inv => NoLostWakeup
  BY DEF Inv
<1> QED BY <1>1, Invariance, PTL

\* A rank that waits for the request in progress is woken by it.
THEOREM RefreshAlwaysWoken == Spec => []RefreshWaitIsWoken
<1>1. Inv => RefreshWaitIsWoken
  BY Zenon DEF Inv
<1> QED BY <1>1, Invariance, PTL

\* A write is only merged into a write that is still queued.
THEOREM MergesAreReal == Spec => []NoPhantomMerge
<1>1. Inv => NoPhantomMerge
  BY DEF Inv
<1> QED BY <1>1, Invariance, PTL

\* The read and write buffers keep their configured sizes.
THEOREM BuffersNeverOverflow == Spec => []WithinBuffers
<1>1. Inv => WithinBuffers
  BY DEF Inv
<1> QED BY <1>1, Invariance, PTL

\* The response event is scheduled exactly while an answer waits.
THEOREM ResponsesScheduled == Spec => []ResponseScheduled
<1>1. Inv => ResponseScheduled
  BY DEF Inv
<1> QED BY <1>1, Invariance, PTL

----------------------------------------------------------------------------
(* Draining, and the protocol between the request loop and the ranks *)

\* A step that reports the controller drained leaves no packet in any queue.
LEMMA DrainedStep ==
  ASSUME Inv, [Next]_vars, drainState # "Drained", drainState' = "Drained"
  PROVE  readQueue' = <<>> /\ writeQueue' = <<>> /\ respQueue' = <<>>
<1>1. CASE (\E pkt \in Packet : Send(pkt)) \/ Resend
  BY <1>1, Zenon DEF Send, Resend, recvTimingReq
<1>2. CASE processRespondEvent
  BY <1>2, Zenon DEF processRespondEvent
<1>3. CASE processNextReqEvent
  <2>1. NothingToDo
    BY <1>3, Zenon DEF processNextReqEvent, AllRanksBusy, StartWrites, NoReadToFreeRank,
                ServeRead, NoWriteToFreeRank, ServeWrite
  <2>2. drainState = "Draining" /\ respQueue = <<>>
    BY <2>1, Zenon DEF NothingToDo
  <2>3. readQueue = <<>> /\ writeQueue = <<>>
    BY <2>1, <2>2, Zenon DEF NothingToDo, WritesDue
  <2> QED BY <2>1, <2>2, <2>3, Zenon DEF NothingToDo, Pause, queues
<1>4. CASE \E r \in Ranks : refreshDue(r) \/ refreshPrecharge(r) \/ refreshDone(r)
  BY <1>4, Zenon DEF refreshDue, refreshPrecharge, refreshDone
<1>5. CASE drain
  BY <1>5, Zenon DEF drain, queues
<1>6. CASE drainResume
  BY <1>6, Zenon DEF drainResume
<1>7. CASE UNCHANGED vars
  BY <1>7, Zenon DEF vars
<1> QED BY <1>1, <1>2, <1>3, <1>4, <1>5, <1>6, <1>7 DEF Next

\* The drain manager is told of an empty controller only.
THEOREM DrainsCompletely == Spec => DrainedMeansEmpty
<1>1. Inv /\ [Next]_vars =>
        [drainState # "Drained" /\ drainState' = "Drained" =>
           readQueue' = <<>> /\ writeQueue' = <<>> /\ respQueue' = <<>>]_vars
  BY DrainedStep
<1> QED BY <1>1, Invariance, PTL DEF Spec, DrainedMeansEmpty

\* A step of the request loop is a step of the request loop of the protocol.
LEMMA RequestLoopStep ==
  ASSUME TypeOK, processNextReqEvent
  PROVE  Protocol!processNextReqEvent
<1>1. /\ nextReqEvent
      /\ refreshState' = [r \in Ranks |-> IF refreshState[r] = "REF_DRAIN"
                                            THEN "REF_PRE" ELSE refreshState[r]]
  BY Zenon DEF processNextReqEvent, checkDrainDone
<1>2. CASE AllRanksBusy \/ NothingToDo \/ NoReadToFreeRank \/ NoWriteToFreeRank
  <2>1. activeRank' = activeRank /\ nextReqEvent' \in BOOLEAN
    BY <1>2, Zenon DEF AllRanksBusy, NothingToDo, NoReadToFreeRank, NoWriteToFreeRank, Pause
  <2> QED BY <1>1, <2>1, Zenon DEF Protocol!processNextReqEvent
<1>3. CASE StartWrites
  <2>1. activeRank' = activeRank /\ nextReqEvent' \in BOOLEAN
    BY <1>3, Zenon DEF StartWrites, Reschedule
  <2> QED BY <1>1, <2>1, Zenon DEF Protocol!processNextReqEvent
<1>4. CASE \E i \in DOMAIN readQueue : ServeRead(i)
  <2>1. PICK i \in DOMAIN readQueue : ServeRead(i)
    BY <1>4
  <2>2. RankOf[readQueue[i].burst] \in Ranks
    <3>1. readQueue \in Seq(ReadEntry)
      BY Zenon DEF TypeOK
    <3>2. readQueue[i] \in ReadEntry
      BY <3>1
    <3> QED BY <3>2, AddressAssumption, Zenon DEF ReadEntry
  <2>3. isAvailable(RankOf[readQueue[i].burst])
    BY <2>1, Zenon DEF ServeRead, chooseNext
  <2>4. activeRank' = RankOf[readQueue[i].burst] /\ nextReqEvent' = TRUE
    BY <2>1, Zenon DEF ServeRead, Reschedule
  <2> QED BY <1>1, <2>2, <2>3, <2>4, Zenon
          DEF Protocol!processNextReqEvent, Protocol!isAvailable, isAvailable
<1>5. CASE \E i \in DOMAIN writeQueue : ServeWrite(i)
  <2>1. PICK i \in DOMAIN writeQueue : ServeWrite(i)
    BY <1>5
  <2>2. RankOf[writeQueue[i].burst] \in Ranks
    <3>1. writeQueue \in Seq(WriteEntry)
      BY Zenon DEF TypeOK
    <3>2. writeQueue[i] \in WriteEntry
      BY <3>1
    <3> QED BY <3>2, AddressAssumption, Zenon DEF WriteEntry
  <2>3. isAvailable(RankOf[writeQueue[i].burst])
    BY <2>1, Zenon DEF ServeWrite, chooseNext
  <2>4. activeRank' = RankOf[writeQueue[i].burst] /\ nextReqEvent' = TRUE
    BY <2>1, Zenon DEF ServeWrite, Reschedule
  <2> QED BY <1>1, <2>2, <2>3, <2>4, Zenon
          DEF Protocol!processNextReqEvent, Protocol!isAvailable, isAvailable
<1> QED BY <1>2, <1>3, <1>4, <1>5 DEF processNextReqEvent

\* A step outside the two loops schedules the request event, or leaves the
\* protocol alone.
LEMMA OutsideStep ==
  ASSUME TypeOK,
         nextReqEvent' \in {TRUE, nextReqEvent},
         UNCHANGED <<refreshState, activeRank>>
  PROVE  [Protocol!Next]_(Protocol!vars)
<1>1. CASE nextReqEvent' = nextReqEvent
  BY <1>1, Zenon DEF Protocol!vars
<1>2. CASE nextReqEvent' = TRUE /\ ~nextReqEvent
  BY <1>2, Zenon DEF Protocol!Next, Protocol!Request
<1>3. nextReqEvent \in BOOLEAN
  BY Zenon DEF TypeOK
<1> QED BY <1>1, <1>2, <1>3, Zenon

\* Every step of the controller is a step of the protocol or leaves it alone.
LEMMA ProtocolStep ==
  ASSUME Inv, [Next]_vars
  PROVE  [Protocol!Next]_(Protocol!vars)
<1> TypeOK
  BY DEF Inv
<1>1. CASE (\E pkt \in Packet : Send(pkt)) \/ Resend
  <2>1. PICK pkt : recvTimingReq(pkt)
    BY <1>1, Zenon DEF Send, Resend
  <2>2. nextReqEvent' \in {TRUE, nextReqEvent}
    BY <2>1, Zenon DEF recvTimingReq, addToReadQueue, addToWriteQueue
  <2>3. UNCHANGED <<refreshState, activeRank>>
    BY <2>1, Zenon DEF recvTimingReq, bus
  <2> QED BY <2>2, <2>3, OutsideStep, Zenon
<1>2. CASE processRespondEvent
  <2>1. UNCHANGED <<nextReqEvent, refreshState, activeRank>>
    BY <1>2, Zenon DEF processRespondEvent, bus
  <2> QED BY <2>1, Zenon DEF Protocol!vars
<1>3. CASE processNextReqEvent
  BY <1>3, RequestLoopStep, Zenon DEF Protocol!Next
<1>4. CASE \E r \in Ranks : refreshDue(r) \/ refreshPrecharge(r) \/ refreshDone(r)
  <2>1. PICK r \in Ranks : refreshDue(r) \/ refreshPrecharge(r) \/ refreshDone(r)
    BY <1>4, Zenon
  <2>2. \/ Protocol!refreshDue(r) \/ Protocol!refreshPrecharge(r)
        \/ Protocol!refreshDone(r)
    BY <2>1, Zenon DEF refreshDue, refreshPrecharge, refreshDone, bus, Protocol!refreshDue,
                Protocol!refreshPrecharge, Protocol!refreshDone
  <2> QED BY <2>2, Zenon DEF Protocol!Next
<1>5. CASE drain
  <2>1. nextReqEvent' \in {TRUE, nextReqEvent}
    <3>1. nextReqEvent' = nextReqEvent \/ nextReqEvent' = (nextReqEvent \/ writeQueue # <<>>)
      BY <1>5, Zenon DEF drain
    <3>2. nextReqEvent \in BOOLEAN
      BY Zenon DEF TypeOK
    <3> QED BY <3>1, <3>2, Zenon
  <2>2. UNCHANGED <<refreshState, activeRank>>
    BY <1>5, Zenon DEF drain, bus
  <2> QED BY <2>1, <2>2, OutsideStep, Zenon
<1>6. CASE drainResume
  <2>1. UNCHANGED <<nextReqEvent, refreshState, activeRank>>
    BY <1>6, Zenon DEF drainResume, bus
  <2> QED BY <2>1 DEF Protocol!vars
<1>7. CASE UNCHANGED vars
  BY <1>7, Zenon DEF vars, Protocol!vars
<1> QED BY <1>1, <1>2, <1>3, <1>4, <1>5, <1>6, <1>7, Zenon DEF Next

\* The controller, with all its queues, implements the refresh protocol.
THEOREM ProtocolKept == Spec => RefreshProtocol
<1>1. Init => Protocol!Init
  BY AddressAssumption DEF Init, Protocol!Init, Ranks
<1>2. Inv /\ [Next]_vars => [Protocol!Next]_(Protocol!vars)
  BY ProtocolStep, Zenon
<1> QED BY <1>1, <1>2, Invariance, PTL DEF Spec, RefreshProtocol, Protocol!Spec

----------------------------------------------------------------------------
(* Counting the bursts of a read *)

\* The bursts of a read in a queue can be counted.
LEMMA BurstsFinite ==
  ASSUME NEW r, NEW q \in Seq(ReadEntry)
  PROVE  /\ IsFiniteSet(BurstsOf(r, q)) /\ Cardinality(BurstsOf(r, q)) \in Nat
         /\ BurstsOf(r, q) \in SUBSET (1..Len(q))
<1>1. IsFiniteSet(1..Len(q)) /\ BurstsOf(r, q) \in SUBSET (1..Len(q))
  BY FS_Interval DEF BurstsOf
<1> QED BY <1>1, FS_Subset, FS_CardinalityType, Zenon

\* Pushing a burst adds one to the count of its read.
LEMMA BurstsAppend ==
  ASSUME NEW r, NEW q \in Seq(ReadEntry), NEW e \in ReadEntry
  PROVE  Cardinality(BurstsOf(r, Append(q, e))) =
           IF e.req = r THEN Cardinality(BurstsOf(r, q)) + 1
                        ELSE Cardinality(BurstsOf(r, q))
<1>1. /\ DOMAIN Append(q, e) = 1..(Len(q) + 1) /\ Append(q, e)[Len(q) + 1] = e
      /\ \A i \in 1..Len(q) : Append(q, e)[i] = q[i]
      /\ DOMAIN q = 1..Len(q) /\ Len(q) \in Nat
  BY Appended
<1>2. CASE e.req = r
  <2>1. BurstsOf(r, Append(q, e)) = BurstsOf(r, q) \cup {Len(q) + 1}
    BY <1>1, <1>2 DEF BurstsOf
  <2>2. Len(q) + 1 \notin BurstsOf(r, q)
    BY <1>1 DEF BurstsOf
  <2>3. IsFiniteSet(BurstsOf(r, q))
    BY BurstsFinite, Zenon
  <2>4. Cardinality(BurstsOf(r, q) \cup {Len(q) + 1}) = Cardinality(BurstsOf(r, q)) + 1
    BY <2>2, <2>3, FS_AddElement, Zenon
  <2> QED BY <1>2, <2>1, <2>4, Zenon
<1>3. CASE e.req # r
  <2>1. BurstsOf(r, Append(q, e)) = BurstsOf(r, q)
    BY <1>1, <1>3 DEF BurstsOf
  <2> QED BY <1>3, <2>1, Zenon
<1> QED BY <1>2, <1>3, Zenon

\* The queue c is the queue q without its position k.
Without(c, q, k) ==
  /\ Len(c) = Len(q) - 1
  /\ \A i \in 1..(Len(q) - 1) : c[i] = IF i < k THEN q[i] ELSE q[i + 1]

\* A queue without its position k has one burst less of the read that was there.
LEMMA BurstsRemove ==
  ASSUME NEW r, NEW q \in Seq(ReadEntry), NEW k \in 1..Len(q), NEW c \in Seq(ReadEntry),
         Without(c, q, k)
  PROVE  Cardinality(BurstsOf(r, c)) =
           IF q[k].req = r THEN Cardinality(BurstsOf(r, q)) - 1
                           ELSE Cardinality(BurstsOf(r, q))
<1> DEFINE n == Len(q)
           T == BurstsOf(r, q)
           U == BurstsOf(r, c)
<1>1. n \in Nat /\ k \in 1..n /\ DOMAIN q = 1..n /\ DOMAIN c = 1..(n - 1)
  BY DEF Without
<1>2. \A i \in 1..(n - 1) : c[i] = IF i < k THEN q[i] ELSE q[i + 1]
  BY Zenon DEF Without
<1>3. T \in SUBSET (1..n) /\ U \in SUBSET (1..(n - 1))
  BY <1>1, Zenon DEF BurstsOf
<1> HIDE DEF n
<1>4. ASSUME NEW i \in 1..(n - 1)
      PROVE  i \in U <=> (IF i < k THEN i ELSE i + 1) \in T
  <2>1. (IF i < k THEN i ELSE i + 1) \in 1..n
    BY <1>1
  <2>2. c[i] = q[IF i < k THEN i ELSE i + 1]
    BY <1>2, Zenon
  <2> QED BY <1>1, <2>1, <2>2, Zenon DEF BurstsOf
<1>5. k \in T <=> q[k].req = r
  BY <1>1, Zenon DEF BurstsOf
<1>8. Renumbered(n, k, T, U)
  BY <1>1, <1>3, <1>4, Zenon DEF Renumbered
<1> HIDE DEF T, U
<1>6. Cardinality(U) = IF k \in T THEN Cardinality(T) - 1 ELSE Cardinality(T)
  BY <1>8, RenumberedCount
<1>7. Cardinality(U) = IF q[k].req = r THEN Cardinality(T) - 1 ELSE Cardinality(T)
  BY <1>5, <1>6, Zenon
<1> QED BY <1>7, Zenon DEF T, U

\* All bursts of t belong to the read p.
AllOf(t, p) == \A i \in DOMAIN t : t[i].req = p

\* Pushing the bursts of one packet adds them to the count of its read.
LEMMA BurstsConcat ==
  ASSUME NEW r, NEW p, NEW q \in Seq(ReadEntry), NEW t \in Seq(ReadEntry),
         AllOf(t, p)
  PROVE  Cardinality(BurstsOf(r, q \o t)) =
           IF r = p THEN Cardinality(BurstsOf(r, q)) + Len(t)
                    ELSE Cardinality(BurstsOf(r, q))
<1> DEFINE n == Len(q)
           m == Len(t)
<1>1. /\ DOMAIN (q \o t) = 1..(n + m) /\ DOMAIN q = 1..n
      /\ DOMAIN t = 1..m /\ n \in Nat /\ m \in Nat
  BY Joined
<1>2. \A i \in 1..n : (q \o t)[i] = q[i]
  BY Joined
<1>3. ASSUME NEW i \in (n + 1)..(n + m)
      PROVE  (q \o t)[i].req = p
  <2>1. i - n \in 1..m /\ ~(i <= n) /\ i \in 1..(n + m)
    BY <1>1
  <2>2. (q \o t)[i] = t[i - n]
    BY <2>1, Joined
  <2> QED BY <1>1, <2>1, <2>2, Zenon DEF AllOf
<1> DEFINE c == q \o t
<1> HIDE DEF n, m
<1>6. /\ DOMAIN c = 1..(n + m) /\ \A i \in 1..n : c[i] = q[i]
      /\ \A i \in (n + 1)..(n + m) : c[i].req = p
      /\ \A i \in 1..(n + m) : i \in 1..n \/ i \in (n + 1)..(n + m)
      /\ 1..n \subseteq 1..(n + m) /\ (n + 1)..(n + m) \subseteq 1..(n + m)
  BY <1>1, <1>2, <1>3
<1> HIDE DEF c
<1>4. CASE r # p
  <2>1. BurstsOf(r, c) = BurstsOf(r, q)
    BY <1>1, <1>4, <1>6, Zenon DEF BurstsOf
  <2> QED BY <1>4, <2>1, Zenon DEF c
<1>5. CASE r = p
  <2> DEFINE S == BurstsOf(r, q)
             N == (n + 1)..(n + m)
  <2>1. BurstsOf(r, c) = S \cup N
    BY <1>1, <1>5, <1>6, Zenon DEF BurstsOf
  <2>2. S \cap N = {}
    BY <1>1 DEF BurstsOf
  <2>3. IsFiniteSet(S) /\ Cardinality(S) \in Nat
    BY BurstsFinite, Zenon
  <2>4. IsFiniteSet(N) /\ Cardinality(N) = m
    <3>1. n + 1 \in Int /\ n + m \in Int
      BY <1>1
    <3>2. IsFiniteSet(N) /\ Cardinality(N) = IF n + 1 > n + m THEN 0 ELSE (n + m) - (n + 1) + 1
      BY <3>1, FS_Interval, Zenon
    <3> HIDE DEF N
    <3> QED BY <1>1, <3>2
  <2> HIDE DEF S, N
  <2>5. Cardinality(S \cup N) = Cardinality(S) + Cardinality(N) - Cardinality({})
    BY <2>2, <2>3, <2>4, FS_Union
  <2>6. Cardinality(BurstsOf(r, c)) = Cardinality(S) + m
    BY <1>1, <2>1, <2>3, <2>4, <2>5, FS_EmptySet
  <2> QED BY <1>5, <2>6, Zenon DEF S, c, m
<1> QED BY <1>4, <1>5, Zenon

----------------------------------------------------------------------------
(* The bursts of every read are accounted for *)

\* A read that the port refused is not one of those waiting for their answers.
HeldWaits == held \in ReadPkt => held.req \notin outstanding

\* A step that changes no queue of reads, no helper and no answer.
LEMMA AccountedUnchanged ==
  ASSUME BurstsAccounted, UNCHANGED <<readQueue, respQueue, helper, outstanding>>
  PROVE  BurstsAccounted'
BY Zenon DEF BurstsAccounted, BurstsOf

\* An accepted read owes the bursts that were not found in the write queue.
LEMMA AcceptAccounted ==
  ASSUME Inv, BurstsAccounted, NEW pkt \in ReadPkt, pkt.req \notin outstanding,
         addToReadQueue(pkt)
  PROVE  BurstsAccounted'
<1> DEFINE e == ReadBursts(pkt)
           n == Len(pkt.pieces)
           keep == {i \in 1..n : ~foundInWrQ(pkt.pieces[i])}
           missed == Kept(keep, e)
<1>1. /\ n \in 1..2 /\ DOMAIN pkt.pieces = 1..n /\ pkt.req \in Reqs
      /\ \A i \in 1..n : pkt.pieces[i].burst \in Bursts
  BY SpanType, Zenon DEF ReadPkt
<1>2. \A i \in 1..n : [req |-> pkt.req, burst |-> pkt.pieces[i].burst] \in ReadEntry
  BY <1>1, Zenon DEF ReadEntry
<1>3. /\ e \in Seq(ReadEntry) /\ Len(e) = n /\ DOMAIN e = 1..n
      /\ \A i \in 1..n : e[i].req = pkt.req
  BY <1>1, <1>2 DEF ReadBursts
<1> HIDE DEF e
<1>4. /\ missed \in Seq(ReadEntry) /\ Len(missed) <= n /\ Len(missed) \in Nat
      /\ AllOf(missed, pkt.req)
  <2>1. keep \in SUBSET DOMAIN e /\ Len(e) \in 1..2
    BY <1>1, <1>3, Zenon
  <2> HIDE DEF keep
  <2>2. /\ missed \in Seq(ReadEntry) /\ Len(missed) <= Len(e)
        /\ \A i \in DOMAIN missed : \E j \in keep : missed[i] = e[j]
    BY <1>3, <2>1, KeptProperties
  <2> HIDE DEF missed
  <2> QED BY <1>3, <2>1, <2>2 DEF AllOf
<1>5. /\ readQueue' = readQueue \o missed /\ respQueue' = respQueue
      /\ IF missed = <<>>
           THEN UNCHANGED <<helper, outstanding>>
           ELSE /\ helper' =
                     [helper EXCEPT ![pkt.req] =
                        IF n > 1
                          THEN [burstCount |-> n,
                                burstsServiced |-> n - Len(missed)]
                          ELSE NoHelper]
                /\ outstanding' = outstanding \cup {pkt.req}
  BY Zenon DEF addToReadQueue, BurstHelper, e
<1> HIDE DEF n, missed
<1>6. readQueue \in Seq(ReadEntry) /\ respQueue \in Seq(ReadEntry)
  BY Zenon DEF Inv, TypeOK
<1>7. CASE missed = <<>>
  <2>1. readQueue' = readQueue
    BY <1>5, <1>6, <1>7
  <2> QED BY <1>5, <1>7, <2>1, AccountedUnchanged, Zenon
<1>8. CASE missed # <<>>
  <2> SUFFICES ASSUME NEW r \in Reqs
               PROVE  Cardinality(BurstsOf(r, readQueue')) + Cardinality(BurstsOf(r, respQueue'))
                        = IF r \notin outstanding' THEN 0
                          ELSE IF helper'[r].burstCount = 0 THEN 1
                          ELSE helper'[r].burstCount - helper'[r].burstsServiced
    BY Zenon DEF BurstsAccounted, BurstsOf
  <2>1. Cardinality(BurstsOf(r, readQueue')) =
           IF r = pkt.req THEN Cardinality(BurstsOf(r, readQueue)) + Len(missed)
                          ELSE Cardinality(BurstsOf(r, readQueue))
    BY <1>4, <1>5, <1>6, BurstsConcat
  <2>2. Cardinality(BurstsOf(r, readQueue)) \in Nat /\ Cardinality(BurstsOf(r, respQueue)) \in Nat
    BY <1>6, BurstsFinite, Zenon
  <2>3. Cardinality(BurstsOf(r, readQueue)) + Cardinality(BurstsOf(r, respQueue))
                        = IF r \notin outstanding THEN 0
                          ELSE IF helper[r].burstCount = 0 THEN 1
                          ELSE helper[r].burstCount - helper[r].burstsServiced
    BY Zenon DEF BurstsAccounted
  <2>4. helper \in [Reqs -> [burstCount : 0..2, burstsServiced : 0..2]]
    BY Zenon DEF Inv, TypeOK
  <2>5. CASE r # pkt.req
    <3>1. helper'[r] = helper[r] /\ (r \in outstanding' <=> r \in outstanding)
      BY <1>1, <1>5, <1>8, <2>4, <2>5, Zenon
    <3>2. Cardinality(BurstsOf(r, readQueue')) = Cardinality(BurstsOf(r, readQueue))
      BY <2>1, <2>5, Zenon
    <3> QED BY <1>5, <2>3, <3>1, <3>2, Zenon
  <2>6. CASE r = pkt.req
    <3>1. r \in outstanding' /\ r \notin outstanding
      BY <1>5, <1>8, <2>6, Zenon
    <3>2. Cardinality(BurstsOf(r, readQueue)) = 0 /\ Cardinality(BurstsOf(r, respQueue)) = 0
      <4>1. ASSUME NEW a \in Nat, NEW b \in Nat, a + b = 0 PROVE a = 0 /\ b = 0
        BY <4>1
      <4>2. Cardinality(BurstsOf(r, readQueue)) + Cardinality(BurstsOf(r, respQueue)) = 0
        BY <2>3, <3>1, Zenon
      <4> QED BY <2>2, <4>1, <4>2, Zenon
    <3>3. Len(missed) > 0
      BY <1>4, <1>8
    <3>4. /\ Cardinality(BurstsOf(r, readQueue')) = 0 + Len(missed)
          /\ Cardinality(BurstsOf(r, respQueue')) = 0
      BY <1>5, <2>1, <2>6, <3>2, Zenon
    <3>5. helper'[r] = IF n > 1 THEN [burstCount |-> n, burstsServiced |-> n - Len(missed)]
                                ELSE NoHelper
      BY <1>5, <1>8, <2>4, <2>6, Zenon
    <3>6. CASE n > 1
      <4>1. helper'[r].burstCount = n /\ helper'[r].burstsServiced = n - Len(missed)
        <5>1. helper'[r] = [burstCount |-> n, burstsServiced |-> n - Len(missed)]
          BY <3>5, <3>6, Zenon
        <5> QED BY <5>1
      <4>2. (0 + Len(missed)) + 0 = n - (n - Len(missed)) /\ n # 0
        BY <1>1, <1>4, <3>6
      <4> QED BY <3>1, <3>4, <4>1, <4>2, Zenon
    <3>7. CASE n = 1
      <4>1. ~(n > 1) /\ (0 + Len(missed)) + 0 = 1
        <5>1. Len(missed) \in Nat /\ Len(missed) <= 1
          BY <1>4, <3>7
        <5>2. ASSUME NEW x \in Nat, NEW y, y = 1, x <= 1, x > 0
              PROVE  ~(y > 1) /\ (0 + x) + 0 = 1
          BY <5>2
        <5> QED BY <3>3, <3>7, <5>1, <5>2, Zenon
      <4>2. helper'[r].burstCount = 0
        <5>1. helper'[r] = NoHelper
          BY <3>5, <4>1, Zenon
        <5> QED BY <5>1 DEF NoHelper
      <4> QED BY <3>1, <3>4, <4>1, <4>2, Zenon
    <3>8. n > 1 \/ n = 1
      BY <1>1
    <3> QED BY <3>6, <3>7, <3>8, Zenon
  <2> QED BY <2>5, <2>6, Zenon
<1> QED BY <1>7, <1>8, Zenon

\* A served burst moves from the read queue to the response queue.
LEMMA ServeAccounted ==
  ASSUME Inv, BurstsAccounted, NEW i \in DOMAIN readQueue, ServeRead(i)
  PROVE  BurstsAccounted'
<1> DEFINE q == readQueue
           e == readQueue[i]
<1>1. /\ q \in Seq(ReadEntry) /\ i \in 1..Len(q) /\ e \in ReadEntry
      /\ respQueue \in Seq(ReadEntry)
  BY DEF Inv, TypeOK
<1>2. /\ readQueue' = erase(q, i) /\ respQueue' = Append(respQueue, e)
      /\ UNCHANGED <<helper, outstanding>>
  BY Zenon DEF ServeRead, requests
<1>3. erase(q, i) \in Seq(ReadEntry) /\ Without(erase(q, i), q, i)
  BY <1>1, EraseProperties, Zenon DEF Without
<1> SUFFICES ASSUME NEW r \in Reqs
             PROVE  Cardinality(BurstsOf(r, readQueue')) + Cardinality(BurstsOf(r, respQueue'))
                      = Cardinality(BurstsOf(r, readQueue)) + Cardinality(BurstsOf(r, respQueue))
  BY <1>2, Zenon DEF BurstsAccounted, BurstsOf
<1>4. Cardinality(BurstsOf(r, readQueue')) =
         IF e.req = r THEN Cardinality(BurstsOf(r, q)) - 1 ELSE Cardinality(BurstsOf(r, q))
  BY <1>1, <1>2, <1>3, BurstsRemove
<1>5. Cardinality(BurstsOf(r, respQueue')) =
         IF e.req = r THEN Cardinality(BurstsOf(r, respQueue)) + 1
                      ELSE Cardinality(BurstsOf(r, respQueue))
  BY <1>1, <1>2, BurstsAppend
<1>6. Cardinality(BurstsOf(r, q)) \in Nat /\ Cardinality(BurstsOf(r, respQueue)) \in Nat
  BY <1>1, BurstsFinite, Zenon
<1> QED BY <1>4, <1>5, <1>6

\* The answered burst leaves the response queue, and its read waits for one less.
LEMMA RespondAccounted ==
  ASSUME Inv, BurstsAccounted, processRespondEvent
  PROVE  BurstsAccounted'
<1> DEFINE q == respQueue
           p == Head(respQueue).req
<1>1. q \in Seq(ReadEntry) /\ q # <<>> /\ readQueue \in Seq(ReadEntry)
  BY Zenon DEF processRespondEvent, Inv, ResponseScheduled, TypeOK
<1>2. Head(q) \in ReadEntry /\ Head(q) = q[1] /\ 1 \in 1..Len(q)
  BY <1>1
<1>3. p \in Reqs /\ q[1].req = p
  BY <1>2, Zenon DEF ReadEntry
<1>4. Tail(q) \in Seq(ReadEntry) /\ Without(Tail(q), q, 1)
  BY <1>1 DEF Without
<1>5. /\ respQueue' = Tail(q) /\ readQueue' = readQueue
      /\ IF helper[p].burstCount # 0
           THEN IF helper[p].burstsServiced + 1 = helper[p].burstCount
                  THEN /\ helper' = [helper EXCEPT ![p] = NoHelper]
                       /\ outstanding' = outstanding \ {p}
                  ELSE /\ helper' = [helper EXCEPT ![p].burstsServiced = @ + 1]
                       /\ UNCHANGED outstanding
           ELSE /\ outstanding' = outstanding \ {p}
                /\ UNCHANGED helper
  BY Zenon DEF processRespondEvent, popResponse
<1> SUFFICES ASSUME NEW r \in Reqs
             PROVE  Cardinality(BurstsOf(r, readQueue')) + Cardinality(BurstsOf(r, respQueue'))
                      = IF r \notin outstanding' THEN 0
                        ELSE IF helper'[r].burstCount = 0 THEN 1
                        ELSE helper'[r].burstCount - helper'[r].burstsServiced
  BY Zenon DEF BurstsAccounted, BurstsOf
<1>6. Cardinality(BurstsOf(r, respQueue')) =
         IF p = r THEN Cardinality(BurstsOf(r, q)) - 1 ELSE Cardinality(BurstsOf(r, q))
  <2> DEFINE c == Tail(q)
  <2>1. /\ c \in Seq(ReadEntry) /\ Without(c, q, 1) /\ q \in Seq(ReadEntry)
        /\ 1 \in 1..Len(q) /\ respQueue' = c
    BY <1>1, <1>2, <1>4, <1>5, Zenon
  <2> HIDE DEF c, p, q
  <2>2. Cardinality(BurstsOf(r, c)) =
          IF q[1].req = r THEN Cardinality(BurstsOf(r, q)) - 1 ELSE Cardinality(BurstsOf(r, q))
    BY <2>1, BurstsRemove
  <2> QED BY <1>3, <2>1, <2>2, Zenon
<1>7. Cardinality(BurstsOf(r, readQueue)) \in Nat /\ Cardinality(BurstsOf(r, q)) \in Nat
  BY <1>1, BurstsFinite, Zenon
<1>8. Cardinality(BurstsOf(r, readQueue)) + Cardinality(BurstsOf(r, q))
        = IF r \notin outstanding THEN 0
          ELSE IF helper[r].burstCount = 0 THEN 1
          ELSE helper[r].burstCount - helper[r].burstsServiced
  BY Zenon DEF BurstsAccounted
<1>9. helper \in [Reqs -> [burstCount : 0..2, burstsServiced : 0..2]]
  BY Zenon DEF Inv, TypeOK
<1> HIDE DEF p, q
<1>10. CASE r # p
  <2>1. helper'[r] = helper[r] /\ (r \in outstanding' <=> r \in outstanding)
    BY <1>3, <1>5, <1>9, <1>10, Zenon
  <2> QED BY <1>5, <1>6, <1>8, <1>10, <2>1, Zenon
<1>11. CASE r = p
  <2>1. Cardinality(BurstsOf(r, q)) # 0
    <3>1. 1 \in BurstsOf(r, q)
      BY <1>1, <1>2, <1>3, <1>11 DEF BurstsOf
    <3>2. IsFiniteSet(BurstsOf(r, q))
      BY <1>1, BurstsFinite, Zenon
    <3> QED BY <3>1, <3>2, FS_EmptySet, Zenon
  <2>2. r \in outstanding
    BY <1>7, <1>8, <2>1
  <2>3. helper[r] \in [burstCount : 0..2, burstsServiced : 0..2]
    BY <1>9, Zenon
  <2>4. CASE helper[p].burstCount = 0
    BY <1>5, <1>6, <1>7, <1>8, <1>11, <2>1, <2>2, <2>4
  <2>5. CASE helper[p].burstCount # 0 /\ helper[p].burstsServiced + 1 = helper[p].burstCount
    <3>1. r \notin outstanding'
      BY <1>5, <1>11, <2>5, Zenon
    <3>2. helper[r].burstCount - helper[r].burstsServiced = 1
      BY <1>11, <2>3, <2>5
    <3> QED BY <1>5, <1>6, <1>7, <1>8, <1>11, <2>1, <2>2, <2>5, <3>1, <3>2
  <2>6. CASE helper[p].burstCount # 0 /\ helper[p].burstsServiced + 1 # helper[p].burstCount
    <3>1. /\ r \in outstanding' /\ helper'[r].burstCount = helper[r].burstCount
          /\ helper'[r].burstsServiced = helper[r].burstsServiced + 1
      BY <1>5, <1>9, <1>11, <2>2, <2>3, <2>6
    <3> QED BY <1>5, <1>6, <1>7, <1>8, <1>11, <2>1, <2>2, <2>3, <2>6, <3>1
  <2> QED BY <2>4, <2>5, <2>6, Zenon
<1> QED BY <1>10, <1>11, Zenon

\* Every step keeps the account, and a refused read stays out of it.
LEMMA ReadsStep ==
  ASSUME Inv, BurstsAccounted, HeldWaits, [Next]_vars
  PROVE  BurstsAccounted' /\ HeldWaits'
<1>1. ASSUME NEW pkt \in Packet, recvTimingReq(pkt),
             pkt.cmd = "read" => pkt.req \notin outstanding
      PROVE  BurstsAccounted' /\ HeldWaits'
  <2>0. /\ pkt.cmd = "read" <=> pkt \in ReadPkt
        /\ NoPkt \notin ReadPkt
    BY Zenon DEF Packet, ReadPkt, WritePkt, RowOpPkt, NoPkt
  <2>1. CASE /\ pkt.cmd = "read" /\ ~readQueueFull(dram_pkt_count(pkt))
             /\ addToReadQueue(pkt) /\ held' = NoPkt
    BY <1>1, <2>0, <2>1, AcceptAccounted, Zenon DEF HeldWaits
  <2>2. CASE held' = pkt /\ UNCHANGED <<queues, requests>>
    <3>1. UNCHANGED <<readQueue, respQueue, helper, outstanding>>
      BY <2>2, Zenon DEF queues, requests
    <3> QED BY <1>1, <2>0, <2>2, <3>1, AccountedUnchanged, Zenon DEF HeldWaits
  <2>3. CASE addToWriteQueue(pkt) /\ held' = NoPkt
    <3>1. UNCHANGED <<readQueue, respQueue, helper, outstanding>>
      BY <2>3, Zenon DEF addToWriteQueue
    <3> QED BY <2>0, <2>3, <3>1, AccountedUnchanged, Zenon DEF HeldWaits
  <2> QED BY <1>1, <2>1, <2>2, <2>3, Zenon DEF recvTimingReq
<1>2. CASE \E pkt \in Packet : Send(pkt)
  BY <1>1, <1>2, Zenon DEF Send
<1>3. CASE Resend
  <2>1. held \in Packet /\ recvTimingReq(held)
    BY <1>3, Zenon DEF Resend, Inv, TypeOK
  <2>2. held.cmd = "read" => held.req \notin outstanding
    BY <2>1, Zenon DEF HeldWaits, Packet, ReadPkt, WritePkt, RowOpPkt
  <2> QED BY <1>1, <2>1, <2>2, Zenon
<1>4. CASE processRespondEvent
  <2>1. held' = held /\ outstanding' \subseteq outstanding
    BY <1>4, Zenon DEF processRespondEvent
  <2> QED BY <1>4, <2>1, RespondAccounted, Zenon DEF HeldWaits
<1>5. CASE processNextReqEvent
  <2>0. held' = held
    BY <1>5, Zenon DEF processNextReqEvent
  <2>1. CASE \E i \in DOMAIN readQueue : ServeRead(i)
    <3>1. outstanding' = outstanding
      BY <2>1, Zenon DEF ServeRead, requests
    <3> QED BY <2>0, <2>1, <3>1, ServeAccounted, Zenon DEF HeldWaits
  <2>2. CASE ~ \E i \in DOMAIN readQueue : ServeRead(i)
    <3>1. UNCHANGED <<readQueue, respQueue, helper, outstanding>>
      <4>1. \/ AllRanksBusy \/ NothingToDo \/ StartWrites \/ NoReadToFreeRank
            \/ NoWriteToFreeRank \/ \E i \in DOMAIN writeQueue : ServeWrite(i)
        BY <1>5, <2>2, Zenon DEF processNextReqEvent
      <4>2. CASE AllRanksBusy
        BY <4>2, Zenon DEF AllRanksBusy, Pause, queues, requests
      <4>3. CASE NothingToDo
        BY <4>3, Zenon DEF NothingToDo, Pause, queues, requests
      <4>4. CASE StartWrites
        BY <4>4, Zenon DEF StartWrites, Pause, queues, requests
      <4>5. CASE NoReadToFreeRank
        BY <4>5, Zenon DEF NoReadToFreeRank, Pause, queues, requests
      <4>6. CASE NoWriteToFreeRank
        BY <4>6, Zenon DEF NoWriteToFreeRank, Pause, queues, requests
      <4>7. CASE \E i \in DOMAIN writeQueue : ServeWrite(i)
        BY <4>7, Zenon DEF ServeWrite, Pause, queues, requests
      <4> QED BY <4>1, <4>2, <4>3, <4>4, <4>5, <4>6, <4>7, Zenon
    <3> QED BY <2>0, <3>1, AccountedUnchanged, Zenon DEF HeldWaits
  <2> QED BY <2>1, <2>2, Zenon
<1>6. CASE \/ \E r \in Ranks : refreshDue(r) \/ refreshPrecharge(r) \/ refreshDone(r)
           \/ drain \/ drainResume \/ UNCHANGED vars
  <2>1. UNCHANGED <<readQueue, respQueue, helper, outstanding, held>>
    BY <1>6, Zenon DEF refreshDue, refreshPrecharge, refreshDone, drain, drainResume, vars,
                queues, requests
  <2> QED BY <2>1, AccountedUnchanged, Zenon DEF HeldWaits
<1> QED BY <1>2, <1>3, <1>4, <1>5, <1>6, Zenon DEF Next

\* Each accepted read is answered exactly once (dram_ctrl.cc:498, 704): the bursts
\* it still has queued are those its BurstHelper waits for.
THEOREM ReadsAnsweredOnce == Spec => []BurstsAccounted
<1>1. Init => BurstsAccounted /\ HeldWaits
  <2> SUFFICES ASSUME Init PROVE BurstsAccounted /\ HeldWaits
    BY Zenon
  <2>1. \A r : BurstsOf(r, readQueue) = {} /\ BurstsOf(r, respQueue) = {}
    BY DEF Init, BurstsOf
  <2>2. BurstsAccounted
    <3> SUFFICES ASSUME NEW r \in Reqs
                 PROVE  Cardinality(BurstsOf(r, readQueue)) + Cardinality(BurstsOf(r, respQueue)) = 0
      BY Zenon DEF Init, BurstsAccounted
    <3>1. Cardinality(BurstsOf(r, readQueue)) = 0 /\ Cardinality(BurstsOf(r, respQueue)) = 0
      BY <2>1, FS_EmptySet, Zenon
    <3> QED BY <3>1
  <2>3. HeldWaits
    BY Zenon DEF Init, HeldWaits
  <2> QED BY <2>2, <2>3, Zenon
<1>2. Inv /\ (BurstsAccounted /\ HeldWaits) /\ [Next]_vars
        => (BurstsAccounted /\ HeldWaits)'
  BY ReadsStep, Zenon
<1> QED BY <1>1, <1>2, Invariance, PTL DEF Spec

----------------------------------------------------------------------------
(* Retries *)

\* The write buffer has room above the low threshold for every packet, and the
\* read buffer for every read.
PacketsFit ==
  \A s \in Spans : /\ Len(s) <= readBufferSize
                   /\ writeLowThreshold + Len(s) <= writeBufferSize

\* While a retry is owed, the peer holds the refused packet and sends no other.
RetryHolds == retryRdReq \/ retryWrReq => held # NoPkt

\* A packet that the port refuses finds a burst to wait for; one that it accepts
\* comes when no retry is owed.
LEMMA RecvRetry ==
  ASSUME PacketsFit, Inv, RetryWillCome, NEW pkt \in Packet, recvTimingReq(pkt),
         held = NoPkt \/ (~retryRdReq /\ ~retryWrReq), RetryHolds
  PROVE  RetryWillCome' /\ RetryHolds'
<1>0. /\ Len(readQueue) \in Nat /\ Len(respQueue) \in Nat /\ Len(writeQueue) \in Nat
      /\ pkt # NoPkt /\ ~retryRdReq /\ ~retryWrReq
  <2>1. /\ readQueue \in Seq(ReadEntry) /\ respQueue \in Seq(ReadEntry)
        /\ writeQueue \in Seq(WriteEntry)
    BY Zenon DEF Inv, TypeOK
  <2>2. ASSUME NEW S, NEW q \in Seq(S) PROVE Len(q) \in Nat
    OBVIOUS
  <2>3. pkt # NoPkt
    BY DEF Packet, ReadPkt, WritePkt, RowOpPkt, NoPkt
  <2>4. ~retryRdReq /\ ~retryWrReq
    BY Zenon DEF RetryHolds
  <2> QED BY <2>1, <2>2, <2>3, <2>4, Zenon
<1>1. CASE /\ pkt.cmd = "read" /\ readQueueFull(dram_pkt_count(pkt)) /\ held' = pkt
           /\ UNCHANGED <<queues, retryWrReq>>
  <2> DEFINE n == Len(pkt.pieces)
  <2>1. pkt.pieces \in Spans /\ dram_pkt_count(pkt) = n
    BY <1>1, Zenon DEF Packet, ReadPkt, WritePkt, RowOpPkt, dram_pkt_count
  <2>2. n \in Nat /\ n <= readBufferSize
    BY <2>1, SpanType DEF PacketsFit
  <2>3. Len(readQueue) + Len(respQueue) + n > readBufferSize
    BY <1>1, <2>1, Zenon DEF readQueueFull
  <2> HIDE DEF n
  <2>4. Len(readQueue) # 0 \/ Len(respQueue) # 0
    BY <1>0, <2>2, <2>3, BufferAssumption
  <2>5. readQueue # <<>> \/ respQueue # <<>>
    BY <2>4, Zenon
  <2> QED BY <1>0, <1>1, <2>5, Zenon DEF queues, RetryWillCome, RetryHolds
<1>2. CASE /\ pkt.cmd # "read" /\ writeQueueFull(dram_pkt_count(pkt)) /\ held' = pkt
           /\ UNCHANGED <<queues, retryRdReq>>
  <2> DEFINE n == dram_pkt_count(pkt)
  <2>1. n \in Nat /\ writeLowThreshold + n <= writeBufferSize
    <3>1. CASE pkt \in WritePkt
      <4>1. pkt.pieces \in Spans /\ n = Len(pkt.pieces)
        BY <3>1, Zenon DEF WritePkt, dram_pkt_count
      <4> QED BY <4>1, SpanType DEF PacketsFit
    <3>2. CASE pkt \in RowOpPkt
      <4>1. n = 1
        BY <3>2, Zenon DEF RowOpPkt, dram_pkt_count
      <4> QED BY <4>1, BufferAssumption
    <3> QED BY <1>2, <3>1, <3>2, Zenon DEF Packet, ReadPkt
  <2>2. Len(writeQueue) + n > writeBufferSize
    BY <1>2, Zenon DEF writeQueueFull
  <2> HIDE DEF n
  <2>3. Len(writeQueue) > writeLowThreshold
    BY <1>0, <2>1, <2>2, BufferAssumption
  <2> QED BY <1>0, <1>2, <2>3, Zenon DEF queues, RetryWillCome, RetryHolds
<1>3. CASE UNCHANGED retries
  BY <1>0, <1>3, Zenon DEF retries, RetryWillCome, RetryHolds
<1> QED BY <1>1, <1>2, <1>3, Zenon DEF recvTimingReq

\* Every step leaves a refused packet something to wait for.
LEMMA RetryStep ==
  ASSUME PacketsFit, Inv, RetryWillCome, RetryHolds, [Next]_vars
  PROVE  RetryWillCome' /\ RetryHolds'
<1>0. /\ readQueue \in Seq(ReadEntry) /\ respQueue \in Seq(ReadEntry)
      /\ writeQueue \in Seq(WriteEntry)
      /\ Len(readQueue) \in Nat /\ Len(respQueue) \in Nat /\ Len(writeQueue) \in Nat
  BY DEF Inv, TypeOK
<1>1. CASE \E pkt \in Packet : Send(pkt)
  BY <1>1, RecvRetry, Zenon DEF Send
<1>2. CASE Resend
  <2>1. held \in Packet /\ recvTimingReq(held) /\ ~retryRdReq /\ ~retryWrReq
    BY <1>2, Zenon DEF Resend, Inv, TypeOK
  <2> QED BY <2>1, RecvRetry, Zenon
<1>3. CASE processRespondEvent
  BY <1>3, Zenon DEF processRespondEvent, RetryWillCome, RetryHolds
<1>4. CASE processNextReqEvent
  <2>0. UNCHANGED <<retryRdReq, held>>
    BY <1>4, Zenon DEF processNextReqEvent
  <2>1. CASE Pause
    BY <2>0, <2>1, Zenon DEF Pause, queues, RetryWillCome, RetryHolds
  <2>2. CASE StartWrites
    BY <2>0, <2>2, Zenon DEF StartWrites, Reschedule, queues, RetryWillCome, RetryHolds
  <2>3. CASE \E i \in DOMAIN readQueue : ServeRead(i)
    <3>1. PICK i \in DOMAIN readQueue : ServeRead(i)
      BY <2>3, Zenon
    <3>2. respQueue' # <<>>
      <4>1. respQueue' = Append(respQueue, readQueue[i]) /\ readQueue[i] \in ReadEntry
        <5>1. respQueue' = Append(respQueue, readQueue[i])
          BY <3>1, Zenon DEF ServeRead
        <5> QED BY <1>0, <5>1
      <4> QED BY <1>0, <4>1, Appended
    <3>3. UNCHANGED writeQueue /\ (retryWrReq' => retryWrReq)
      BY <3>1, Zenon DEF ServeRead, Reschedule
    <3> QED BY <2>0, <3>2, <3>3, Zenon DEF RetryWillCome, RetryHolds
  <2>4. CASE \E i \in DOMAIN writeQueue : ServeWrite(i)
    <3>1. PICK i \in DOMAIN writeQueue : ServeWrite(i)
      BY <2>4, Zenon
    <3>2. /\ UNCHANGED <<readQueue, respQueue>>
          /\ writeQueue' = erase(writeQueue, i)
          /\ retryWrReq' => retryWrReq /\ ~(Len(writeQueue') < writeBufferSize)
      BY <3>1, Zenon DEF ServeWrite, Reschedule, popWrite
    <3>3. Len(writeQueue') \in Nat
      <4>1. i \in 1..Len(writeQueue)
        BY <1>0
      <4> QED BY <1>0, <3>2, <4>1, EraseProperties
    <3>4. retryWrReq' => Len(writeQueue') > writeLowThreshold
      BY <3>2, <3>3, BufferAssumption
    <3> QED BY <2>0, <3>2, <3>4, Zenon DEF RetryWillCome, RetryHolds
  <2> QED BY <1>4, <2>1, <2>2, <2>3, <2>4, Zenon DEF processNextReqEvent, AllRanksBusy,
            NothingToDo, NoReadToFreeRank, NoWriteToFreeRank
<1>5. CASE \/ \E r \in Ranks : refreshDue(r) \/ refreshPrecharge(r) \/ refreshDone(r)
           \/ drain \/ drainResume \/ UNCHANGED vars
  <2>1. UNCHANGED <<readQueue, respQueue, writeQueue, retryRdReq, retryWrReq, held>>
    BY <1>5, Zenon DEF refreshDue, refreshPrecharge, refreshDone, drain, drainResume, vars,
                queues, retries
  <2> QED BY <2>1, Zenon DEF RetryWillCome, RetryHolds
<1> QED BY <1>1, <1>2, <1>3, <1>4, <1>5, Zenon DEF Next

\* A packet that the port refused gets its retry (dram_ctrl.cc:666, 679): if every
\* packet fits above the low threshold, then while a flag is set a burst is queued
\* whose departure clears it (dram_ctrl.cc:741, 1609).
THEOREM RetriesCome ==
  ASSUME PacketsFit
  PROVE  Spec => []RetryWillCome
<1>1. Init => RetryWillCome /\ RetryHolds
  BY Zenon DEF Init, RetryWillCome, RetryHolds
<1>2. Inv /\ (RetryWillCome /\ RetryHolds) /\ [Next]_vars
        => (RetryWillCome /\ RetryHolds)'
  BY RetryStep, Zenon
<1> QED BY <1>1, <1>2, Invariance, PTL DEF Spec

=============================================================================
