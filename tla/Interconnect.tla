---------------------------- MODULE Interconnect ----------------------------
(***************************************************************************)
(* Caches, a coherent crossbar and a simple memory, which hand packets to  *)
(* each other and drain together (gem5/src/mem/packet_queue.cc, xbar.cc,   *)
(* coherent_xbar.cc, simple_mem.cc, cache/cache.cc, cache/mshr_queue.cc).  *)
(* A cache sends misses and evictions, snoops the misses of the others and *)
(* answers them with its dirty lines.  A packet that is refused is sent    *)
(* again when the peer says so, unless it is no longer there; every object *)
(* drains by itself and signals the manager of DrainManager.               *)
(*                                                                         *)
(* A tick is stored relative to curTick(), and one that has passed as 0.   *)
(* The events of one tick fire in any order, the exit event last.          *)
(***************************************************************************)
EXTENDS DrainManager, Queues, Integers

CONSTANTS
  Requesters,      \* the caches
  Lines,
  assoc,           \* the lines of a cache that are valid at once
  mshrs,           \* misses of a cache before it blocks
  write_buffers,   \* evictions of a cache before it blocks
  Delays,          \* header delays that a request may reach a cache with
  forwardLatency,  \* of a cache
  headerDelay,     \* of the crossbar
  Latencies,       \* of the memory, which draws one for every response
  duration         \* how long the memory is busy with a packet

VARIABLES
  queue,           \* the packet queues: transmitList, sendEvent, waitingOnRetry
  layer,           \* the layers of the crossbar
  mem,             \* the simple memory
  cache            \* blocks, misses (mshrQueue and inService), writeBuffer

parts == <<queue, layer, mem, cache>>
allVars == <<vars, parts>>

\* A cache has a queue for requests, which is always empty, and one for snoop
\* responses; the crossbar has one for the responses to each cache.  One layer of
\* the crossbar leads to the memory and one to each cache.
NoPort == <<"none">>
NoPacket == [cmd |-> "none"]
MaxTick == -1       \* no event is scheduled, or there is nothing to send
ReqQueue(c) == <<"request queue", c>>
SnoopQueue(c) == <<"snoop response queue", c>>
RespQueue(c) == <<"response queue", c>>
ReqLayer == <<"request layer">>
RespLayer(c) == <<"response layer", c>>
Memory == <<"memory">>
Mshrs(c) == <<"mshrs", c>>
WriteBuffer(c) == <<"write buffer", c>>
ReqQueues == {ReqQueue(c) : c \in Requesters}
SnoopQueues == {SnoopQueue(c) : c \in Requesters}
RespQueues == {RespQueue(c) : c \in Requesters}
PacketQueues == ReqQueues \cup SnoopQueues \cup RespQueues
RespLayers == {RespLayer(c) : c \in Requesters}
Layers == {ReqLayer} \cup RespLayers
SystemObjects ==
  PacketQueues \cup Layers \cup {Memory}
  \cup {Mshrs(c) : c \in Requesters} \cup {WriteBuffer(c) : c \in Requesters}

\* Ticks are counted from 0, a cache holds at least one line, and the drain manager knows all objects of the system.
ASSUME TimesAssumption ==
  /\ Delays \subseteq Nat /\ Latencies \subseteq Nat
  /\ duration \in Nat /\ forwardLatency \in Nat /\ headerDelay \in Nat
ASSUME AssocAssumption == assoc \in Nat \ {0}
ASSUME SystemAssumption == Objects = SystemObjects

\* The handlers call each other, so each maps the state s to the state it leaves
\* behind.  A failed assert is kept in fault.
State == [queue |-> queue, layer |-> layer, mem |-> mem, cache |-> cache,
          drainState |-> drainState, count |-> count, exitEvent |-> exitEvent,
          fault |-> FALSE]
Commit(s) ==
  /\ queue' = s.queue /\ layer' = s.layer /\ mem' = s.mem
  /\ cache' = s.cache /\ drainState' = s.drainState
  /\ count' = s.count /\ exitEvent' = s.exitEvent
  /\ UNCHANGED <<state, script>>

Check(s, ok) == IF ok THEN s ELSE [s EXCEPT !.fault = TRUE]
later(a, b) == IF a >= b THEN a ELSE b

\* Drainable::signalDrainDone and, through it, DrainManager::signalDrainDone, by
\* each object of O that is asked to drain.
SignalsAgain(s, O) ==  \* mutant
  LET done == {o \in O : s.drainState[o] # "Running"}
  IN  [s EXCEPT !.drainState = [o \in Objects |-> IF o \in done THEN "Drained" ELSE @[o]],
                !.count = @ - Cardinality(done),
                !.exitEvent = @ \/ (done # {} /\ s.count = Cardinality(done))]
signal(s, O) ==
  LET done == {o \in O : s.drainState[o] = "Draining"}
  IN  IF done = {} THEN s
      ELSE [s EXCEPT !.drainState = [o \in Objects |-> IF o \in done THEN "Drained" ELSE @[o]],
                     !.count = @ - Cardinality(done),
                     !.exitEvent = @ \/ s.count = Cardinality(done)]

----------------------------------------------------------------------------
(* PacketQueue *)

\* The next packet may be sent in d ticks, but not in this one; MaxTick says that
\* there is nothing more to send.
schedSendEvent(s, k, d) ==
  LET q == s.queue[k]
  IN  IF q.waitingOnRetry THEN Check(s, q.sendEvent = MaxTick)
      ELSE IF d = MaxTick
        THEN IF q.transmitList = <<>> /\ q.sendEvent = MaxTick THEN signal(s, {k}) ELSE s
      ELSE IF q.sendEvent = MaxTick \/ later(d, 1) < q.sendEvent
        THEN [s EXCEPT !.queue[k].sendEvent = later(d, 1)]
      ELSE s

\* Packets are kept by tick, those of one tick in the order they came.
place(list, d) ==
  CHOOSE n \in 0..Len(list) :
    /\ \A i \in 1..n : list[i].tick <= d
    /\ n < Len(list) => list[n + 1].tick > d
insert(list, n, p) == SubSeq(list, 1, n) \o <<p>> \o SubSeq(list, n + 1, Len(list))
schedSendTiming(s, k, pkt, d) ==
  LET list == s.queue[k].transmitList
      s1 == [s EXCEPT !.queue[k].transmitList =
               insert(@, place(@, d), [tick |-> d, pkt |-> pkt])]
  IN  IF list = <<>> \/ d < Head(list).tick THEN schedSendEvent(s1, k, d) ELSE s1

\* force_order: not before the packets that are queued already.
inOrder(list, d) == IF list = <<>> THEN d ELSE later(d, list[Len(list)].tick)

readyTime(list) == IF list = <<>> THEN MaxTick ELSE Head(list).tick
deferredPacketReadyTime(s, k) == readyTime(s.queue[k].transmitList)
hasAddr(s, k, a) == \E i \in DOMAIN s.queue[k].transmitList :
                      s.queue[k].transmitList[i].pkt.line = a

----------------------------------------------------------------------------
(* BaseXBar::Layer *)

occupyLayer(s, l, until) ==
  [Check(s, s.layer[l].state = "BUSY" /\ s.layer[l].releaseEvent = MaxTick)
     EXCEPT !.layer[l].releaseEvent = until]

\* A busy layer, or one whose last packet the peer refused, makes the port wait.
occupied(s, l) == s.layer[l].state = "BUSY" \/ s.layer[l].waitingForPeer # NoPort
tryTiming(s, l, port) ==
  IF occupied(s, l)
    THEN [Check(s, \A i \in DOMAIN s.layer[l].waitingForLayer :
                     s.layer[l].waitingForLayer[i] # port)
            EXCEPT !.layer[l].waitingForLayer = Append(@, port)]
    ELSE [s EXCEPT !.layer[l].state = "BUSY"]

failedTiming(s, l, port) ==
  occupyLayer([Check(s, s.layer[l].waitingForPeer = NoPort)
                 EXCEPT !.layer[l].waitingForPeer = port], l, 1)

----------------------------------------------------------------------------
(* MSHRQueue: the misses and the evictions of a cache *)

evicting(pkt) == pkt.cmd \in {"Writeback", "CleanEvict"}
ready(list) == list # <<>> /\ Head(list).tick = 0
matches(list, a) == {i \in DOMAIN list : list[i].pkt.line = a}
without(list, a) == IF matches(list, a) = {} THEN list
                    ELSE erase(list, CHOOSE i \in matches(list, a) : TRUE)
addToReadyList(list, pkt, d) == insert(list, place(list, d), [tick |-> d, pkt |-> pkt])

allocated(k) == k.mshrQueue # <<>> \/ k.inService # {}
missesFull(k) == Len(k.mshrQueue) + Cardinality(k.inService) >= mshrs
writesFull(k) == Len(k.writeBuffer) >= write_buffers

allocateMissBuffer(s, c, pkt, d) ==
  schedSendEvent([s EXCEPT !.cache[c].mshrQueue = addToReadyList(@, pkt, d)],
                 ReqQueue(c), d)
allocateWriteBuffer(s, c, pkt, d) ==
  schedSendEvent([s EXCEPT !.cache[c].writeBuffer = addToReadyList(@, pkt, d)],
                 ReqQueue(c), d)

\* The last entry that is freed signals.
deallocateMiss(s, c, a) ==
  LET s1 == [s EXCEPT !.cache[c].inService = @ \ {a}]
  IN  IF allocated(s1.cache[c]) THEN s1 ELSE signal(s1, {Mshrs(c)})
deallocateWrite(s, c, a) ==
  LET s1 == [s EXCEPT !.cache[c].writeBuffer = without(@, a)]
  IN  IF s1.cache[c].writeBuffer = <<>> THEN signal(s1, {WriteBuffer(c)}) ELSE s1

\* An eviction is not answered, and its entry is freed when it is sent.
markInService(s, c, pkt) ==
  IF evicting(pkt) THEN deallocateWrite(s, c, pkt.line)
  ELSE [s EXCEPT !.cache[c].mshrQueue = Tail(@), !.cache[c].inService = @ \cup {pkt.line}]

\* Misses come first, unless the write buffer is full or has the line that missed.
\* The order of a miss before an eviction of its line does not arise: a line that
\* misses is not valid, and is filled when the miss is over.
IgnoresConflict(s, c) ==  \* mutant
  LET k == s.cache[c]
  IN  IF ready(k.writeBuffer) /\ (writesFull(k) \/ ~ready(k.mshrQueue))
        THEN Head(k.writeBuffer).pkt
      ELSE IF ready(k.mshrQueue) THEN Head(k.mshrQueue).pkt
      ELSE NoPacket
getNextMSHR(s, c) ==
  LET k == s.cache[c]
      conflict == matches(k.writeBuffer, Head(k.mshrQueue).pkt.line)
  IN  IF ready(k.writeBuffer) /\ (writesFull(k) \/ ~ready(k.mshrQueue))
        THEN Head(k.writeBuffer).pkt
      ELSE IF ~ready(k.mshrQueue) THEN NoPacket
      ELSE IF conflict = {} THEN Head(k.mshrQueue).pkt
      ELSE k.writeBuffer[CHOOSE i \in conflict : TRUE].pkt

nextMSHRReadyTime(s, c) ==
  LET m == readyTime(s.cache[c].mshrQueue)
      w == readyTime(s.cache[c].writeBuffer)
  IN  IF m = MaxTick THEN w ELSE IF w = MaxTick THEN m ELSE IF m <= w THEN m ELSE w

----------------------------------------------------------------------------
(* Snoops *)

\* A cache that has the line dirty, or waits to write it back, supplies it, and
\* the memory does nothing.  The response takes its place in the snoop queue.
owns(k, a) ==
  \/ k.blk[a] = "dirty"
  \/ \E i \in matches(k.writeBuffer, a) : k.writeBuffer[i].pkt.cmd = "Writeback"
owners(s, c, pkt) == {o \in Requesters \ {c} : owns(s.cache[o], pkt.line)}
doTimingSupplyResponse(s, o, pkt) ==
  schedSendTiming(s, SnoopQueue(o), pkt,
    inOrder(s.queue[SnoopQueue(o)].transmitList, forwardLatency + headerDelay))

\* A miss that needs the line exclusively takes it from all other caches, also
\* from those that wait to write it back.
invalidated(k, a) == [k EXCEPT !.blk[a] = "invalid", !.writeBuffer = without(@, a)]
invalidate(s, c, a) ==
  LET hit == {o \in Requesters \ {c} : matches(s.cache[o].writeBuffer, a) # {}}
      s1 == [s EXCEPT !.cache = [o \in Requesters |->
               IF o = c THEN s.cache[o] ELSE invalidated(s.cache[o], a)]]
  IN  signal(s1, {WriteBuffer(o) : o \in {x \in hit : s1.cache[x].writeBuffer = <<>>}})

\* The other caches look for the line: each has at most one eviction of it, and
\* at most one of them owns it.  Evictions only ask whether it is there.
forwardTiming(s, c, pkt) ==
  LET own == owners(s, c, pkt)
      s1 == Check(s, \A o \in Requesters \ {c} :
                       \A i, j \in matches(s.cache[o].writeBuffer, pkt.line) : i = j)
      s2 == Check(s1, \A o, p \in own : o = p)
      s3 == IF own = {} THEN s2
            ELSE doTimingSupplyResponse(s2, CHOOSE o \in own : TRUE, pkt)
  IN  IF evicting(pkt) THEN s1
      ELSE IF pkt.cmd = "ReadEx" THEN invalidate(s3, c, pkt.line) ELSE s3
isBlockCached(s, c, a) ==
  \E o \in Requesters \ {c} :
    LET k == s.cache[o]
    IN  \/ k.blk[a] # "invalid" \/ a \in k.inService
        \/ matches(k.mshrQueue, a) # {} \/ matches(k.writeBuffer, a) # {}

----------------------------------------------------------------------------
(* SimpleMemory and the crossbar *)

\* The memory is busy with one packet for a while; it promises a retry to the
\* first one it refuses.
refuses(s) == s.mem.retryReq \/ s.mem.isBusy
memRecvTimingReq(s, pkt) ==
  IF refuses(s) THEN [s EXCEPT !.mem.retryReq = TRUE]
  ELSE LET s1 == IF duration = 0 THEN s
                 ELSE [s EXCEPT !.mem.isBusy = TRUE, !.mem.releaseEvent = duration]
       IN  IF evicting(pkt) THEN s1
           ELSE [s1 EXCEPT
             !.mem.packetQueue = Append(@, [tick |-> pkt.latency, pkt |-> pkt]),
             !.mem.dequeueEvent =
               IF s.mem.retryResp \/ @ # MaxTick THEN @ ELSE pkt.latency]

\* A packet with data keeps a layer for one tick more.
finishTime(data) == IF data THEN 2 ELSE 1

\* The crossbar forwards a request if the layer is free, and the caches snoop it
\* first, even if the memory then refuses it.  The sender waits for a retry if the
\* layer is not free or the memory refuses.  The memory does not see a clean
\* eviction of a line that another cache has, and only takes note of a miss that
\* a cache answers.
recvTimingReq(s, c, pkt) ==
  LET port == ReqQueue(c)
      s1 == tryTiming(s, ReqLayer, port)
      s2 == forwardTiming(s1, c, pkt)
      s3 == memRecvTimingReq(s2, pkt)
      sinks == \/ pkt.cmd = "CleanEvict" /\ isBlockCached(s, c, pkt.line)
               \/ ~evicting(pkt) /\ owners(s, c, pkt) # {}
  IN  IF occupied(s, ReqLayer) THEN [ok |-> FALSE, s |-> s1]
      ELSE IF sinks THEN [ok |-> TRUE, s |-> occupyLayer(s2, ReqLayer, finishTime(FALSE))]
      ELSE IF refuses(s) THEN [ok |-> FALSE, s |-> failedTiming(s3, ReqLayer, port)]
      ELSE [ok |-> TRUE,
            s |-> occupyLayer(s3, ReqLayer, finishTime(pkt.cmd = "Writeback"))]

\* A response of the memory or of a cache is only put into the queue of the port
\* that leads to the cache that missed.
forwardResponse(s, port, pkt) ==
  LET l  == RespLayer(pkt.src)
      s1 == tryTiming(s, l, port)
      s2 == schedSendTiming(s1, RespQueue(pkt.src), pkt, 1)
  IN  IF occupied(s, l) THEN [ok |-> FALSE, s |-> s1]
      ELSE [ok |-> TRUE, s |-> occupyLayer(s2, l, finishTime(TRUE))]
recvTimingResp(s, pkt) == forwardResponse(s, Memory, pkt)
recvTimingSnoopResp(s, k, pkt) ==
  forwardResponse(Check(s, k # SnoopQueue(pkt.src)), k, pkt)

\* The cache takes every response: it fills the line, evicts another one if there
\* is no room, and frees the MSHR before the eviction goes into the write buffer.
valid(k) == {a \in Lines : k.blk[a] # "invalid"}
allocateBlock(k) ==
  IF Cardinality(valid(k)) < assoc THEN {} ELSE {CHOOSE a \in valid(k) : TRUE}
handleFill(s, c, pkt) ==
  LET victim == allocateBlock(s.cache[c])
  IN  [Check(s, matches(s.cache[c].writeBuffer, pkt.line) = {})
         EXCEPT !.cache[c].blk = [a \in Lines |->
           IF a = pkt.line THEN (IF pkt.cmd = "ReadEx" THEN "dirty" ELSE "clean")
           ELSE IF a \in victim THEN "invalid" ELSE s.cache[c].blk[a]]]
eviction(k, c, a) == [cmd |-> IF k.blk[a] = "dirty" THEN "Writeback" ELSE "CleanEvict",
                      src |-> c, line |-> a]
recvResponse(s, c, pkt) ==
  LET k == s.cache[c]
      s1 == handleFill(Check(s, pkt.line \in k.inService), c, pkt)
      s2 == deallocateMiss(s1, c, pkt.line)
      victim == CHOOSE a \in allocateBlock(k) : TRUE
  IN  IF allocateBlock(k) = {} THEN s2
      ELSE allocateWriteBuffer(s2, c, eviction(k, c, victim), forwardLatency)

\* CacheReqPacketQueue::sendDeferredPacket: the packet is chosen when it can be
\* sent, and one that is refused stays where it is.  A line whose snoop response
\* is still under way has to wait for it.
sendRequest(s, c) ==
  LET k == ReqQueue(c)
      pkt == getNextMSHR(s, c)
      s1 == Check(s, /\ ~s.queue[k].waitingOnRetry /\ s.queue[k].transmitList = <<>>
                     /\ evicting(pkt) => s.cache[c].blk[pkt.line] = "invalid")
      r == recvTimingReq(s1, c, pkt)
      s2 == markInService(r.s, c, pkt)
  IN  IF pkt = NoPacket THEN schedSendEvent(s1, k, nextMSHRReadyTime(s1, c))
      ELSE IF hasAddr(s1, SnoopQueue(c), pkt.line)
        THEN schedSendEvent(s1, k, deferredPacketReadyTime(s1, SnoopQueue(c)))
      ELSE IF r.ok THEN schedSendEvent(s2, k, nextMSHRReadyTime(s2, c))
      ELSE [r.s EXCEPT !.queue[k].waitingOnRetry = TRUE]

sendTiming(s, k, pkt) ==
  IF k \in SnoopQueues THEN recvTimingSnoopResp(s, k, pkt)
  ELSE [ok |-> TRUE, s |-> recvResponse(s, pkt.src, pkt)]

sendDeferredPacket(s, k) ==
  LET q  == s.queue[k]
      s1 == [Check(s, ~q.waitingOnRetry /\ q.transmitList # <<>>
                      /\ Head(q.transmitList).tick = 0)
               EXCEPT !.queue[k].transmitList = Tail(@)]
      r  == sendTiming(s1, k, Head(q.transmitList).pkt)
  IN  IF r.ok THEN schedSendEvent(r.s, k, deferredPacketReadyTime(r.s, k))
      ELSE [r.s EXCEPT !.queue[k].transmitList = <<Head(q.transmitList)>> \o @,
                       !.queue[k].waitingOnRetry = TRUE]

send(s, k) == IF k \in ReqQueues THEN sendRequest(s, k[2]) ELSE sendDeferredPacket(s, k)
retry(s, k) ==
  send([Check(s, s.queue[k].waitingOnRetry) EXCEPT !.queue[k].waitingOnRetry = FALSE], k)

\* The memory sends its oldest response, and goes on until one is refused.
dequeue(s) ==
  LET q == s.mem.packetQueue
      r == recvTimingResp(Check(s, q # <<>>), Head(q).pkt)
      rest == Tail(q)
      s1 == [r.s EXCEPT !.mem.retryResp = ~r.ok]
      s2 == [s1 EXCEPT !.mem.packetQueue = rest]
  IN  IF ~r.ok THEN s1
      ELSE IF rest = <<>> THEN signal(s2, {Memory})
      ELSE [s2 EXCEPT !.mem.dequeueEvent = Head(rest).tick]
recvRespRetry(s) == dequeue(Check(s, s.mem.retryResp))

----------------------------------------------------------------------------
(* Retries *)

sendRetry(s, port) == IF port = Memory THEN recvRespRetry(s) ELSE retry(s, port)

\* The port that waits longest is told to send again.  If it has nothing to send
\* any more, the layer is taken until the next clock edge.
retryWaiting(s, l) ==
  LET port == Head(s.layer[l].waitingForLayer)
      s1 == [Check(s, s.layer[l].state = "IDLE")
               EXCEPT !.layer[l].state = "RETRY", !.layer[l].waitingForLayer = Tail(@)]
      s2 == sendRetry(s1, port)
  IN  IF s2.layer[l].state # "RETRY" THEN s2
      ELSE occupyLayer([s2 EXCEPT !.layer[l].state = "BUSY"], l, 0)

\* The peer is ready for the packet it refused: its sender comes first.
recvRetry(s, l) ==
  LET s1 == [Check(s, s.layer[l].waitingForPeer # NoPort)
               EXCEPT !.layer[l].waitingForPeer = NoPort,
                      !.layer[l].waitingForLayer = <<s.layer[l].waitingForPeer>> \o @]
  IN  IF s.layer[l].state = "IDLE" THEN retryWaiting(s1, l) ELSE s1

\* There is no point in a retry while the peer has to send one.
NeverRetries(s, l) ==  \* mutant
  LET s1 == [Check(s, s.layer[l].state = "BUSY") EXCEPT !.layer[l].state = "IDLE"]
  IN  IF s.layer[l].waitingForPeer = NoPort /\ s.layer[l].waitingForLayer = <<>>
        THEN signal(s1, {l}) ELSE s1
releaseLayer(s, l) ==
  LET s1 == [Check(s, s.layer[l].state = "BUSY") EXCEPT !.layer[l].state = "IDLE"]
  IN  IF s.layer[l].waitingForPeer # NoPort THEN s1
      ELSE IF s.layer[l].waitingForLayer # <<>> THEN retryWaiting(s1, l)
      ELSE signal(s1, {l})

release(s) ==
  LET s1 == [Check(s, s.mem.isBusy) EXCEPT !.mem.isBusy = FALSE, !.mem.retryReq = FALSE]
  IN  IF s.mem.retryReq THEN recvRetry(s1, ReqLayer) ELSE s1

----------------------------------------------------------------------------
(* Steps *)

\* The cpu behind a cache misses; it starts nothing while the system drains, and
\* waits while the cache is blocked.  Two caches do not miss on a line at the same
\* time.
Request(c) ==
  /\ script = "simulate" /\ drainState[Mshrs(c)] = "Running"
  /\ ~missesFull(cache[c]) /\ ~writesFull(cache[c])
  /\ \E a \in Lines, cmd \in {"ReadEx", "ReadShared"}, d \in Delays, t \in Latencies :
       /\ cache[c].blk[a] = "invalid"
       /\ \A o \in Requesters :
            a \notin cache[o].inService /\ matches(cache[o].mshrQueue, a) = {}
       /\ Commit(allocateMissBuffer(State, c,
                   [cmd |-> cmd, src |-> c, line |-> a, latency |-> t], forwardLatency + d))

\* The handler of each event, once the event has left the queue.
SendEvent(k) == send([State EXCEPT !.queue[k].sendEvent = MaxTick], k)
LayerEvent(l) == releaseLayer([State EXCEPT !.layer[l].releaseEvent = MaxTick], l)
ReleaseEvent == release([State EXCEPT !.mem.releaseEvent = MaxTick])
DequeueEvent == dequeue([State EXCEPT !.mem.dequeueEvent = MaxTick])

processSendEvent(k) == queue[k].sendEvent = 0 /\ Commit(SendEvent(k))
processRelease(l) == layer[l].releaseEvent = 0 /\ Commit(LayerEvent(l))
processMemory ==
  \/ mem.releaseEvent = 0 /\ Commit(ReleaseEvent)
  \/ mem.dequeueEvent = 0 /\ Commit(DequeueEvent)

Event ==
  /\ script = "simulate"
  /\ \/ \E k \in PacketQueues : processSendEvent(k)
     \/ \E l \in Layers : processRelease(l)
     \/ processMemory

Due ==
  \/ \E k \in PacketQueues : queue[k].sendEvent = 0
  \/ \E l \in Layers : layer[l].releaseEvent = 0
  \/ mem.releaseEvent = 0 \/ mem.dequeueEvent = 0

\* Nothing is left to do in this tick.
Tick ==
  LET ago(t) == IF t = MaxTick \/ t = 0 THEN t ELSE t - 1
      aged(list) == [i \in DOMAIN list |-> [list[i] EXCEPT !.tick = ago(@)]]
  IN  /\ script = "simulate" /\ ~Due /\ ~exitEvent
      /\ queue' = [k \in PacketQueues |-> [queue[k] EXCEPT
           !.sendEvent = ago(@), !.transmitList = aged(@)]]
      /\ layer' = [l \in Layers |-> [layer[l] EXCEPT !.releaseEvent = ago(@)]]
      /\ mem' = [mem EXCEPT !.releaseEvent = ago(@), !.dequeueEvent = ago(@),
                            !.packetQueue = aged(@)]
      /\ cache' = [c \in Requesters |-> [cache[c] EXCEPT
           !.mshrQueue = aged(@), !.writeBuffer = aged(@)]]
      /\ UNCHANGED vars

\* What each object answers when it is asked to drain.
ForgetsWrites ==  \* mutant
  {k \in PacketQueues : queue[k].transmitList # <<>>}
  \cup {l \in Layers : layer[l].state # "IDLE"}
  \cup {o \in {Memory} : mem.packetQueue # <<>>}
  \cup {Mshrs(c) : c \in {x \in Requesters : allocated(cache[x])}}
busy ==
  {k \in PacketQueues : queue[k].transmitList # <<>>}
  \cup {l \in Layers : layer[l].state # "IDLE"}
  \cup {o \in {Memory} : mem.packetQueue # <<>>}
  \cup {Mshrs(c) : c \in {x \in Requesters : allocated(cache[x])}}
  \cup {WriteBuffer(c) : c \in {x \in Requesters : cache[x].writeBuffer # <<>>}}

\* The script: it drains or simulates, and gets control back when the exit event
\* fires, after the other events of its tick, or at a limit.
Drain ==
  /\ drainState' = [o \in Objects |-> IF o \in busy THEN "Draining" ELSE "Drained"]
  /\ tryDrain
  /\ UNCHANGED parts
Simulate == simulate /\ UNCHANGED parts
Exit == ~Due /\ exitSimLoop /\ UNCHANGED parts

SystemInit ==
  /\ Init
  /\ queue = [k \in PacketQueues |->
       [transmitList |-> <<>>, sendEvent |-> MaxTick, waitingOnRetry |-> FALSE]]
  /\ layer = [l \in Layers |-> [state |-> "IDLE", waitingForLayer |-> <<>>,
                                waitingForPeer |-> NoPort, releaseEvent |-> MaxTick]]
  /\ mem = [isBusy |-> FALSE, releaseEvent |-> MaxTick, retryReq |-> FALSE,
            packetQueue |-> <<>>, dequeueEvent |-> MaxTick, retryResp |-> FALSE]
  /\ cache = [c \in Requesters |-> [blk |-> [a \in Lines |-> "invalid"],
       mshrQueue |-> <<>>, inService |-> {}, writeBuffer |-> <<>>]]

SystemNext ==
  \/ \E c \in Requesters : Request(c)
  \/ Event
  \/ Tick
  \/ Drain
  \/ Simulate
  \/ Exit

\* The event loop does not stop: it serves the events of a tick, which are few,
\* and goes on to the next one.  The script that drains repeats the cycle.
Fairness ==
  /\ []<>(script = "simulate" => ~Due)
  /\ WF_allVars(Tick)
  /\ WF_allVars(exitEvent /\ Exit)
  /\ WF_allVars(state = "Draining" /\ Drain)

System == SystemInit /\ [][SystemNext]_allVars /\ Fairness

----------------------------------------------------------------------------
(* Properties *)

\* No handler finds an object in a state it does not expect: a queue that sends
\* has a packet that is due and no retry outstanding, a retry comes only to who
\* waits for one, a layer is occupied and released in turn, at most one cache
\* answers a snoop, and a line is not at the same time in the cache, missing and
\* waiting to be written back (packet_queue.cc:65, 181, 215; xbar.cc:160, 188, 223,
\* 243, 303; simple_mem.cc:177, 188, 220; cache.cc:1633, 2005, 2028, 2294, 2474,
\* 2479; coherent_xbar.cc:514).
HandlersExpected ==
  /\ \A k \in PacketQueues : queue[k].sendEvent = 0 => ~SendEvent(k).fault
  /\ \A l \in Layers : layer[l].releaseEvent = 0 => ~LayerEvent(l).fault
  /\ mem.releaseEvent = 0 => ~ReleaseEvent.fault
  /\ mem.dequeueEvent = 0 => ~DequeueEvent.fault

\* A drained system is at rest: no miss, eviction or packet is left anywhere, no
\* port waits for a retry, although a retry may go to a cache that has nothing to
\* send any more (xbar.cc:591), and no event of these objects is scheduled but the
\* end of the memory's last access and the send event of a cache whose eviction
\* was taken away, which will find nothing (drain.cc:73).
DrainedMeansQuiet ==
  state = "Drained" =>
    /\ \A k \in SnoopQueues \cup RespQueues : queue[k] =
         [transmitList |-> <<>>, sendEvent |-> MaxTick, waitingOnRetry |-> FALSE]
    /\ \A l \in Layers : layer[l] =
         [state |-> "IDLE", waitingForLayer |-> <<>>, waitingForPeer |-> NoPort,
          releaseEvent |-> MaxTick]
    /\ mem.packetQueue = <<>> /\ mem.dequeueEvent = MaxTick
    /\ ~mem.retryReq /\ ~mem.retryResp
    /\ \A c \in Requesters :
         /\ ~queue[ReqQueue(c)].waitingOnRetry
         /\ cache[c].mshrQueue = <<>> /\ cache[c].inService = {}
         /\ cache[c].writeBuffer = <<>>

\* Through all of this the objects keep the protocol of the drain manager, of
\* which DrainManager shows that it never panics (drain.cc:59, drain.hh:262).
ManagerProtocol == Spec

\* A drain comes to an end, although objects that have drained are disturbed by
\* write-backs and refused packets have to be sent again (simulate.py:203).
DrainEnds == state = "Draining" ~> state = "Drained"

=============================================================================
