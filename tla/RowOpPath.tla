----------------------------- MODULE RowOpPath -----------------------------
(***************************************************************************)
(* The way of a row operation from an out-of-order core to memory: the     *)
(* load/store queue (gem5/src/cpu/o3/lsq_unit.hh, lsq_unit_impl.hh), the   *)
(* data cache that flushes the operands, its miss queue and write buffer   *)
(* (gem5/src/mem/cache/cache.cc, base.hh, mshr_queue.cc), and a memory     *)
(* that performs writes and row operations when they arrive and reads some *)
(* time later (dram_ctrl.cc, abstract_mem.cc).                             *)
(*                                                                         *)
(* The core runs a short program of loads, stores and row operations with  *)
(* one source.  Loads and stores access whole words, and every store       *)
(* writes a value of its own: a value is the sequence of the instructions  *)
(* it comes from.                                                          *)
(* Translation is immediate and succeeds.  One core, one cache: no snoops, *)
(* and every valid block is writable.                                      *)
(***************************************************************************)
EXTENDS Integers, Sequences, FiniteSets, FiniteSetsExt

CONSTANTS
  Rows, LinesPerRow,     \* ROW_SIZE / blkSize
  Words,                 \* the words of a line
  MaxInsts,              \* the length of the program
  mshrs, write_buffers, reserve,  \* the sizes of the cache's queues
  MaxSquashes            \* how often the core squashes for other reasons than order

\* The reserve takes what one row operation flushes, the operation itself and
\* the victims of all outstanding misses (base.cc:72: mshrs + 1000).
ASSUME ReserveAssumption == reserve >= mshrs + 2 * LinesPerRow + 2

Lines == Rows \X (1..LinesPerRow)
LinesOf(r) == {r} \X (1..LinesPerRow)
Insts == 1..MaxInsts

Instructions == [op : {"load", "store"}, line : Lines, word : Words]
                  \cup [op : {"rowop"}, dest : Rows, src : Rows]

VARIABLES
  program,      \* the instructions, in program order
  status,       \* of each: see below
  value,        \* what each load returned
  head,         \* how many have committed
  stall,        \* stalled, stallingLoadIdx and stallingStoreIsn; 0 for none
  isStoreBlocked,
  cache,
  memory,
  squashes      \* how often it has

vars == <<program, status, value, head, stall, isStoreBlocked, cache, memory, squashes>>

\* A load is idle until it is first executed, then stalled on a row operation,
\* blocked by the cache, or to be replayed, until it is pending in the cache or
\* done.  A store is idle, executed, sent to the cache, completed.
isStore(i) == program[i].op # "load"
effAddrValid(i) == status[i] # "idle"

NotStalled == [load |-> 0, store |-> 0]
Zeros == [w \in Words |-> <<>>]
NoBlock == [state |-> "invalid", data |-> Zeros]

----------------------------------------------------------------------------
(* The cache *)

\* Entries of the miss queue and of the write buffer that are not yet sent are
\* kept together in the order of allocation, in which they become ready.
missEntries(c)  == {k \in DOMAIN c.queue : c.queue[k].kind = "miss"}
writeEntries(c) == DOMAIN c.queue \ missEntries(c)

writesAllocated(c) == Cardinality(writeEntries(c)) + (IF c.rowop = 0 THEN 0 ELSE 1)
missesAllocated(c) == Cardinality(missEntries(c)) + Cardinality(c.inService)

blocked(c) == missesAllocated(c) >= mshrs \/ writesAllocated(c) >= write_buffers

allocate(c, e) == [c EXCEPT !.queue = Append(@, e)]

\* A valid block leaves the cache: dirty data is written back.
Evicted(blk, l) == [kind |-> IF blk.state = "dirty" THEN "Writeback" ELSE "CleanEvict",
                    line |-> l, data |-> blk.data]
writebackAddr(c, l) ==
  IF c.blk[l].state = "invalid" THEN c
  ELSE allocate([c EXCEPT !.blk[l] = NoBlock], Evicted(c.blk[l], l))

\* A row operation flushes all lines of its operands before it is queued.
FlushesSourceOnly(q) == {q.src}  \* mutant
operands(q) == {q.dest, q.src}
flush(c, q) ==
  FoldSet(LAMBDA l, d : writebackAddr(d, l), c, UNION {LinesOf(r) : r \in operands(q)})

\* findMatch in the miss queue: an entry for the line, sent or not.
matching(c, l) == {k \in DOMAIN c.queue : c.queue[k].kind = "miss" /\ c.queue[k].line = l}

\* An access of instruction i that misses joins the outstanding miss to its line.
allocateMiss(c, l, i) ==
  IF matching(c, l) # {}
    THEN [c EXCEPT !.queue[Min(matching(c, l))].targets = Append(@, i)]
  ELSE IF \E m \in c.inService : m.line = l
    THEN [c EXCEPT !.inService =
            {IF m.line = l THEN [m EXCEPT !.targets = Append(@, i)] ELSE m : m \in @}]
  ELSE allocate(c, [kind |-> "miss", line |-> l, targets |-> <<i>>])

\* What the cache does with an accepted request; a store hit is written at once.
recvTimingReq(c, i) ==
  LET q == program[i]
  IN  IF q.op = "rowop"
        THEN allocate(flush(c, q), [kind |-> "rowop", inst |-> i])
      ELSE IF c.blk[q.line].state = "invalid" THEN allocateMiss(c, q.line, i)
      ELSE IF q.op = "store"
        THEN [c EXCEPT !.blk[q.line].state = "dirty", !.blk[q.line].data[q.word] = <<i>>]
      ELSE c

hits(c, i) == program[i].op # "rowop" /\ c.blk[program[i].line].state # "invalid"
refuses(c) == blocked(c) \/ c.mustSendRetry

----------------------------------------------------------------------------
(* The load/store queue *)

\* The store queue entries that a load looks at, and those that hold its line.
Writes(j, i) ==
  IF program[j].op = "rowop" THEN program[j].dest = program[i].line[1]
  ELSE program[j].line = program[i].line /\ program[j].word = program[i].word
storesFor(i) ==
  {j \in 1..(i - 1) : isStore(j) /\ status[j] = "executed" /\ Writes(j, i)}

\* Loads and stores from instruction k on leave the queues and are fetched again;
\* an answer that is still to come for one of them is ignored.
squash(st, k) ==
  LET forget(targets) == [t \in DOMAIN targets |-> IF targets[t] >= k THEN 0 ELSE targets[t]]
  IN  /\ status' = [i \in Insts |-> IF i >= k THEN "idle" ELSE st[i]]
      /\ stall' = IF stall.load >= k THEN NotStalled ELSE stall
      /\ cache' = [cache EXCEPT
           !.queue = [n \in DOMAIN @ |-> IF @[n].kind = "miss"
                        THEN [@[n] EXCEPT !.targets = forget(@)] ELSE @[n]],
           !.inService = {[m EXCEPT !.targets = forget(@)] : m \in @}]

Replayed(st, what) == [i \in Insts |-> IF st[i] = what THEN "replay" ELSE st[i]]

Executable(i) == i > head /\ status[i] \in {"idle", "replay"}

\* A load takes the data of the youngest older store to its line, waits for a
\* row operation that will write its line, or goes to the cache.
executeLoad(i) ==
  LET j == Max(storesFor(i))
      c == recvTimingReq(cache, i)
  IN  /\ Executable(i) /\ program[i].op = "load"
      /\ \/ /\ storesFor(i) # {} /\ program[j].op = "store"
            /\ status' = [status EXCEPT ![i] = "done"]
            /\ value' = [value EXCEPT ![i] = <<j>>]
            /\ UNCHANGED <<stall, cache>>
         \/ /\ storesFor(i) # {} /\ program[j].op = "rowop"
            /\ status' = [status EXCEPT ![i] = "stalled"]
            /\ stall' = IF stall.load = 0 \/ i < stall.load
                          THEN [load |-> i, store |-> j] ELSE stall
            /\ UNCHANGED <<value, cache>>
         \/ /\ storesFor(i) = {} /\ refuses(cache)
            /\ status' = [status EXCEPT ![i] = "blocked"]
            /\ cache' = [cache EXCEPT !.mustSendRetry = TRUE]
            /\ UNCHANGED <<value, stall>>
         \/ /\ storesFor(i) = {} /\ ~refuses(cache)
            /\ status' = [status EXCEPT ![i] = IF hits(cache, i) THEN "done" ELSE "pending"]
            /\ value' = [value EXCEPT ![i] = IF hits(cache, i)
                           THEN cache.blk[program[i].line].data[program[i].word] ELSE @]
            /\ cache' = c
            /\ UNCHANGED stall
      /\ UNCHANGED <<program, head, isStoreBlocked, memory, squashes>>

\* Younger loads that have an address: those to the address of the store have
\* passed it.  A row operation has the address 0.
Violators(i) ==
  {j \in (i + 1)..MaxInsts : /\ program[j].op = "load" /\ effAddrValid(j)
                             /\ program[i].op = "store" /\ Writes(i, j)}

executeStore(i) ==
  LET st == [status EXCEPT ![i] = "executed"]
  IN  /\ Executable(i) /\ isStore(i)
      /\ IF Violators(i) # {} THEN squash(st, Min(Violators(i)))
                              ELSE status' = st /\ UNCHANGED <<stall, cache>>
      /\ UNCHANGED <<program, value, head, isStoreBlocked, memory, squashes>>

\* Instructions commit in program order; a store that has committed may be sent.
commit ==
  /\ head < MaxInsts
  /\ status[head + 1] = IF isStore(head + 1) THEN "executed" ELSE "done"
  /\ head' = head + 1
  /\ UNCHANGED <<program, status, value, stall, isStoreBlocked, cache, memory, squashes>>

\* Something else squashes from instruction k on (an interrupt, a branch both of
\* whose paths lead here), and the instructions are fetched again.
refetch ==
  /\ squashes < MaxSquashes
  /\ \E k \in (head + 1)..MaxInsts : effAddrValid(k) /\ squash(status, k)
  /\ squashes' = squashes + 1
  /\ UNCHANGED <<program, value, head, isStoreBlocked, memory>>

\* The store that is next to be sent.  Under TSO one store is in flight at a time.
mayBeSent(j) == j <= head /\ \A i \in Insts : status[i] # "sent"
unsent == {j \in Insts : isStore(j) /\ status[j] = "executed"}

\* The cache has accepted store j: loads that waited for it, and all others that
\* wait, are replayed.
OneReplay(st, j) ==  \* mutant
  IF stall.store # j THEN st ELSE [st EXCEPT ![stall.load] = "replay"]
replayMemInst(st, j) == IF stall.store # j THEN st ELSE Replayed(st, "stalled")
storePostSend(st, j) ==
  /\ status' = replayMemInst([st EXCEPT ![j] = IF hits(cache, j) THEN "completed"
                                                                 ELSE "sent"], j)
  /\ stall' = IF stall.store = j THEN NotStalled ELSE stall

writebackStores ==
  LET j == Min(unsent)
  IN  /\ unsent # {} /\ mayBeSent(j) /\ ~isStoreBlocked
      /\ IF refuses(cache)
           THEN /\ isStoreBlocked' = TRUE
                /\ cache' = [cache EXCEPT !.mustSendRetry = TRUE]
                /\ UNCHANGED <<status, stall>>
           ELSE /\ storePostSend(status, j)
                /\ cache' = recvTimingReq(cache, j)
                /\ UNCHANGED isStoreBlocked
      /\ UNCHANGED <<program, value, head, memory, squashes>>

\* The cache is no longer blocked: blocked loads go back to the ready list, and a
\* store that was refused is sent again.
recvReqRetry ==
  LET st == Replayed(status, "blocked")
      c  == [cache EXCEPT !.mustSendRetry = FALSE]
  IN  /\ cache.mustSendRetry /\ ~blocked(cache)
      /\ IF isStoreBlocked
           THEN storePostSend(st, Min(unsent)) /\ cache' = recvTimingReq(c, Min(unsent))
           ELSE status' = st /\ cache' = c /\ UNCHANGED stall
      /\ isStoreBlocked' = FALSE
      /\ UNCHANGED <<program, value, head, memory, squashes>>

----------------------------------------------------------------------------
(* The cache and memory *)

\* The entries for line l among the given ones; a row operation has the address 0.
forLine(c, K, l) == {k \in K : c.queue[k].kind # "rowop" /\ c.queue[k].line = l}

NeverPending(c, writes, m) == {}  \* mutant
pending(c, writes, m) == forLine(c, writes, c.queue[m].line)

\* The entry sent next, when the first r are ready: a miss if there is one, else a
\* write; a full write buffer goes first.  An entry of the other queue for the same
\* line goes before a write if it is older, and before a miss in any case.
getNextMSHR(c, r) ==
  LET writes == writeEntries(c)
      misses == missEntries(c)
      w      == Min(writes)
      m      == Min(misses)
      full   == writesAllocated(c) >= write_buffers /\ c.rowop = 0
      writeReady == writes # {} /\ w <= r
      missReady  == misses # {} /\ m <= r
      older   == IF c.queue[w].kind = "rowop" THEN {}
                 ELSE {k \in forLine(c, misses, c.queue[w].line) : k < w}
      earlier == pending(c, writes, m)
  IN  IF writeReady /\ (full \/ ~missReady)
        THEN IF older # {} THEN Min(older) ELSE w
        ELSE IF earlier # {} THEN Min(earlier) ELSE m

rowOpAccess(mem, i) ==
  [l \in Lines |-> IF l[1] # program[i].dest THEN mem[l]
                   ELSE [w \in Words |-> <<i>> \o mem[<<program[i].src, l[2]>>][w]]]

\* The entry is sent, in order, to memory.  Writebacks are done with; a row
\* operation keeps its entry until it is answered.
sendDeferredPacket ==
  \E r \in DOMAIN cache.queue :
    LET k == getNextMSHR(cache, r)
        e == cache.queue[k]
        c == [cache EXCEPT !.queue = SubSeq(@, 1, k - 1) \o SubSeq(@, k + 1, Len(@))]
    IN  /\ cache' = CASE e.kind = "miss"  -> [c EXCEPT !.inService = @ \cup
                            {[line |-> e.line, targets |-> e.targets, read |-> FALSE,
                              data |-> Zeros]}]
                      [] e.kind = "rowop" -> [c EXCEPT !.rowop = e.inst]
                      [] OTHER            -> c
        /\ memory' = CASE e.kind = "Writeback" -> [memory EXCEPT ![e.line] = e.data]
                       [] e.kind = "rowop"     -> rowOpAccess(memory, e.inst)
                       [] OTHER                -> memory
        /\ UNCHANGED <<program, status, value, head, stall, isStoreBlocked, squashes>>

\* Memory reads the line of a miss when the read is serviced.
accessAndRespond ==
  \E m \in cache.inService :
    /\ ~m.read
    /\ cache' = [cache EXCEPT !.inService = (@ \ {m}) \cup
                   {[m EXCEPT !.read = TRUE, !.data = memory[m.line]]}]
    /\ UNCHANGED <<program, status, value, head, stall, isStoreBlocked, memory, squashes>>

\* The block is filled, replacing some other block; the targets of the miss are
\* served in order.
recvTimingResp ==
  \E m \in cache.inService :
    LET n == Len(m.targets)
        at(i) == Min({t \in 1..n : m.targets[t] = i})
        served == {m.targets[t] : t \in 1..n} \ {0}
        stores(w) == {i \in served : isStore(i) /\ program[i].word = w}
        dataAt(w, t) == LET S == {at(i) : i \in stores(w)} \cap (1..t)
                        IN  IF S = {} THEN m.data[w] ELSE <<m.targets[Max(S)]>>
        c  == [cache EXCEPT !.inService = @ \ {m}, !.blk[m.line] =
                 [state |-> IF \E i \in served : isStore(i) THEN "dirty" ELSE "clean",
                  data  |-> [w \in Words |-> dataAt(w, n)]]]
        valid == {l \in Lines : cache.blk[l].state # "invalid"}
    IN  /\ m.read
        /\ \/ cache' = c
           \/ \E l \in valid : cache' = writebackAddr(c, l)
        /\ status' = [i \in Insts |-> IF i \notin served THEN status[i]
                       ELSE IF isStore(i) THEN "completed" ELSE "done"]
        /\ value' = [i \in Insts |-> IF i \in served THEN dataAt(program[i].word, at(i))
                                                   ELSE value[i]]
        /\ UNCHANGED <<program, head, stall, isStoreBlocked, memory, squashes>>

\* Memory has answered a row operation.
completeStore ==
  /\ cache.rowop # 0
  /\ status' = [status EXCEPT ![cache.rowop] = "completed"]
  /\ cache' = [cache EXCEPT !.rowop = 0]
  /\ UNCHANGED <<program, value, head, stall, isStoreBlocked, memory, squashes>>

Init ==
  /\ program \in [Insts -> Instructions]
  /\ \E i \in Insts : program[i].op = "rowop"
  /\ status = [i \in Insts |-> "idle"]
  /\ value = [i \in Insts |-> <<>>]
  /\ head = 0
  /\ stall = NotStalled
  /\ isStoreBlocked = FALSE
  /\ cache = [blk |-> [l \in Lines |-> NoBlock], queue |-> <<>>, inService |-> {},
              rowop |-> 0, mustSendRetry |-> FALSE]
  /\ memory = [l \in Lines |-> Zeros]
  /\ squashes = 0

Step ==
  \/ \E i \in Insts : executeLoad(i) \/ executeStore(i)
  \/ commit
  \/ writebackStores
  \/ recvReqRetry
  \/ sendDeferredPacket
  \/ accessAndRespond
  \/ recvTimingResp
  \/ completeStore

Next == Step \/ refetch

\* The pipeline ticks and the events of the cache and of memory fire as long as
\* there is anything to do.
Spec == Init /\ [][Next]_vars /\ WF_vars(Step)

----------------------------------------------------------------------------
(* Properties *)

\* Memory after the first n instructions, one after the other.
InOrder ==
  LET after[n \in 0..MaxInsts] ==
        IF n = 0 THEN [l \in Lines |-> Zeros]
        ELSE CASE program[n].op = "load"  -> after[n - 1]
               [] program[n].op = "store" -> [after[n - 1] EXCEPT
                                                 ![program[n].line][program[n].word] = <<n>>]
               [] program[n].op = "rowop" -> rowOpAccess(after[n - 1], n)
  IN  after

Finished == head = MaxInsts /\ \A i \in Insts : isStore(i) => status[i] = "completed"

\* No load comes from the destination of an older row operation.
NotReadBack ==
  \A i, j \in Insts : i < j /\ program[i].op = "rowop" /\ program[j].op = "load" =>
    program[j].line[1] # program[i].dest

\* Stores and row operations take effect in program order: when all have completed
\* and nothing is under way, every word, in memory or dirty in the cache, is what
\* the program says.  So a row operation finds the data of all older stores in
\* memory, wherever the cache held it, and no block that was dirty before it is
\* written over its result (cache.cc:306, 646; lsq_unit_impl.hh:792).  A load that
\* overtakes a row operation to its row leaves an old block in the cache, and the
\* next store to that block keeps the rest of it: hence the condition.
WritesInProgramOrder ==
  NotReadBack /\ Finished /\ cache.queue = <<>> =>
    \A l \in Lines : InOrder[MaxInsts][l] =
      IF cache.blk[l].state = "dirty" THEN cache.blk[l].data ELSE memory[l]

\* What the handlers take for granted holds: the write buffer has an entry for
\* everything a row operation flushes (mshr_queue.cc:151), no block is filled while
\* an eviction of it waits (cache.cc:1633), and a load never stays stalled on a
\* store that is gone or squashed (lsq_unit_impl.hh:1052).
QueuesExpected ==
  /\ writesAllocated(cache) <= write_buffers + reserve - 1
  /\ \A m \in cache.inService, k \in DOMAIN cache.queue :
       k \notin forLine(cache, writeEntries(cache), m.line)
  /\ \A i \in Insts : status[i] = "stalled" =>
       stall.load \in 1..i /\ status[stall.store] = "executed"

\* Every instruction commits and every store completes: no load that was stalled
\* or blocked is forgotten, and no refused store (lsq_unit_impl.hh:1085, 1232).
EveryInstructionCompletes == <>[]Finished

\* A load returns what program order says: that younger loads which match a store's
\* address are found when it executes (lsq_unit_impl.hh:667).
LoadsInProgramOrder ==
  \A i \in 1..head : program[i].op = "load" =>
    value[i] = InOrder[i - 1][program[i].line][program[i].word]

=============================================================================
