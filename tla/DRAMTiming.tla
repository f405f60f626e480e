----------------------------- MODULE DRAMTiming -----------------------------
(***************************************************************************)
(* The DRAM devices as the controller tracks them (gem5/src/mem/           *)
(* dram_ctrl.cc): the timing of every bank, the activation window, the     *)
(* refresh and power state machines of every rank, the data bus, and the   *)
(* event queue that drives them, tick by tick.                             *)
(*                                                                         *)
(* A tick is stored relative to curTick(), so that states recur, and one   *)
(* that can no longer matter is stored as 0.  What the queues of DRAMCtrl  *)
(* hold is left open: whenever the request event fires it may serve any    *)
(* packet to an available rank, or none.                                   *)
(***************************************************************************)
EXTENDS Integers, Sequences, FiniteSets, FiniteSetsExt, SequencesExt

CONSTANTS
  ranksPerChannel,
  Banks,              \* the banks of a rank
  bankGroupArch,      \* whether the device has bank groups
  bankgr,             \* the bank group of every bank
  Rows,               \* the data rows of a bank
  RowOps,             \* the row operations of Request::RowOp in use
  tRP, tRCD, tCL, tRAS, tBURST, tWR, tRTP, tWTR, tRTW, tCS, tRFC, tREFI,
  tRRD, tRRD_L, tCCD_L, tXAW, tWLOV,
  activationLimit

Ranks == 0..(ranksPerChannel - 1)

\* What the code relies on without checking it: a row stays open longer than it
\* takes to reach a column, and the activation window is not longer than one row
\* cycle.  Of the devices in DRAMCtrl.py that limit activations, all but one have
\* such a window: DDR4_2400_x64 has tRAS 32 and tRP 14.16 ns and a tXAW of 50 ns
\* (DRAMCtrl.py:557-566), and the results are not about it.
ASSUME TimingAssumption ==
  /\ tREFI > tRP /\ tREFI > tRFC
  /\ tRAS >= tRCD /\ tRAS + tRP >= tXAW
  /\ tRRD_L >= tRRD /\ tCCD_L >= tBURST /\ tBURST > 0

VARIABLES
  banks,           \* openRow, colAllowedAt, preAllowedAt, actAllowedAt of each
  actTicks,        \* per rank, newest first: when each recent activation's
                   \* window tXAW ends
  pwrState, pwrStateTrans, refreshState,
  refreshDueAt,    \* when the refresh in progress fell due
  events,          \* the event queue
  busBusyUntil, activeRank,
  fault            \* the first assert, panic or fatal that failed

vars == <<banks, actTicks, pwrState, pwrStateTrans, refreshState, refreshDueAt,
          events, busBusyUntil, activeRank, fault>>

\* The handlers call each other, so each maps the state s of the controller to
\* the state it leaves behind.
State == [banks |-> banks, actTicks |-> actTicks, pwrState |-> pwrState,
          pwrStateTrans |-> pwrStateTrans, refreshState |-> refreshState,
          refreshDueAt |-> refreshDueAt, events |-> events,
          busBusyUntil |-> busBusyUntil, activeRank |-> activeRank,
          fault |-> fault]

Commit(s) ==
  /\ banks' = s.banks /\ actTicks' = s.actTicks
  /\ pwrState' = s.pwrState /\ pwrStateTrans' = s.pwrStateTrans
  /\ refreshState' = s.refreshState /\ refreshDueAt' = s.refreshDueAt
  /\ events' = s.events
  /\ busBusyUntil' = s.busBusyUntil /\ activeRank' = s.activeRank
  /\ fault' = s.fault

later(a, b) == IF a >= b THEN a ELSE b
latest(a, b, c) == later(a, later(b, c))

\* An assert, a panic or a fatal: the first one that fails is kept, and the
\* handlers go on as in a build without them.
Check(s, ok, what) == IF ok \/ s.fault # "none" THEN s ELSE [s EXCEPT !.fault = what]

----------------------------------------------------------------------------
(* The event queue: by tick, and within a tick the youngest event first *)

scheduled(s, what, r) ==
  \E i \in DOMAIN s.events : s.events[i].what = what /\ s.events[i].rank = r
when(s, what, r) ==
  LET i == CHOOSE j \in DOMAIN s.events :
             s.events[j].what = what /\ s.events[j].rank = r
  IN  s.events[i].at

\* A new event is put before the first one that is not due earlier.
schedule(s, what, r, at) ==
  LET first(e) == e.at < at
      rest(e)  == e.at >= at
  IN  [s EXCEPT !.events = SelectSeq(@, first) \o
         <<[what |-> what, rank |-> r, at |-> at, fresh |-> at = 0]>> \o
         SelectSeq(@, rest)]
reschedule(s, what, r, at) ==
  LET other(e) == e.what # what \/ e.rank # r
  IN  schedule([s EXCEPT !.events = SelectSeq(@, other)], what, r, at)

\* The request event belongs to the controller, not to a rank.
NoRank == -1
nextReqScheduled(s) == scheduled(s, "nextReq", NoRank)

----------------------------------------------------------------------------
(* Commands to a bank *)

\* No open row, two open rows, and three rows of the B-group open at once.
NO_ROW == -1
DOUBLE_ROW == -2
B_T0_T1_T2 == -15

sameGroup(b, i) == bankGroupArch /\ bankgr[b] = bankgr[i]

numBanksActive(s, r) == Cardinality({b \in Banks : s.banks[r][b].openRow # NO_ROW})

\* No activation before the oldest one in the window of tXAW has left it.
ForgetsWindow(window) == 0  \* mutant
windowLimit(window) == IF window = <<>> THEN 0 ELSE Last(window)

\* tRRD and tXAW push the next activation of every bank of the rank.
pushActivates(s, r, b, act) ==
  LET window == IF s.actTicks[r] = <<>> THEN <<>>
                ELSE <<act + tXAW>> \o Front(s.actTicks[r])
      rrd(i) == IF sameGroup(b, i) THEN tRRD_L ELSE tRRD
  IN  [s EXCEPT !.actTicks[r] = window,
                !.banks[r] = [i \in Banks |-> [@[i] EXCEPT
                   !.actAllowedAt = latest(@, act + rrd(i), windowLimit(window))]]]

\* The power state follows the earliest activation.
activateAt(s, r, act) ==
  IF ~scheduled(s, "activate", r) THEN schedule(s, "activate", r, act)
  ELSE IF when(s, "activate", r) > act THEN reschedule(s, "activate", r, act)
  ELSE s

activateBank(s, r, b, act, row) ==
  LET s1 == Check(s, s.banks[r][b].openRow = NO_ROW, "row open")
      s2 == Check(s1, s.actTicks[r] = <<>> \/ act >= Last(s.actTicks[r]), "tXAW")
      s3 == [s2 EXCEPT !.banks[r][b].openRow = row,
                       !.banks[r][b].preAllowedAt = act + tRAS,
                       !.banks[r][b].colAllowedAt = later(act + tRCD, @)]
  IN  activateAt(pushActivates(s3, r, b, act), r, act)

\* The power state becomes idle after the latest precharge.
prechargedAt(s, r, done) ==
  IF ~scheduled(s, "precharge", r) THEN schedule(s, "precharge", r, done)
  ELSE IF when(s, "precharge", r) < done THEN reschedule(s, "precharge", r, done)
  ELSE s

prechargeBank(s, r, b, pre) ==
  LET done == pre + tRP
      s1   == Check(s, s.banks[r][b].openRow # NO_ROW, "no row open")
      s2   == [s1 EXCEPT !.banks[r][b].openRow = NO_ROW,
                         !.banks[r][b].preAllowedAt = pre,
                         !.banks[r][b].actAllowedAt = later(@, done)]
  IN  prechargedAt(s2, r, done)

\* Activate one row, or a source and a destination row, then precharge.
apBank(s, r, b, act) ==
  LET s1 == activateBank(s, r, b, act, B_T0_T1_T2)
  IN  prechargeBank(s1, r, b, s1.banks[r][b].preAllowedAt)
LeavesRowsOpen(s, r, b, act) ==  \* mutant
  activateAt(pushActivates([s EXCEPT !.banks[r][b].openRow = DOUBLE_ROW], r, b, act),
             r, act)
aapBank(s, r, b, act) ==
  LET s1 == Check(s, s.banks[r][b].openRow = NO_ROW, "row open")
      s2 == [s1 EXCEPT !.banks[r][b].openRow = DOUBLE_ROW,
                       !.banks[r][b].preAllowedAt = act + tRAS + tWLOV]
      s3 == activateAt(pushActivates(s2, r, b, act), r, act)
  IN  prechargeBank(s3, r, b, s3.banks[r][b].preAllowedAt)

\* The commands of each row operation; the rows they name do not matter here.
rowOpCommands ==
  [ROWAND |-> <<"AAP", "AAP", "AAP", "AAP">>,
   ROWOR  |-> <<"AAP", "AAP", "AAP", "AAP">>,
   ROWNOT |-> <<"AAP", "AAP">>,
   ROWXOR |-> <<"AAP", "AAP", "AAP", "AP", "AP", "AAP", "AAP">>,
   ROWAP  |-> <<"AP">>,
   ROWAAP |-> <<"AAP">>]

\* The bus is taken until a burst could follow the last of the commands, which
\* start at cmd_at and are over at done.
BusyUntilIssued(cmd_at, done) == cmd_at + tCL  \* mutant
readyTime(cmd_at, done) == done + tCL

rowOpAccess(s, q) ==
  LET r  == q.rank
      b  == q.bank
      s1 == IF s.banks[r][b].openRow = NO_ROW THEN s
            ELSE prechargeBank(s, r, b, later(s.banks[r][b].preAllowedAt, 0))
      at == latest(s.banks[r][b].colAllowedAt, 0, s1.banks[r][b].actAllowedAt)
      command(acc, c) ==
        LET t == IF c = "AP" THEN apBank(acc.s, r, b, acc.cmdAt)
                             ELSE aapBank(acc.s, r, b, acc.cmdAt)
        IN  [s |-> t, cmdAt |-> t.banks[r][b].actAllowedAt]
      done == FoldLeft(command, [s |-> s1, cmdAt |-> at], rowOpCommands[q.op])
  IN  [done.s EXCEPT !.activeRank = r, !.busBusyUntil = readyTime(at, done.cmdAt)]

\* A read or write burst.  A different row is opened first; whether the row is
\* closed again at once is decided by the page policy and the queues.
burstAccess(s, q, autoPrecharge) ==
  LET r   == q.rank
      b   == q.bank
      hit == s.banks[r][b].openRow = q.row
      s1  == IF hit \/ s.banks[r][b].openRow = NO_ROW THEN s
             ELSE prechargeBank(s, r, b, later(s.banks[r][b].preAllowedAt, 0))
      s2  == IF hit THEN s
             ELSE activateBank(s1, r, b, later(s1.banks[r][b].actAllowedAt, 0), q.row)
      cmd_at == later(later(s2.banks[r][b].colAllowedAt, 0), s.busBusyUntil - tCL)
      ready  == cmd_at + tCL + tBURST
      s3  == Check(s2, ready - s.busBusyUntil >= tBURST, "bus")
      delay(j, i) == IF j # r THEN tBURST + tCS
                     ELSE IF sameGroup(b, i) THEN tCCD_L ELSE tBURST
      s4  == [s3 EXCEPT !.banks = [j \in Ranks |-> [i \in Banks |->
                [@[j][i] EXCEPT !.colAllowedAt = later(@, cmd_at + delay(j, i))]]]]
      s5  == [s4 EXCEPT !.activeRank = r, !.banks[r][b].preAllowedAt =
                later(@, IF q.kind = "read" THEN cmd_at + tRTP ELSE ready + tWR)]
      s6  == IF autoPrecharge
               THEN prechargeBank(s5, r, b, later(s5.banks[r][b].preAllowedAt, 0))
               ELSE s5
  IN  [s6 EXCEPT !.busBusyUntil = ready]

----------------------------------------------------------------------------
(* The power and refresh state machines of a rank *)

schedulePowerEvent(s, r, state, at) ==
  Check(IF scheduled(s, "power", r) THEN s
        ELSE schedule([s EXCEPT !.pwrStateTrans[r] = state], "power", r, at),
        ~scheduled(s, "power", r), "power event")

processActivateEvent(s, r) ==
  IF s.pwrState[r] # "PWR_ACT" THEN schedulePowerEvent(s, r, "PWR_ACT", 0) ELSE s

IdleAtAnyPrecharge(s, r) == schedulePowerEvent(s, r, "PWR_IDLE", 0)  \* mutant
processPrechargeEvent(s, r) ==
  IF numBanksActive(s, r) = 0 THEN schedulePowerEvent(s, r, "PWR_IDLE", 0) ELSE s

checkDrainDone(s, r) ==
  IF s.refreshState[r] # "REF_DRAIN" THEN s
  ELSE schedule([s EXCEPT !.refreshState[r] = "REF_PRE"], "refresh", r, 0)

\* Precharge all: every open bank at the tick at which the last of them may be.
prechargeAll(s, r) ==
  LET pre_at == later(0, Max({s.banks[r][b].preAllowedAt : b \in Banks}))
      close(t, b) ==
        IF t.banks[r][b].openRow # NO_ROW THEN prechargeBank(t, r, b, pre_at)
        ELSE [t EXCEPT !.banks[r][b].actAllowedAt = later(@, pre_at + tRP),
                       !.banks[r][b].preAllowedAt = later(@, pre_at)]
  IN  FoldSet(LAMBDA b, t : close(t, b), s, Banks)

\* Precharge first if any bank may be open, else start the refresh at once.
AssumesPrecharged(s, r) == schedulePowerEvent(s, r, "PWR_REF", 0)  \* mutant
prepareRefresh(s, r) ==
  IF s.pwrState[r] # "PWR_IDLE" THEN prechargeAll(s, r)
  ELSE schedulePowerEvent(s, r, "PWR_REF", 0)

refreshPrecharge(s, r) ==
  LET s1 == prepareRefresh(s, r)
  IN  Check([s1 EXCEPT !.refreshState[r] = "REF_RUN"],
            numBanksActive(s1, r) = 0, "banks active")

refreshRun(s, r) ==
  LET s1 == Check(s, numBanksActive(s, r) = 0, "banks active")
      s2 == Check(s1, s.pwrState[r] = "PWR_REF", "not in PWR_REF")
      s3 == [s2 EXCEPT !.banks[r] =
               [b \in Banks |-> [@[b] EXCEPT !.actAllowedAt = tRFC]]]
      s4 == Check(s3, s.refreshDueAt[r] + tREFI >= tRFC, "refresh too late")
      s5 == schedule(s4, "refresh", r, s.refreshDueAt[r] + tREFI - tRP)
  IN  schedulePowerEvent(s5, r, "PWR_IDLE", tRFC)

\* A request to this rank is being handled.
AlwaysWaits(s, r) == r = s.activeRank  \* mutant
waitsForRequest(s, r) == r = s.activeRank /\ nextReqScheduled(s)

processRefreshEvent(s, r) ==
  LET s1 == IF s.refreshState[r] # "REF_IDLE" THEN s
            ELSE [s EXCEPT !.refreshDueAt[r] = 0, !.refreshState[r] = "REF_DRAIN"]
  IN  CASE s1.refreshState[r] = "REF_RUN" -> refreshRun(s1, r)
        [] s1.refreshState[r] = "REF_DRAIN" /\ waitsForRequest(s, r) -> s1
        [] OTHER -> refreshPrecharge(s1, r)

processPowerEvent(s, r) ==
  LET prev == s.pwrState[r]
      next == s.pwrStateTrans[r]
      s1   == [s EXCEPT !.pwrState[r] = next]
      s2   == [s1 EXCEPT !.refreshState[r] = "REF_IDLE"]
  IN  CASE next = "PWR_IDLE" /\ prev = "PWR_REF" ->
             IF nextReqScheduled(s2) THEN s2 ELSE schedule(s2, "nextReq", NoRank, 0)
        [] next = "PWR_IDLE" /\ prev # "PWR_REF" ->
             LET s3 == Check(s1, prev = "PWR_ACT", "idle twice")
             IN  IF s.refreshState[r] = "REF_RUN"
                   THEN processRefreshEvent([s3 EXCEPT !.pwrState[r] = "PWR_REF"], r)
                   ELSE s3
        [] next = "PWR_REF" ->
             processRefreshEvent(
               Check(s1, s.refreshState[r] = "REF_RUN", "refresh not running"), r)
        [] OTHER -> s1

----------------------------------------------------------------------------
(* Steps *)

\* nextReqTime is always this; a bubble before it is only ever a lower bound.
nextReqTime(s) == later(s.busBusyUntil - (tRP + tRCD + tCL), 0)
BusFloor == -later(tWTR, tRTW)

BurstRequest == [kind : {"read", "write"}, rank : Ranks, bank : Banks, row : Rows]
RowOpRequest == [rank : Ranks, bank : Banks, op : RowOps]

isAvailable(s, r) == s.refreshState[r] = "REF_IDLE"

\* The state d ticks later.  A tick in the past acts like the present one; the
\* bus may still be lengthened by a bubble, and refreshDueAt is read only while
\* a refresh is in progress.
Aged(d) ==
  LET ago(t) == later(t - d, 0)
  IN  [State EXCEPT
        !.banks = [r \in Ranks |-> [b \in Banks |->
           [openRow      |-> banks[r][b].openRow,
            colAllowedAt |-> ago(banks[r][b].colAllowedAt),
            preAllowedAt |-> ago(banks[r][b].preAllowedAt),
            actAllowedAt |-> ago(banks[r][b].actAllowedAt)]]],
        !.actTicks = [r \in Ranks |-> [i \in DOMAIN actTicks[r] |-> ago(actTicks[r][i])]],
        !.refreshDueAt = [r \in Ranks |-> IF isAvailable(State, r) THEN 0
                                          ELSE refreshDueAt[r] - d],
        !.events = [i \in DOMAIN events |-> [events[i] EXCEPT !.at = @ - d]],
        !.busBusyUntil = later(@ - d, BusFloor)]

\* serviceOne: time moves to the head of the queue, which leaves it.
Fires(what) == events # <<>> /\ Head(events).what = what
Serviced == [Aged(Head(events).at) EXCEPT !.events = Tail(@)]

\* The bubble when the bus turns around, in an access to the rank of the last one;
\* a row operation overwrites busBusyUntil and with it the bubble.
turnaround(s, q) ==
  [s EXCEPT !.busBusyUntil = @ + IF q.kind = "read" THEN tWTR + tCL ELSE tRTW]

scheduleNext(s) == IF nextReqScheduled(s) THEN s
                   ELSE schedule(s, "nextReq", NoRank, nextReqTime(s))

processNextReqEvent ==
  LET s1 == FoldLeft(checkDrainDone, Serviced, [i \in 1..ranksPerChannel |-> i - 1])
  IN  /\ Fires("nextReq")
      /\ \/ Commit(s1)
         \/ /\ \E r \in Ranks : isAvailable(s1, r)
            /\ Commit(scheduleNext(s1))
         \/ \E q \in RowOpRequest :
              /\ isAvailable(s1, q.rank)
              /\ Commit(scheduleNext(rowOpAccess(s1, q)))
         \/ \E q \in BurstRequest, turned, autoPrecharge \in BOOLEAN :
              /\ isAvailable(s1, q.rank)
              /\ turned => q.rank = activeRank
              /\ LET s2 == IF turned THEN turnaround(s1, q) ELSE s1
                 IN  Commit(scheduleNext(burstAccess(s2, q, autoPrecharge)))

\* A packet is queued: the request event is scheduled for the current tick.  It is
\* sent by an event of another object, and that cannot overtake an event that was
\* scheduled for the current tick just now.
Arrive(d) ==
  /\ ~nextReqScheduled(State)
  /\ ~Head(events).fresh
  /\ Commit(schedule(Aged(d), "nextReq", NoRank, 0))

RankEvent ==
  LET r == Head(events).rank
  IN  \/ Fires("activate") /\ Commit(processActivateEvent(Serviced, r))
      \/ Fires("precharge") /\ Commit(processPrechargeEvent(Serviced, r))
      \/ Fires("refresh") /\ Commit(processRefreshEvent(Serviced, r))
      \/ Fires("power") /\ Commit(processPowerEvent(Serviced, r))

Init ==
  /\ banks = [r \in Ranks |-> [b \in Banks |->
       [openRow |-> NO_ROW, colAllowedAt |-> 0, preAllowedAt |-> 0,
        actAllowedAt |-> 0]]]
  /\ actTicks = [r \in Ranks |-> [i \in 1..activationLimit |-> 0]]
  /\ pwrState = [r \in Ranks |-> "PWR_IDLE"]
  /\ pwrStateTrans = [r \in Ranks |-> "PWR_IDLE"]
  /\ refreshState = [r \in Ranks |-> "REF_IDLE"]
  /\ refreshDueAt = [r \in Ranks |-> 0]
  /\ events = [i \in 1..ranksPerChannel |->
       [what |-> "refresh", rank |-> ranksPerChannel - i, at |-> tREFI - tRP,
        fresh |-> FALSE]]
  /\ busBusyUntil = tRP + tRCD + tCL
  /\ activeRank = 0
  /\ fault = "none"

Next ==
  \/ processNextReqEvent
  \/ \E d \in 0..Head(events).at : Arrive(d)
  \/ RankEvent

Spec == Init /\ [][Next]_vars

----------------------------------------------------------------------------
(* Properties *)

\* Every variable holds a value of its kind; in particular no step leaves two
\* rows, or rows of the B-group, open.
TypeOK ==
  /\ banks \in [Ranks -> [Banks -> [openRow : Rows \cup {NO_ROW},
       colAllowedAt : Nat, preAllowedAt : Nat, actAllowedAt : Nat]]]
  /\ \A r \in Ranks : actTicks[r] \in Seq(Nat) /\ Len(actTicks[r]) = activationLimit
  /\ pwrState \in [Ranks -> {"PWR_IDLE", "PWR_ACT", "PWR_REF"}]
  /\ pwrStateTrans \in [Ranks -> {"PWR_IDLE", "PWR_ACT", "PWR_REF"}]
  /\ refreshState \in [Ranks -> {"REF_IDLE", "REF_DRAIN", "REF_PRE", "REF_RUN"}]
  /\ \A i \in DOMAIN events : events[i].at \in Nat
  /\ \A i, j \in DOMAIN events : i < j => events[i].at <= events[j].at
  /\ activeRank \in Ranks

\* No command breaks the bank protocol: a row is opened in a closed bank and
\* closed in an open one, no activation comes too early for tXAW, and no two
\* bursts overlap on the data bus (dram_ctrl.cc:930, 984, 1026, 1250).
CommandsLegal == fault \notin {"row open", "no row open", "tXAW", "bus"}

\* The power and refresh state machines never contradict each other: one power
\* transition is pending at a time (dram_ctrl.cc:1930), and each finds the state
\* it expects (1856, 1964, 1987).
PowerTransitionsAgree ==
  fault \notin {"power event", "idle twice", "refresh not running", "not in PWR_REF"}

\* A refresh finds all banks closed and is never fatally late
\* (dram_ctrl.cc:1843, 1855, 1896).
RefreshNeverFails == fault \notin {"banks active", "refresh too late"}

\* While a rank refreshes, nothing is under way in it: no row is open, no
\* command is still to take effect, no bank may be activated
\* before the refresh is over, and the next refresh does not come before its end.
RefreshUndisturbed ==
  \A r \in Ranks : pwrState[r] = "PWR_REF" =>
    /\ \A b \in Banks : /\ banks[r][b].openRow = NO_ROW
                        /\ banks[r][b].preAllowedAt = 0
                        /\ banks[r][b].actAllowedAt >= when(State, "power", r)
    /\ ~scheduled(State, "activate", r) /\ ~scheduled(State, "precharge", r)
    /\ when(State, "power", r) <= when(State, "refresh", r)

\* A rank in the idle power state has all banks precharged, but for rows that
\* are about to be opened; an activated rank will hear of its last precharge.
PowerFollowsBanks ==
  \A r \in Ranks :
    /\ pwrState[r] = "PWR_IDLE" /\ numBanksActive(State, r) > 0 =>
         scheduled(State, "activate", r) \/ scheduled(State, "power", r)
    /\ pwrState[r] = "PWR_ACT" /\ numBanksActive(State, r) = 0 =>
         scheduled(State, "precharge", r) \/ scheduled(State, "power", r)

\* The ticks that pass in a step are at most those until the next event.
Passed(t) == t - Head(events).at

\* The data bus is never given back before the transfers it was given for are
\* over, whatever a row operation takes it until (dram_ctrl.cc:1212): reads are
\* answered in the order of their readyTime (1529).
BusNeverGoesBack == [][busBusyUntil' >= later(Passed(busBusyUntil), BusFloor)]_vars

\* No step moves the earliest activation of a bank forward, not even the plain
\* assignment a refresh makes (dram_ctrl.cc:1861).
ActivationsNeverEarlier ==
  [][\A r \in Ranks, b \in Banks :
       banks'[r][b].actAllowedAt >= later(Passed(banks[r][b].actAllowedAt), 0)]_vars

\* The refresh loops, driven by the event queue, keep the protocol with the
\* request loop on which DRAMCtrl is built (dram_ctrl.cc:1411, 1725, 1762, 1953).
Protocol == INSTANCE RankRefresh WITH nextReqEvent <- nextReqScheduled(State)
RefreshProtocol == Protocol!Spec

=============================================================================
