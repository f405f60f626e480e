------------------------------- MODULE FRFCFS -------------------------------
(***************************************************************************)
(* The choice among queued packets under the policy frfcfs (reorderQueue   *)
(* and minBankPrep of gem5/src/mem/dram_ctrl.cc), in whatever state the    *)
(* devices of DRAMTiming are when the request event fires.  A packet is    *)
(* the rank, bank and row it goes to; the choice is its place in the queue *)
(* or 0.  The banks are gone through in a given order, as their bits are   *)
(* in earliest_banks.                                                      *)
(***************************************************************************)
EXTENDS DRAMTiming

CONSTANT MaxQueue      \* the longest queue considered

Packet == [rank : Ranks, bank : Banks, row : Rows]

\* The tick by which a column command must issue to keep the bus busy, and the
\* latest activation that delays no burst.
min_col_at(s, extra_col_delay) == later(s.busBusyUntil - tCL + extra_col_delay, 0)
hidden_act_max(minCol) == later(minCol - tRCD, 0)

\* When a bank could be activated, and the column command that could follow.
act_at(s, k) ==
  LET b == s.banks[k.rank][k.bank]
  IN  IF b.openRow = NO_ROW THEN later(b.actAllowedAt, 0)
                            ELSE later(b.preAllowedAt, 0) + tRP
col_at(s, k) == later(s.banks[k.rank][k.bank].colAllowedAt, act_at(s, k) + tRCD)

\* One bank of the search: it joins the banks found if a burst can follow at once,
\* or if none found so far is like that and it is not later than they are; what was
\* found before is dropped if the bank is strictly better.
NeverDropped(s, minCol, best, k) ==  \* mutant
  LET seamless == col_at(s, k) <= minCol
  IN  IF ~(seamless \/ (~best.seamless /\ act_at(s, k) <= best.act)) THEN best
      ELSE [mask |-> best.mask \cup {k}, seamless |-> best.seamless \/ seamless,
            hidden |-> act_at(s, k) <= hidden_act_max(minCol), act |-> act_at(s, k)]
compareBank(s, minCol, best, k) ==
  LET seamless == col_at(s, k) <= minCol
      act      == act_at(s, k)
      better   == ~best.seamless /\ (seamless \/ act < best.act)
  IN  IF ~(seamless \/ (~best.seamless /\ act <= best.act)) THEN best
      ELSE [mask     |-> (IF better THEN {} ELSE best.mask) \cup {k},
            seamless |-> best.seamless \/ seamless,
            hidden   |-> act <= hidden_act_max(minCol),
            act      |-> act]

BankOf(p) == [rank |-> p.rank, bank |-> p.bank]
MaxTick == 10 * tREFI

got_waiting(s, queue) ==
  {BankOf(queue[i]) : i \in {j \in DOMAIN queue : isAvailable(s, queue[j].rank)}}

minBankPrep(s, waiting, minCol, order) ==
  LET none == [mask |-> {}, seamless |-> FALSE, hidden |-> FALSE, act |-> MaxTick]
      best[n \in 0..Len(order)] ==
        IF n = 0 THEN none
        ELSE IF order[n] \notin waiting THEN best[n - 1]
        ELSE compareBank(s, minCol, best[n - 1], order[n])
  IN  best[Len(order)]

rowHit(s, p) == s.banks[p.rank][p.bank].openRow = p.row

\* prep is what minBankPrep finds for the banks that wait.
reorderQueue(s, queue, minCol, prep) ==
  LET look(acc, i) ==
        LET p   == queue[i]
            hit == rowHit(s, p)
        IN  CASE acc.done \/ ~isAvailable(s, p.rank) -> acc
              [] hit /\ s.banks[p.rank][p.bank].colAllowedAt <= minCol ->
                   [acc EXCEPT !.selected = i, !.done = TRUE]
              [] hit /\ ~acc.hidden /\ ~acc.prepped ->
                   [acc EXCEPT !.selected = i, !.prepped = TRUE]
              [] ~hit /\ ~acc.earliest /\ BankOf(p) \in prep.mask ->
                   [acc EXCEPT !.earliest = TRUE, !.hidden = prep.hidden,
                      !.selected = IF prep.hidden \/ ~acc.prepped THEN i ELSE @]
              [] OTHER -> acc
      start == [selected |-> 0, done |-> FALSE, hidden |-> FALSE,
                prepped |-> FALSE, earliest |-> FALSE]
      found[n \in 0..Len(queue)] == IF n = 0 THEN start ELSE look(found[n - 1], n)
  IN  found[Len(queue)].selected

----------------------------------------------------------------------------
(* What the scheduler promises *)

\* The oldest row hit that keeps the bus busy; failing that the oldest miss to a
\* best bank, if the activation is hidden behind earlier bursts or there is no
\* hit at all; else the oldest hit.
BestChoice(s, queue, minCol) ==
  LET free     == {i \in DOMAIN queue : isAvailable(s, queue[i].rank)}
      hits     == {i \in free : rowHit(s, queue[i])}
      seamless == {i \in hits : s.banks[queue[i].rank][queue[i].bank].colAllowedAt <= minCol}
      act      == [i \in free |-> act_at(s, BankOf(queue[i]))]
      onTime   == {i \in free : col_at(s, BankOf(queue[i])) <= minCol}
      best     == IF onTime # {} THEN onTime
                  ELSE {i \in free : \A j \in free : act[i] <= act[j]}
      hidden   == {i \in best \ hits : act[i] <= hidden_act_max(minCol)}
  IN  IF free = {} THEN 0
      ELSE Min(CASE seamless # {} -> seamless
                 [] seamless = {} /\ hidden # {} -> hidden
                 [] seamless = {} /\ hidden = {} /\ hits # {} -> hits
                 [] OTHER -> best)

\* A packet queued twice is looked at once: queues hold each at most once.
PacketQueues == {q \in UNION {[1..n -> Packet] : n \in 2..MaxQueue} : IsInjective(q)}
AllBanks == {BankOf(p) : p \in Packet}
BankOrders == SetToSeqs(AllBanks)

\* In whatever state the banks are when a request is chosen, the single passes
\* over the banks and over the queue find the best packet, in whatever order they
\* meet banks and packets: the one flag for all banks of the mask is right for
\* each of them, and a later packet never displaces a better one (reorderQueue,
\* minBankPrep; dram_ctrl.cc:788, 1617).
ReorderFindsBest ==
  Fires("nextReq") =>
    LET s == Serviced
    IN  \A extra \in {0, tCS} :
          LET minCol == min_col_at(s, extra)
              prep == [W \in SUBSET AllBanks |-> {minBankPrep(s, W, minCol, order) :
                                                  order \in BankOrders}]
          IN  \A queue \in PacketQueues :
                LET best == BestChoice(s, queue, minCol)
                IN  \A p \in prep[got_waiting(s, queue)] :
                      reorderQueue(s, queue, minCol, p) = best

=============================================================================
