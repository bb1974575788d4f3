--------------------------- MODULE RechargeProofs ---------------------------
(* Theorems about RechargeOrders, for any customers, trades and requests. *)
EXTENDS RechargeOrders, TotalsTheorems, TLAPS

RechargeSpec == RechargeInit /\ [][RechargeNext]_rechargeVars

-----------------------------------------------------------------------------
(* What a transaction has locked nobody else writes: the order it has locked *)
(* is unpaid, and what it has read of a balance is that balance.             *)

Locking == {"order", "payer", "ready"}
Locks(h, c) ==
    \/ handler[h].stage \in {"payer", "ready"} /\ PayerOf[handler[h].trade] = c
    \/ handler[h].rebate /\ InviterOf[handler[h].trade] = c

OfTrade ==
    \A h \in Handlers :
        /\ handler[h].stage # "idle" => handler[h].trade \in collected
        /\ handler[h].rebate => handler[h].stage = "ready"
                                /\ InviterOf[handler[h].trade] \in Customers
UnpaidLocked ==
    \A h \in Handlers : handler[h].stage \in Locking =>
        recharges[handler[h].trade] \in {"pending", "closed"}
ReadCurrent ==
    \A h \in Handlers :
        /\ handler[h].stage \in {"payer", "ready"} =>
               handler[h].payer = credits[PayerOf[handler[h].trade]]
        /\ handler[h].rebate => handler[h].inviter = credits[InviterOf[handler[h].trade]]
Exclusive ==
    \A g, h \in Handlers : g # h =>
        /\ handler[g].stage \in Locking /\ handler[h].stage \in Locking
               => handler[g].trade # handler[h].trade
        /\ \A c \in Customers : ~(Locks(g, c) /\ Locks(h, c))
RechargeInv ==
    RechargeTypeOK /\ OfTrade /\ UnpaidLocked /\ ReadCurrent /\ Exclusive /\ CreditsExact

\* A request that goes back to rest, or to its next stage, leaves the others alone.
LEMMA RestingTyped ==
    Resting \in [stage: {"idle", "waiting", "order", "payer", "ready"},
                 trade: Trades \union {NoTrade}, notice: BOOLEAN, payer: Nat,
                 rebate: BOOLEAN, inviter: Nat]
BY DEF Resting

\* The sums that a balance consists of are numbers.
LEMMA SumsTyped ==
    ASSUME NEW S \in SUBSET Trades
    PROVE  Total(CreditsOf, S) \in Nat /\ Total(RebateOf, S) \in Nat /\ IsFiniteSet(S)
<1>1. IsFiniteSet(S)
  BY RechargeAssumption, FS_Subset
<1>2. \A t \in S : CreditsOf[t] \in Nat /\ RebateOf[t] \in Nat
  BY RechargeAssumption
<1> QED
  BY <1>1, <1>2, TotalType

-----------------------------------------------------------------------------
\* A commit pays an unpaid order, and adds to each balance what the order or its
\* rebate is worth.
LEMMA WrittenExact ==
    ASSUME RechargeInv, NEW h \in Handlers, Written(h)
    PROVE  CreditsExact' /\ credits' \in [Customers -> Nat] /\ rebates' \in SUBSET Trades
<1> DEFINE t == handler[h].trade
<1>1. /\ handler[h].stage = "ready" /\ t \in collected /\ t \in Trades
      /\ recharges[t] \in {"pending", "closed"}
  BY DEF RechargeInv, RechargeTypeOK, OfTrade, UnpaidLocked, Locking, Written
<1>2. /\ PayerOf[t] \in Customers /\ CreditsOf[t] \in Nat /\ RebateOf[t] \in Nat
      /\ InviterOf[t] # PayerOf[t]
  BY <1>1, RechargeAssumption
<1>3. /\ handler[h].payer = credits[PayerOf[t]]
      /\ handler[h].rebate => handler[h].inviter = credits[InviterOf[t]]
                              /\ InviterOf[t] \in Customers
  BY <1>1 DEF RechargeInv, ReadCurrent, OfTrade
<1>4. Paid' = Paid \union {t} /\ t \notin Paid
  BY <1>1 DEF Paid, Written, RechargeInv, RechargeTypeOK
<1>5. t \notin rebates /\ rebates \subseteq Paid /\ Paid \subseteq collected
  BY <1>4 DEF RechargeInv, CreditsExact
<1>6. rebates' = (IF handler[h].rebate THEN rebates \union {t} ELSE rebates) /\ collected' = collected
  BY DEF Written
<1>7. rebates' \subseteq Paid' /\ Paid' \subseteq collected' /\ rebates' \in SUBSET Trades
  BY <1>1, <1>4, <1>5, <1>6 DEF Paid
<1>8. ASSUME NEW c \in Customers
      PROVE  /\ credits'[c] = Total(CreditsOf, {x \in Paid' : PayerOf[x] = c})
                              + Total(RebateOf, {x \in rebates' : InviterOf[x] = c})
             /\ credits'[c] \in Nat
  <2> DEFINE P == {x \in Paid : PayerOf[x] = c}
             R == {x \in rebates : InviterOf[x] = c}
             p == Total(CreditsOf, P)
             r == Total(RebateOf, R)
             pNext == Total(CreditsOf, {x \in Paid' : PayerOf[x] = c})
             rNext == Total(RebateOf, {x \in rebates' : InviterOf[x] = c})
  <2>1. P \in SUBSET Trades /\ R \in SUBSET Trades
    BY <1>5 DEF Paid
  <2>2. /\ p \in Nat /\ r \in Nat
        /\ IsFiniteSet(P) /\ IsFiniteSet(R)
    BY <2>1, SumsTyped
  <2>3. credits[c] = p + r
    BY DEF RechargeInv, CreditsExact
  <2>4. CASE c = PayerOf[t]
    <3>1. {x \in Paid' : PayerOf[x] = c} = P \union {t} /\ t \notin P
      BY <1>4, <2>4
    <3>2. {x \in rebates' : InviterOf[x] = c} = R
      BY <1>2, <1>6, <2>4
    <3>3. Total(CreditsOf, P \union {t}) = p + CreditsOf[t]
      BY <1>2, <2>1, <2>2, <3>1, TotalAdd, RechargeAssumption
    <3>4. pNext = p + CreditsOf[t] /\ rNext = r
      BY <3>1, <3>2, <3>3
    <3>5. credits'[c] = credits[c] + CreditsOf[t]
      BY <1>3, <2>4 DEF Written
    <3> HIDE DEF p, r, pNext, rNext
    <3>6. credits'[c] = pNext + rNext /\ credits'[c] \in Nat
      BY <1>2, <2>2, <2>3, <3>4, <3>5
    <3> QED
      BY <3>6 DEF pNext, rNext
  <2>5. CASE handler[h].rebate /\ c = InviterOf[t]
    <3>1. {x \in Paid' : PayerOf[x] = c} = P
      BY <1>2, <1>4, <2>5
    <3>2. {x \in rebates' : InviterOf[x] = c} = R \union {t} /\ t \notin R
      BY <1>5, <1>6, <2>5
    <3>3. Total(RebateOf, R \union {t}) = r + RebateOf[t]
      BY <1>2, <2>1, <2>2, <3>2, TotalAdd, RechargeAssumption
    <3>4. pNext = p /\ rNext = r + RebateOf[t]
      BY <3>1, <3>2, <3>3
    <3>5. credits'[c] = credits[c] + RebateOf[t]
      BY <1>2, <1>3, <2>5 DEF Written
    <3> HIDE DEF p, r, pNext, rNext
    <3>6. credits'[c] = pNext + rNext /\ credits'[c] \in Nat
      BY <1>2, <2>2, <2>3, <3>4, <3>5
    <3> QED
      BY <3>6 DEF pNext, rNext
  <2>6. CASE c # PayerOf[t] /\ ~(handler[h].rebate /\ c = InviterOf[t])
    <3>1. {x \in Paid' : PayerOf[x] = c} = P
      BY <1>4, <2>6
    <3>2. {x \in rebates' : InviterOf[x] = c} = R
      BY <1>6, <2>6
    <3>3. pNext = p /\ rNext = r
      BY <3>1, <3>2
    <3>4. credits'[c] = credits[c]
      BY <2>6 DEF Written
    <3> HIDE DEF p, r, pNext, rNext
    <3>5. credits'[c] = pNext + rNext /\ credits'[c] \in Nat
      BY <2>2, <2>3, <3>3, <3>4
    <3> QED
      BY <3>5 DEF pNext, rNext
  <2> QED
    BY <2>4, <2>5, <2>6
<1>9. credits' \in [Customers -> Nat]
  <2>1. credits' = [c \in Customers |-> credits'[c]]
    BY DEF Written
  <2> QED
    BY <2>1, <1>8
<1> QED
  BY <1>7, <1>8, <1>9 DEF CreditsExact

\* The other transactions keep their locks and what they read: the rows that are
\* written are locked by the one that commits.
LEMMA WrittenKeepsLocks ==
    ASSUME RechargeInv, NEW h \in Handlers, Written(h)
    PROVE  OfTrade' /\ UnpaidLocked' /\ ReadCurrent' /\ Exclusive'
<1> DEFINE t == handler[h].trade
<1>1. handler' = [handler EXCEPT ![h] = Resting] /\ collected' = collected
      /\ recharges' = [recharges EXCEPT ![t] = "paid"]
  BY DEF Written
<1>2. /\ handler'[h] = Resting
      /\ \A g \in Handlers \ {h} : handler'[g] = handler[g]
  BY <1>1 DEF RechargeInv, RechargeTypeOK
<1>3. /\ handler[h].stage = "ready" /\ t \in Trades /\ PayerOf[t] \in Customers
      /\ handler[h].rebate => InviterOf[t] \in Customers
  BY RechargeAssumption DEF Written, RechargeInv, RechargeTypeOK, OfTrade
<1>4. OfTrade'
  BY <1>1, <1>2 DEF RechargeInv, OfTrade, Resting
<1>5. ASSUME NEW g \in Handlers, g # h, handler[g].stage \in Locking
      PROVE  handler[g].trade # t
  BY <1>3, <1>5 DEF RechargeInv, Exclusive, Locking
<1>6. UnpaidLocked'
  <2> SUFFICES ASSUME NEW g \in Handlers, handler'[g].stage \in Locking
               PROVE  recharges'[handler'[g].trade] \in {"pending", "closed"}
    BY DEF UnpaidLocked
  <2>1. g # h
    BY <1>2 DEF Resting, Locking
  <2>2. handler'[g] = handler[g] /\ handler[g].trade # t
    BY <1>2, <1>5, <2>1
  <2> QED
    BY <1>1, <2>2 DEF RechargeInv, RechargeTypeOK, UnpaidLocked
<1>7. ASSUME NEW g \in Handlers, g # h, NEW c \in Customers, Locks(g, c)
      PROVE  credits'[c] = credits[c]
  <2>1. ~Locks(h, c)
    BY <1>7 DEF RechargeInv, Exclusive
  <2>2. c # PayerOf[t] /\ ~(handler[h].rebate /\ c = InviterOf[t])
    BY <2>1, <1>3 DEF Locks
  <2> QED
    BY <2>2 DEF Written
<1>8. ReadCurrent'
  <2> SUFFICES ASSUME NEW g \in Handlers
               PROVE  /\ handler'[g].stage \in {"payer", "ready"} =>
                             handler'[g].payer = credits'[PayerOf[handler'[g].trade]]
                      /\ handler'[g].rebate =>
                             handler'[g].inviter = credits'[InviterOf[handler'[g].trade]]
    BY DEF ReadCurrent
  <2>1. CASE g = h
    BY <1>2, <2>1 DEF Resting
  <2>2. CASE g # h
    <3>1. handler'[g] = handler[g]
      BY <1>2, <2>2
    <3>2. handler[g].stage # "idle" => handler[g].trade \in Trades
      BY DEF RechargeInv, RechargeTypeOK, OfTrade
    <3>3. ASSUME handler[g].stage \in {"payer", "ready"}
          PROVE  /\ PayerOf[handler[g].trade] \in Customers
                 /\ Locks(g, PayerOf[handler[g].trade])
      BY <3>2, <3>3, RechargeAssumption DEF Locks
    <3>4. ASSUME handler[g].rebate
          PROVE  /\ InviterOf[handler[g].trade] \in Customers
                 /\ Locks(g, InviterOf[handler[g].trade])
      BY <3>4 DEF Locks, RechargeInv, OfTrade
    <3> QED
      BY <1>7, <2>2, <3>1, <3>3, <3>4 DEF RechargeInv, ReadCurrent
  <2> QED
    BY <2>1, <2>2
<1>9. Exclusive'
  <2> SUFFICES ASSUME NEW f \in Handlers, NEW g \in Handlers, f # g
               PROVE  /\ handler'[f].stage \in Locking /\ handler'[g].stage \in Locking
                             => handler'[f].trade # handler'[g].trade
                      /\ \A c \in Customers : ~(Locks(f, c)' /\ Locks(g, c)')
    BY DEF Exclusive
  <2>1. CASE f = h \/ g = h
    BY <1>2, <2>1 DEF Resting, Locking, Locks
  <2>2. CASE f # h /\ g # h
    BY <1>2, <2>2 DEF RechargeInv, Exclusive, Locks
  <2> QED
    BY <2>1, <2>2
<1> QED
  BY <1>4, <1>6, <1>8, <1>9

-----------------------------------------------------------------------------
(* The other steps. *)

\* A new request waits for its order.
LEMMA NoticeOf ==
    ASSUME NEW h \in Handlers, NEW t \in Trades, Notify(h, t) \/ SyncPaid(h, t)
    PROVE  \E b \in BOOLEAN : handler' = [handler EXCEPT ![h] =
               [Resting EXCEPT !.stage = "waiting", !.trade = t, !.notice = b]]
<1>1. CASE Notify(h, t)
  <2>1. handler' = [handler EXCEPT ![h] =
               [Resting EXCEPT !.stage = "waiting", !.trade = t, !.notice = TRUE]]
    BY <1>1 DEF Notify
  <2> QED
    BY <2>1
<1>2. CASE SyncPaid(h, t)
  <2>1. handler' = [handler EXCEPT ![h] =
               [Resting EXCEPT !.stage = "waiting", !.trade = t, !.notice = FALSE]]
    BY <1>2 DEF SyncPaid
  <2> QED
    BY <2>1
<1> QED
  BY <1>1, <1>2

\* The sums depend on which orders are paid and on the rebates only.
LEMMA ExactKept ==
    ASSUME CreditsExact, Paid' = Paid, UNCHANGED <<credits, rebates>>, collected \subseteq collected'
    PROVE  CreditsExact'
BY Zenon DEF CreditsExact

\* Orders, payments, the expiry and the administrator: no transaction is disturbed.
LEMMA OutsideKeeps ==
    ASSUME RechargeInv, UNCHANGED <<credits, rebates, handler>>, collected \subseteq collected',
           Paid' = Paid, RechargeTypeOK',
           \A t \in Trades : recharges[t] \in {"pending", "closed"}
                                 => recharges'[t] \in {"pending", "closed"}
    PROVE  RechargeInv'
<1>1. CreditsExact'
  BY ExactKept DEF RechargeInv
<1>2. OfTrade'
  BY DEF RechargeInv, OfTrade
<1>3. UnpaidLocked'
  <2> SUFFICES ASSUME NEW h \in Handlers, handler[h].stage \in Locking
               PROVE  recharges'[handler[h].trade] \in {"pending", "closed"}
    BY DEF UnpaidLocked
  <2>1. handler[h].trade \in Trades
    BY DEF Locking, RechargeInv, OfTrade, RechargeTypeOK
  <2> QED
    BY <2>1 DEF RechargeInv, UnpaidLocked
<1>4. ReadCurrent'
  BY DEF RechargeInv, ReadCurrent
<1>5. Exclusive'
  BY DEF RechargeInv, Exclusive, Locks
<1> QED
  BY <1>1, <1>2, <1>3, <1>4, <1>5 DEF RechargeInv

\* A request that takes no lock it did not have.
LEMMA LockFreeKeeps ==
    ASSUME RechargeInv, NEW h \in Handlers, UNCHANGED <<recharges, credits, rebates, collected>>,
           NEW s, handler' = [handler EXCEPT ![h] = s],
           s.stage \in {"idle", "waiting"}, s.rebate = FALSE,
           s.stage # "idle" => s.trade \in collected, RechargeTypeOK'
    PROVE  RechargeInv'
<1>1. handler'[h] = s /\ \A g \in Handlers \ {h} : handler'[g] = handler[g]
  BY DEF RechargeInv, RechargeTypeOK
<1>2. CreditsExact'
  BY ExactKept DEF RechargeInv, Paid
<1>3. OfTrade'
  BY <1>1 DEF RechargeInv, OfTrade
<1>4. UnpaidLocked'
  BY <1>1 DEF RechargeInv, UnpaidLocked, Locking
<1>5. ReadCurrent'
  BY <1>1 DEF RechargeInv, ReadCurrent
<1>6. Exclusive'
  <2> SUFFICES ASSUME NEW f \in Handlers, NEW g \in Handlers, f # g
               PROVE  /\ handler'[f].stage \in Locking /\ handler'[g].stage \in Locking
                             => handler'[f].trade # handler'[g].trade
                      /\ \A c \in Customers : ~(Locks(f, c)' /\ Locks(g, c)')
    BY DEF Exclusive
  <2>1. CASE f = h \/ g = h
    BY <1>1, <2>1 DEF Locking, Locks
  <2>2. CASE f # h /\ g # h
    BY <1>1, <2>2 DEF RechargeInv, Exclusive, Locks
  <2> QED
    BY <2>1, <2>2
<1> QED
  BY <1>2, <1>3, <1>4, <1>5, <1>6 DEF RechargeInv

\* Locking an order: no other transaction has it, and it is not paid.
LEMMA LockOrderKeeps ==
    ASSUME RechargeInv, NEW h \in Handlers, LockOrder(h), RechargeTypeOK'
    PROVE  RechargeInv'
<1> DEFINE t == handler[h].trade
<1>1. UNCHANGED <<recharges, credits, rebates, collected>> /\ handler[h].stage = "waiting"
  BY DEF LockOrder, database
<1>2. t \in collected /\ t \in Trades /\ handler[h].rebate = FALSE
  BY <1>1 DEF RechargeInv, OfTrade, RechargeTypeOK
<1>3. CASE ~Completable(recharges[t])
  <2>1. handler' = [handler EXCEPT ![h] = Resting]
    BY <1>3 DEF LockOrder
  <2>2. Resting.stage = "idle" /\ Resting.rebate = FALSE
    BY DEF Resting
  <2> QED
    BY <1>1, <2>1, <2>2, LockFreeKeeps
<1>4. CASE Completable(recharges[t])
  <2>1. handler' = [handler EXCEPT ![h].stage = "order"]
    BY <1>4 DEF LockOrder
  <2>2. /\ handler'[h] = [handler[h] EXCEPT !.stage = "order"]
        /\ \A g \in Handlers \ {h} : handler'[g] = handler[g]
    BY <2>1 DEF RechargeInv, RechargeTypeOK
  <2>3. handler'[h].stage = "order" /\ handler'[h].trade = t /\ handler'[h].rebate = FALSE
    BY <1>2, <2>2 DEF RechargeInv, RechargeTypeOK
  <2>4. CreditsExact'
    BY <1>1, ExactKept DEF RechargeInv, Paid
  <2>5. OfTrade'
    BY <1>1, <1>2, <2>2, <2>3 DEF RechargeInv, OfTrade
  <2>6. UnpaidLocked'
    BY <1>1, <1>4, <2>2, <2>3 DEF RechargeInv, UnpaidLocked, Completable
  <2>7. ReadCurrent'
    <3>1. ASSUME NEW g \in Handlers \ {h}
          PROVE  /\ handler'[g].stage \in {"payer", "ready"} =>
                        handler'[g].payer = credits'[PayerOf[handler'[g].trade]]
                 /\ handler'[g].rebate =>
                        handler'[g].inviter = credits'[InviterOf[handler'[g].trade]]
      BY <1>1, <2>2 DEF RechargeInv, ReadCurrent
    <3> QED
      BY <2>3, <3>1 DEF ReadCurrent
  <2>8. Exclusive'
    <3>1. ASSUME NEW g \in Handlers, g # h, handler[g].stage \in Locking
          PROVE  handler[g].trade # t
      BY <3>1 DEF LockOrder, OrderFree, Locking
    <3> SUFFICES ASSUME NEW f \in Handlers, NEW g \in Handlers, f # g
                 PROVE  /\ handler'[f].stage \in Locking /\ handler'[g].stage \in Locking
                               => handler'[f].trade # handler'[g].trade
                        /\ \A c \in Customers : ~(Locks(f, c)' /\ Locks(g, c)')
      BY DEF Exclusive
    <3>2. CASE f = h \/ g = h
      BY <2>2, <2>3, <3>1, <3>2 DEF Locks
    <3>3. CASE f # h /\ g # h
      BY <2>2, <3>3 DEF RechargeInv, Exclusive, Locks
    <3> QED
      BY <3>2, <3>3
  <2> QED
    BY <2>4, <2>5, <2>6, <2>7, <2>8 DEF RechargeInv
<1> QED
  BY <1>3, <1>4

\* Locking a balance: nobody else has it, and what is read is what it is.
LEMMA LockRowKeeps ==
    ASSUME RechargeInv, NEW h \in Handlers, LockPayer(h) \/ LockInviter(h), RechargeTypeOK'
    PROVE  RechargeInv'
<1> DEFINE t == handler[h].trade
<1>1. UNCHANGED <<recharges, credits, rebates, collected>>
  BY DEF LockPayer, LockInviter, database, alipay
<1>2. /\ handler[h].stage \in {"order", "payer"} /\ handler[h].rebate = FALSE
      /\ t \in collected /\ t \in Trades
  BY DEF RechargeInv, OfTrade, RechargeTypeOK, LockPayer, LockInviter
<1>3. /\ PayerOf[t] \in Customers
      /\ Rebated(t) \in BOOLEAN
      /\ Rebated(t) => InviterOf[t] \in Customers
  BY <1>2, RechargeAssumption DEF Rebated
<1>4. \A g \in Handlers \ {h} : handler'[g] = handler[g]
  BY DEF RechargeInv, RechargeTypeOK, LockPayer, LockInviter
<1>5. handler'[h].trade = t /\ handler'[h].stage \in {"payer", "ready"}
  BY DEF RechargeInv, RechargeTypeOK, LockPayer, LockInviter
<1>6. handler'[h].payer = credits[PayerOf[t]]
  BY DEF RechargeInv, RechargeTypeOK, ReadCurrent, LockPayer, LockInviter
<1>7. handler'[h].rebate => /\ handler'[h].stage = "ready" /\ Rebated(t)
                            /\ handler'[h].inviter = credits[InviterOf[t]]
  BY <1>2, <1>3 DEF RechargeInv, RechargeTypeOK, LockPayer, LockInviter
<1>8. CreditsExact'
  BY <1>1, ExactKept DEF RechargeInv, Paid
<1>9. OfTrade'
  BY <1>1, <1>2, <1>3, <1>4, <1>5, <1>7 DEF RechargeInv, OfTrade
<1>10. UnpaidLocked'
  BY <1>1, <1>2, <1>4, <1>5 DEF RechargeInv, UnpaidLocked, Locking
<1>11. ReadCurrent'
  BY <1>1, <1>4, <1>5, <1>6, <1>7 DEF RechargeInv, ReadCurrent
<1>12. ASSUME NEW g \in Handlers, g # h, NEW c \in Customers, Locks(g, c)
       PROVE  ~(Locks(h, c)')
  <2>1. ~UserFree(c)
    BY <1>12 DEF Locks, UserFree
  <2>2. CASE LockPayer(h)
    <3>1. UserFree(PayerOf[t]) /\ ~handler'[h].rebate
      BY <1>2, <2>2 DEF LockPayer, RechargeInv, RechargeTypeOK
    <3> QED
      BY <1>5, <2>1, <3>1 DEF Locks
  <2>3. CASE LockInviter(h)
    <3>1. c # PayerOf[t]
      BY <1>12, <2>3 DEF LockInviter, Locks, RechargeInv, Exclusive
    <3>2. Rebated(t) => UserFree(InviterOf[t])
      BY <2>3 DEF LockInviter
    <3> QED
      BY <1>5, <1>7, <2>1, <3>1, <3>2 DEF Locks
  <2> QED
    BY <2>2, <2>3
<1>13. Exclusive'
  <2> SUFFICES ASSUME NEW f \in Handlers, NEW g \in Handlers, f # g
               PROVE  /\ handler'[f].stage \in Locking /\ handler'[g].stage \in Locking
                             => handler'[f].trade # handler'[g].trade
                      /\ \A c \in Customers : ~(Locks(f, c)' /\ Locks(g, c)')
    BY DEF Exclusive
  <2>1. \A i \in Handlers : handler'[i].stage \in Locking
                               => handler[i].stage \in Locking /\ handler'[i].trade = handler[i].trade
    BY <1>2, <1>4, <1>5 DEF Locking
  <2>2. \A c \in Customers, i \in Handlers \ {h} : Locks(i, c)' = Locks(i, c)
    BY <1>4 DEF Locks
  <2> QED
    BY <1>12, <2>1, <2>2 DEF RechargeInv, Exclusive
<1> QED
  BY <1>8, <1>9, <1>10, <1>11, <1>13 DEF RechargeInv

-----------------------------------------------------------------------------
\* Every variable keeps its type; of a commit only the written balances are in doubt.
LEMMA StepTyped ==
    ASSUME RechargeInv, RechargeNext
    PROVE  RechargeTypeOK'
<1> USE DEF RechargeInv, RechargeTypeOK, database, alipay
<1>1. ASSUME NEW t \in Trades, CreateOrder(t) \/ Pay(t) \/ CloseExpired(t)
      PROVE  RechargeTypeOK'
  BY <1>1 DEF CreateOrder, Pay, CloseExpired
<1>2. ASSUME NEW c \in Customers, SetActive(c) PROVE RechargeTypeOK'
  BY <1>2 DEF SetActive
<1>3. ASSUME NEW h \in Handlers, NEW t \in Trades, Notify(h, t) \/ SyncPaid(h, t)
      PROVE  RechargeTypeOK'
  <2>1. PICK b \in BOOLEAN : handler' = [handler EXCEPT ![h] =
                [Resting EXCEPT !.stage = "waiting", !.trade = t, !.notice = b]]
    BY <1>3, NoticeOf
  <2>2. [Resting EXCEPT !.stage = "waiting", !.trade = t, !.notice = b] \in
            [stage: {"idle", "waiting", "order", "payer", "ready"},
             trade: Trades \union {NoTrade}, notice: BOOLEAN, payer: Nat,
             rebate: BOOLEAN, inviter: Nat]
    BY DEF Resting
  <2>3. UNCHANGED <<recharges, credits, active, rebates, collected, owed, troubles>>
    BY <1>3 DEF Notify, SyncPaid
  <2> HIDE DEF Resting
  <2> QED
    BY <2>1, <2>2, <2>3
<1>4. ASSUME NEW h \in Handlers, LockOrder(h) PROVE RechargeTypeOK'
  BY <1>4, RestingTyped DEF LockOrder, Acknowledged
<1>5. ASSUME NEW h \in Handlers, LockPayer(h) PROVE RechargeTypeOK'
  <2>1. handler[h].trade \in Trades
    BY <1>5 DEF LockPayer, OfTrade
  <2>2. credits[PayerOf[handler[h].trade]] \in Nat
    BY <2>1, RechargeAssumption
  <2> QED
    BY <1>5, <2>2 DEF LockPayer
<1>6. ASSUME NEW h \in Handlers, LockInviter(h) PROVE RechargeTypeOK'
  <2> DEFINE t == handler[h].trade
             read == IF Rebated(t) THEN credits[InviterOf[t]] ELSE 0
  <2>1. t \in Trades
    BY <1>6 DEF LockInviter, OfTrade
  <2>2. Rebated(t) \in BOOLEAN /\ read \in Nat
    BY <2>1, RechargeAssumption DEF Rebated
  <2> HIDE DEF read
  <2>3. /\ handler' = [handler EXCEPT ![h] = [handler[h] EXCEPT !.stage = "ready",
                                          !.rebate = Rebated(t), !.inviter = read]]
        /\ [handler[h] EXCEPT !.stage = "ready", !.rebate = Rebated(t), !.inviter = read] \in
               [stage: {"idle", "waiting", "order", "payer", "ready"},
                trade: Trades \union {NoTrade}, notice: BOOLEAN, payer: Nat,
                rebate: BOOLEAN, inviter: Nat]
    BY <1>6, <2>2 DEF LockInviter, read
  <2>4. UNCHANGED <<recharges, credits, active, rebates, collected, owed, troubles>>
    BY <1>6 DEF LockInviter
  <2> QED
    BY <2>2, <2>3, <2>4
<1>7. ASSUME NEW h \in Handlers, Commit(h) \/ CommitAnswerLost(h) PROVE RechargeTypeOK'
  <2>1. Written(h) /\ (owed' = owed \/ owed' = Acknowledged(h))
    BY <1>7 DEF Commit, CommitAnswerLost
  <2>2. credits' \in [Customers -> Nat] /\ rebates' \in SUBSET Trades
    BY <2>1, WrittenExact
  <2>3. owed' \subseteq collected'
    BY <2>1 DEF Acknowledged, Written
  <2>4. troubles' \in 0..MaxTroubles
    BY <1>7, RechargeAssumption DEF Commit, CommitAnswerLost, Trouble
  <2>5. handler' = [handler EXCEPT ![h] = Resting] /\ UNCHANGED <<active, collected>>
        /\ recharges' = [recharges EXCEPT ![handler[h].trade] = "paid"]
    BY <2>1 DEF Written
  <2> QED
    BY <2>2, <2>3, <2>4, <2>5, RestingTyped
<1>8. ASSUME NEW h \in Handlers, RollBack(h) PROVE RechargeTypeOK'
  <2>1. troubles' \in 0..MaxTroubles
    BY <1>8, RechargeAssumption DEF RollBack, Trouble
  <2> QED
    BY <1>8, <2>1, RestingTyped DEF RollBack
<1> QED
  BY <1>1, <1>2, <1>3, <1>4, <1>5, <1>6, <1>7, <1>8 DEF RechargeNext, Proceed

\* At first nobody paid and nothing is locked.
LEMMA RechargeStarts ==
    ASSUME RechargeInit
    PROVE  RechargeInv
<1>1. RechargeTypeOK
  BY RestingTyped, RechargeAssumption DEF RechargeInit, RechargeTypeOK
<1>2. Paid = {} /\ rebates = {} /\ collected = {}
  BY DEF RechargeInit, Paid
<1>3. Total(CreditsOf, {}) = 0 /\ Total(RebateOf, {}) = 0
  BY TotalZero
<1>4. CreditsExact
  <2>1. ASSUME NEW c \in Customers
        PROVE  /\ {t \in Paid : PayerOf[t] = c} = {}
               /\ {t \in rebates : InviterOf[t] = c} = {} /\ credits[c] = 0
    BY <1>2 DEF RechargeInit
  <2> QED
    BY <1>2, <1>3, <2>1 DEF CreditsExact
<1>5. \A h \in Handlers : handler[h].stage = "idle" /\ handler[h].rebate = FALSE
  BY DEF RechargeInit, Resting
<1>6. OfTrade /\ UnpaidLocked /\ ReadCurrent /\ Exclusive
  BY <1>5 DEF OfTrade, UnpaidLocked, ReadCurrent, Exclusive, Locking, Locks
<1> QED
  BY <1>1, <1>4, <1>6 DEF RechargeInv

\* Every step of a request, of Alipay and of the server keeps the invariant.
LEMMA RechargeKept ==
    ASSUME RechargeInv, [RechargeNext]_rechargeVars
    PROVE  RechargeInv'
<1>1. CASE UNCHANGED rechargeVars
  BY <1>1 DEF rechargeVars, RechargeInv, RechargeTypeOK, OfTrade, UnpaidLocked, ReadCurrent,
              Exclusive, Locks, CreditsExact, Paid
<1>2. CASE RechargeNext
  <2>1. RechargeTypeOK'
    BY <1>2, StepTyped
  <2>2. ASSUME NEW t \in Trades, CreateOrder(t) \/ Pay(t) \/ CloseExpired(t)
        PROVE  RechargeInv'
    <3>1. UNCHANGED <<credits, rebates, handler>> /\ collected \subseteq collected'
      BY <2>2 DEF CreateOrder, Pay, CloseExpired, alipay, database
    <3>2. /\ \A x \in Trades : recharges[x] \in {"pending", "closed"}
                                   => recharges'[x] \in {"pending", "closed"}
          /\ Paid' = Paid
      BY <2>2 DEF CreateOrder, Pay, CloseExpired, database, RechargeInv, RechargeTypeOK, Paid
    <3> QED
      BY <2>1, <3>1, <3>2, OutsideKeeps
  <2>3. ASSUME NEW c \in Customers, SetActive(c) PROVE RechargeInv'
    <3>1. UNCHANGED <<recharges, credits, rebates, handler, collected>>
      BY <2>3 DEF SetActive, alipay
    <3> QED
      BY <2>1, <3>1, OutsideKeeps DEF Paid
  <2>4. ASSUME NEW h \in Handlers, NEW t \in Trades, Notify(h, t) \/ SyncPaid(h, t)
        PROVE  RechargeInv'
    <3> DEFINE s == handler'[h]
    <3>1. UNCHANGED <<recharges, credits, rebates, collected>>
      BY <2>4 DEF Notify, SyncPaid, database, alipay
    <3>2. /\ handler' = [handler EXCEPT ![h] = s]
          /\ s.stage = "waiting" /\ s.rebate = FALSE /\ s.trade = t
      <4>1. PICK b \in BOOLEAN : handler' = [handler EXCEPT ![h] =
                [Resting EXCEPT !.stage = "waiting", !.trade = t, !.notice = b]]
        BY <2>4, NoticeOf
      <4>2. s = [Resting EXCEPT !.stage = "waiting", !.trade = t, !.notice = b]
        BY <4>1 DEF RechargeInv, RechargeTypeOK
      <4> QED
        BY <4>1, <4>2 DEF Resting
    <3>3. t \in collected
      BY <2>4 DEF Notify, SyncPaid, RechargeInv, RechargeTypeOK
    <3> HIDE DEF s
    <3> QED
      BY <2>1, <3>1, <3>2, <3>3, LockFreeKeeps
  <2>5. ASSUME NEW h \in Handlers, RollBack(h) PROVE RechargeInv'
    <3>1. UNCHANGED <<recharges, credits, rebates, collected>>
          /\ handler' = [handler EXCEPT ![h] = Resting]
      BY <2>5 DEF RollBack, database, alipay
    <3>2. Resting.stage = "idle" /\ Resting.rebate = FALSE
      BY DEF Resting
    <3> QED
      BY <2>1, <3>1, <3>2, LockFreeKeeps
  <2>6. ASSUME NEW h \in Handlers, Commit(h) \/ CommitAnswerLost(h) PROVE RechargeInv'
    BY <2>1, <2>6, WrittenExact, WrittenKeepsLocks DEF Commit, CommitAnswerLost, RechargeInv
  <2> QED
    BY <1>2, <2>1, <2>2, <2>3, <2>4, <2>5, <2>6, LockOrderKeeps, LockRowKeeps
       DEF RechargeNext, Proceed
<1> QED
  BY <1>1, <1>2

\* For any customers, trades and requests: every balance is what its owner's paid
\* orders and recorded rebates add up to, whatever is repeated, closed or rolled back.
THEOREM RechargesExact == RechargeSpec => []CreditsExact
<1>1. RechargeInit => RechargeInv
  BY RechargeStarts
<1>2. RechargeInv /\ [RechargeNext]_rechargeVars => RechargeInv'
  BY RechargeKept
<1>3. RechargeInv => CreditsExact
  BY DEF RechargeInv
<1> QED
  BY <1>1, <1>2, <1>3, PTL DEF RechargeSpec

=============================================================================
