--------------------------- MODULE RechargeOrders ---------------------------
(***************************************************************************)
(* The server's side of a payment: an order is created, Alipay takes the   *)
(* money and repeats its notification until it is acknowledged, the        *)
(* customer's page asks on its own, and the order is closed after half an  *)
(* hour. Notifications and status requests complete an order in one        *)
(* transaction that locks the order, the payer and the inviter in turn:    *)
(* what it read under a lock is what it writes at its commit, and other    *)
(* transactions run between its steps.                                     *)
(* Balances are counted from zero: `credits` holds what orders added. A    *)
(* subscription is granted in the transaction of its order and leaves no   *)
(* trace of its own here.                                                  *)
(***************************************************************************)
EXTENDS Totals

CONSTANTS Customers, NoCustomer,
          Trades, NoTrade,       \* out_trade_no
          Handlers,              \* requests served at a time
          PayerOf, InviterOf,    \* of a trade: its user, and who invited that user
          CreditsOf, RebateOf,   \* of a trade: its credits, and the inviter's share
          MaxTroubles            \* transactions rolled back, answers lost

ASSUME RechargeAssumption ==
    /\ NoCustomer \notin Customers /\ NoTrade \notin Trades
    /\ IsFiniteSet(Trades) /\ MaxTroubles \in Nat
    /\ PayerOf \in [Trades -> Customers]
    /\ InviterOf \in [Trades -> Customers \union {NoCustomer}]
    /\ CreditsOf \in [Trades -> Nat] /\ RebateOf \in [Trades -> Nat]
    /\ \A t \in Trades : InviterOf[t] # PayerOf[t]

VARIABLES recharges,   \* recharge_orders.status, "none" before the row exists
          credits,     \* users.credits
          active,      \* users.status = 'active'
          rebates,     \* invite_rebate_records, by order
          collected,   \* Alipay: trades the customer has paid
          owed,        \* Alipay: notifications that it goes on repeating
          handler,     \* the transaction of each request, and what it read
          troubles

rechargeVars == <<recharges, credits, active, rebates, collected, owed, handler, troubles>>
database == <<recharges, credits, active, rebates>>
alipay == <<collected, owed>>

Resting == [stage |-> "idle", trade |-> NoTrade, notice |-> FALSE, payer |-> 0,
            rebate |-> FALSE, inviter |-> 0]

RechargeInit ==
    /\ recharges = [t \in Trades |-> "none"]
    /\ credits = [c \in Customers |-> 0] /\ active = [c \in Customers |-> TRUE]
    /\ rebates = {} /\ collected = {} /\ owed = {}
    /\ handler = [h \in Handlers |-> Resting] /\ troubles = 0

\* Rows that a running transaction has locked (SELECT ... FOR UPDATE).
OrderFree(t) ==
    \A h \in Handlers : handler[h].trade = t => handler[h].stage \in {"idle", "waiting"}
ReadUnlocked(c) == TRUE   \* a plausible error: SELECT without FOR UPDATE
UserFree(c) ==
    \A h \in Handlers :
        /\ handler[h].stage \in {"payer", "ready"} => PayerOf[handler[h].trade] # c
        /\ handler[h].rebate => InviterOf[handler[h].trade] # c

Trouble == troubles < MaxTroubles /\ troubles' = troubles + 1

-----------------------------------------------------------------------------
\* The customer's request. Alipay knows the trade before the row exists; its code
\* is shown when the row has been written, so that nobody pays without a row.
CreateOrder(t) ==
    /\ recharges[t] = "none" /\ active[PayerOf[t]]
    /\ recharges' = [recharges EXCEPT ![t] = "pending"]
    /\ UNCHANGED <<credits, active, rebates, alipay, handler, troubles>>

\* The two limits of half an hour run on two clocks: Alipay may take the money of an
\* order that was closed here, and reports what it took.
Pay(t) ==
    /\ recharges[t] \in {"pending", "closed"} /\ t \notin collected
    /\ collected' = collected \union {t} /\ owed' = owed \union {t}
    /\ UNCHANGED <<database, handler, troubles>>

\* CloseExpiredPendingOrders, every 15 seconds; it waits for locked rows.
CloseExpired(t) ==
    /\ recharges[t] = "pending" /\ OrderFree(t)
    /\ recharges' = [recharges EXCEPT ![t] = "closed"]
    /\ UNCHANGED <<credits, active, rebates, alipay, handler, troubles>>

\* An administrator disables or enables an account.
SetActive(c) ==
    /\ UserFree(c)
    /\ active' = [active EXCEPT ![c] = ~@]
    /\ UNCHANGED <<recharges, credits, rebates, alipay, handler, troubles>>

-----------------------------------------------------------------------------
\* Alipay notifies, for the first time or again, also while an earlier notification
\* of the trade is still being served.
Notify(h, t) ==
    /\ handler[h] = Resting /\ t \in owed
    /\ handler' = [handler EXCEPT ![h] = [Resting EXCEPT !.stage = "waiting",
                                                        !.trade = t, !.notice = TRUE]]
    /\ UNCHANGED <<database, alipay, troubles>>

\* The page's status request reads the order, finds it unpaid, and learns from
\* Alipay that it is paid.
SyncPaid(h, t) ==
    /\ handler[h] = Resting
    /\ recharges[t] \notin {"none", "paid"} /\ t \in collected /\ active[PayerOf[t]]
    /\ handler' = [handler EXCEPT ![h] = [Resting EXCEPT !.stage = "waiting",
                                                        !.trade = t, !.notice = FALSE]]
    /\ UNCHANGED <<database, alipay, troubles>>

\* The answer to a notification is "success": Alipay stops repeating it.
Acknowledged(h) ==
    IF handler[h].notice THEN owed \ {handler[h].trade} ELSE owed

PendingOnly(status) == status = "pending"   \* a plausible error: closed is closed
Completable(status) == status \in {"pending", "closed"}

\* The order is locked and read again. One that is paid, or that may not be paid any
\* more, ends the request without a change.
LockOrder(h) ==
    LET t == handler[h].trade IN
    /\ handler[h].stage = "waiting" /\ OrderFree(t)
    /\ IF Completable(recharges[t])
       THEN /\ handler' = [handler EXCEPT ![h].stage = "order"] /\ UNCHANGED owed
       ELSE /\ handler' = [handler EXCEPT ![h] = Resting] /\ owed' = Acknowledged(h)
    /\ UNCHANGED <<database, collected, troubles>>

LockPayer(h) ==
    /\ handler[h].stage = "order" /\ UserFree(PayerOf[handler[h].trade])
    /\ handler' = [handler EXCEPT ![h].stage = "payer",
                                  ![h].payer = credits[PayerOf[handler[h].trade]]]
    /\ UNCHANGED <<database, alipay, troubles>>

\* A rebate goes to an inviter whose account is active.
Rebated(t) ==
    /\ InviterOf[t] # NoCustomer /\ RebateOf[t] > 0
    /\ active[InviterOf[t]]
LockInviter(h) ==
    LET t == handler[h].trade IN
    /\ handler[h].stage = "payer"
    /\ Rebated(t) => UserFree(InviterOf[t])
    /\ handler' = [handler EXCEPT ![h].stage = "ready", ![h].rebate = Rebated(t),
                       ![h].inviter = IF Rebated(t) THEN credits[InviterOf[t]] ELSE 0]
    /\ UNCHANGED <<database, alipay, troubles>>

\* The writes of the transaction: both balances, the record of the rebate, the order.
Written(h) ==
    LET t == handler[h].trade IN
    /\ handler[h].stage = "ready"
    /\ credits' = [c \in Customers |->
                       IF c = PayerOf[t] THEN handler[h].payer + CreditsOf[t]
                       ELSE IF handler[h].rebate /\ c = InviterOf[t]
                            THEN handler[h].inviter + RebateOf[t]
                       ELSE credits[c]]
    /\ rebates' = IF handler[h].rebate THEN rebates \union {t} ELSE rebates
    /\ recharges' = [recharges EXCEPT ![t] = "paid"]
    /\ handler' = [handler EXCEPT ![h] = Resting]
    /\ UNCHANGED <<active, collected>>

Commit(h) == Written(h) /\ owed' = Acknowledged(h) /\ UNCHANGED troubles
\* The commit is done, but the answer of the database or of the server is lost.
CommitAnswerLost(h) == Written(h) /\ Trouble /\ UNCHANGED owed
\* A statement fails, the time of the request is over, or the process stops.
RollBack(h) ==
    /\ handler[h].stage # "idle" /\ Trouble
    /\ handler' = [handler EXCEPT ![h] = Resting]
    /\ UNCHANGED <<database, alipay>>

Proceed(h) == LockOrder(h) \/ LockPayer(h) \/ LockInviter(h) \/ Commit(h)

RechargeNext ==
    \/ \E t \in Trades : CreateOrder(t) \/ Pay(t) \/ CloseExpired(t)
    \/ \E c \in Customers : SetActive(c)
    \/ \E h \in Handlers, t \in Trades : Notify(h, t) \/ SyncPaid(h, t)
    \/ \E h \in Handlers : Proceed(h) \/ CommitAnswerLost(h) \/ RollBack(h)

\* A request goes on when the rows it waits for are free, and Alipay repeats a
\* notification that was not acknowledged. The page need not ask.
RechargeFairness ==
    /\ \A h \in Handlers : WF_rechargeVars(Proceed(h))
    /\ \A t \in Trades : WF_rechargeVars(\E h \in Handlers : Notify(h, t))

-----------------------------------------------------------------------------
Paid == {t \in Trades : recharges[t] = "paid"}

RechargeTypeOK ==
    /\ recharges \in [Trades -> {"none", "pending", "closed", "paid"}]
    /\ credits \in [Customers -> Nat] /\ active \in [Customers -> BOOLEAN]
    /\ rebates \subseteq Trades /\ owed \subseteq collected /\ collected \subseteq Trades
    /\ troubles \in 0 .. MaxTroubles
    /\ handler \in [Handlers ->
           [stage: {"idle", "waiting", "order", "payer", "ready"}, trade: Trades \union {NoTrade},
            notice: BOOLEAN, payer: Nat, rebate: BOOLEAN, inviter: Nat]]

\* Every balance is the sum of the orders its owner paid and of the rebates recorded
\* for orders of invited customers, which are paid orders: nothing is credited twice,
\* nor lost under another credit (CompleteOrder, applyInviteRechargeRebateInTx).
CreditsExact ==
    /\ rebates \subseteq Paid /\ Paid \subseteq collected
    /\ \A c \in Customers :
           credits[c] = Total(CreditsOf, {t \in Paid : PayerOf[t] = c})
                        + Total(RebateOf, {t \in rebates : InviterOf[t] = c})
\* What Alipay took is credited in the end (CompleteOrder accepts closed orders),
\* however often it is notified, asked for, closed or rolled back meanwhile.
PaymentsCredited == \A t \in Trades : (t \in collected) ~> (recharges[t] = "paid")
=============================================================================
