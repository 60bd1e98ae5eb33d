--------------------------- MODULE PreconfCredits ---------------------------
(***************************************************************************)
(* The credits of post-pack clients, as the admin mock keeps them          *)
(* (postpack-tools/src/bin/preconf-admin-mock.rs): the admin's changes,    *)
(* the payments registered by signature, the task that credits them at     *)
(* the SOL price of the moment, the task that refreshes that price, and    *)
(* the views of balance, usage and history.  Handlers and tasks share the  *)
(* store under one lock and the price under another; a step is what        *)
(* happens under one of them.  A refused request changes nothing and is    *)
(* no step.                                                                *)
(*                                                                         *)
(* Time, amounts and prices are small numbers.  The tier and the settings  *)
(* of a client, on which its credits do not depend, are in                 *)
(* PostpackSettings; here a client is its balance.                         *)
(***************************************************************************)
EXTENDS Integers, Sequences, FiniteSets, FiniteSetsExt

CONSTANTS
    ApiKeys,
    Seeded,             \* the client the store starts with
    Strangers,          \* keys that are no API keys
    TipOf,              \* of each signature a transaction was made with: 0, no tip or not valid
    Batches,            \* requests to register payments: sequences of signatures
    Changes,            \* requests to change credits
    Cents,              \* SOL prices
    CREDITS_PER_CENT, LAMPORTS_PER_SOL,
    MAX_SOL_PRICE_AGE,
    MAX_ADMIN_CREDITS_CHANGE,
    I64_MAX,
    HOUR, DAY,
    MaxTime,            \* bound
    MaxHistory,         \* bound: rows of the history
    Absent

Signatures == DOMAIN TipOf

ASSUME PreconfCreditsAssumption ==
    /\ Seeded \in ApiKeys /\ Strangers \cap ApiKeys = {}
    /\ TipOf \in [Signatures -> Nat]
    /\ Batches \subseteq Seq(Signatures) /\ Cents \subseteq Nat /\ Cents # {}
    /\ Absent \notin [cents : Cents, at : 0..MaxTime]
    /\ CREDITS_PER_CENT \in Nat \ {0} /\ LAMPORTS_PER_SOL \in Nat \ {0}
    /\ MAX_SOL_PRICE_AGE \in Nat /\ MAX_ADMIN_CREDITS_CHANGE \in Nat /\ I64_MAX \in Nat \ {0}
    /\ HOUR \in Nat \ {0} /\ DAY \in Nat \ {0} /\ DAY % HOUR = 0
    /\ MaxTime \in Nat /\ MaxHistory \in Nat

VARIABLES
    time,
    balance,        \* of each client, by API key
    ledger,         \* history: rows in the order of their ids
    payments,       \* in the order they were registered
    sol_price,
    check,          \* the payment task: the price it read, and when, before it has the store
    paging,         \* a reader of the Seeded client's history: the ids it has read
    capped          \* history: clients whose balance a tip filled to I64_MAX

creditsVars == <<time, balance, ledger, payments, sol_price, check, paging, capped>>

Reasons == {"tip", "manual_payment", "usage", "admin_change"}

Total(f(_), S) == MapThenSumSet(f, S)

-----------------------------------------------------------------------------
(* Credits. *)

\* credits_for_payment, for SOL; more than fits an i64 is refused.
CreditsFor(amount, cents) == (amount * cents * CREDITS_PER_CENT) \div LAMPORTS_PER_SOL

Buys(amount, cents) ==
    LET credits == CreditsFor(amount, cents) IN IF credits <= I64_MAX THEN credits ELSE Absent

\* Mutant of IsFresh: the age of the price at the time it was read.
IsFreshWhenRead(price) == check.at - price.at <= MAX_SOL_PRICE_AGE

IsFresh(price) == time - price.at <= MAX_SOL_PRICE_AGE

\* PostpackCreditChange::delta, Absent for a refusal.
Delta(change) ==
    LET delta ==
            CASE change.reason = "admin_change" /\ change.payment = Absent -> change.delta
              [] change.reason = "manual_payment" /\ change.payment # Absent
                 /\ change.payment.amount > 0 /\ change.payment.cents > 0
                 /\ change.delta \in {Absent, Buys(change.payment.amount, change.payment.cents)} ->
                     Buys(change.payment.amount, change.payment.cents)
              [] OTHER -> Absent
    IN  IF delta = Absent \/ delta = 0 THEN Absent
        ELSE IF delta \in -MAX_ADMIN_CREDITS_CHANGE..MAX_ADMIN_CREDITS_CHANGE THEN delta
        ELSE Absent

\* A row of the history.  Of the time it was made only the views of usage depend.
Row(key, delta, reason, sig, price) ==
    [key |-> key, delta |-> delta, reason |-> reason, sig |-> sig,
     cents |-> IF price = Absent THEN Absent ELSE price.cents,
     age |-> IF price = Absent THEN Absent ELSE time - price.at]

UsageRow(key, credits, at) ==
    [key |-> key, delta |-> -credits, reason |-> "usage", sig |-> Absent, at |-> at]

Record(row) == ledger' = Append(ledger, row)

-----------------------------------------------------------------------------
(* The admin's handlers. *)

\* set_postpack_tier, for a key that is no client yet.
CreateClient(k) ==
    /\ k \in ApiKeys \ DOMAIN balance
    /\ balance' = [c \in DOMAIN balance \cup {k} |-> IF c = k THEN 0 ELSE balance[c]]
    /\ UNCHANGED <<time, ledger, payments, sol_price, check, paging, capped>>

Allowed(credits) == credits >= 0 /\ credits <= I64_MAX

\* change_postpack_credits.
ChangeCredits(k, change) ==
    /\ k \in DOMAIN balance /\ Len(ledger) < MaxHistory
    /\ Delta(change) # Absent
    /\ Allowed(balance[k] + Delta(change))
    /\ balance' = [balance EXCEPT ![k] = @ + Delta(change)]
    /\ Record(Row(k, Delta(change), change.reason, Absent, Absent))
    /\ UNCHANGED <<time, payments, sol_price, check, paging, capped>>

-----------------------------------------------------------------------------
(* Payments. *)

Registered(sig) == \E i \in DOMAIN payments : payments[i].sig = sig

\* parse_tip: the entry is well formed, is signed, and pays a tip account something.
PaysTip(sig) == TipOf[sig] > 0

\* What register_payments takes of a batch: each valid signature once, and none twice.
Fresh(batch) ==
    LET first(i) == \A j \in 1..i - 1 : batch[j] # batch[i]
        taken == {i \in DOMAIN batch : PaysTip(batch[i]) /\ first(i) /\ ~Registered(batch[i])}
    IN  [n \in 1..Cardinality(taken) |->
            batch[CHOOSE i \in taken : Cardinality({j \in taken : j <= i}) = n]]

\* postpack_pay; a key that is no API key is refused after the entries are parsed.
Pay(k, batch) ==
    /\ k \in ApiKeys /\ Len(payments) < Cardinality(Signatures) + 1
    /\ payments' = payments \o
           [i \in 1..Len(Fresh(batch)) |->
               [sig |-> Fresh(batch)[i], key |-> k, tip |-> TipOf[Fresh(batch)[i]],
                accounted |-> FALSE]]
    /\ UNCHANGED <<time, balance, ledger, sol_price, check, paging, capped>>

\* The payment task: the price is copied, and the store's lock is waited for.
ReadPrice ==
    /\ check = Absent
    /\ check' = [cents |-> sol_price.cents, price_at |-> sol_price.at, at |-> time]
    /\ UNCHANGED <<time, balance, ledger, payments, sol_price, paging, capped>>

Copied == [cents |-> check.cents, at |-> check.price_at]

Waits(i) == ~payments[i].accounted /\ payments[i].key \in DOMAIN balance

\* Mutant of Due: the scan stops at the first key that is no client.
DueUpToStranger ==
    {i \in DOMAIN payments : Waits(i) /\ \A j \in 1..i : payments[j].accounted \/ Waits(j)}

Due == {i \in DOMAIN payments : Waits(i)}

\* The credits of a due payment, 0 when it is worth nothing or too much.
Worth(i) ==
    LET credits == Buys(payments[i].tip, check.cents) IN IF credits = Absent THEN 0 ELSE credits

\* Mutant of Earned: of payments credited together only one is added.
EarnedOne(k) ==
    LET mine == {i \in Due : payments[i].key = k} IN IF mine = {} THEN 0 ELSE Worth(Max(mine))

Earned(k) == Total(Worth, {i \in Due : payments[i].key = k})

\* Rows in the order of the payments.
TipRows ==
    LET paid == {i \in Due : Worth(i) > 0}
        nth(n) == CHOOSE i \in paid : Cardinality({j \in paid : j <= i}) = n
    IN  [n \in 1..Cardinality(paid) |->
            Row(payments[nth(n)].key, Worth(nth(n)), "tip", payments[nth(n)].sig, Copied)]

\* credit_payments, under the store's lock, at the price that was read before; the balance
\* saturates and the row has the whole amount.
CreditPayments ==
    /\ check # Absent
    /\ IF IsFresh(Copied)
       THEN /\ payments' = [i \in DOMAIN payments |->
                   IF i \in Due THEN [payments[i] EXCEPT !.accounted = TRUE] ELSE payments[i]]
            /\ balance' = [k \in DOMAIN balance |->
                   IF balance[k] + Earned(k) > I64_MAX THEN I64_MAX ELSE balance[k] + Earned(k)]
            /\ capped' = capped \cup {k \in DOMAIN balance : balance[k] + Earned(k) > I64_MAX}
            /\ ledger' = ledger \o TipRows
       ELSE UNCHANGED <<payments, balance, capped, ledger>>
    /\ check' = Absent
    /\ UNCHANGED <<time, sol_price, paging>>

\* A refresh that fails keeps the last price, and is no step.
RefreshPrice(cents) ==
    /\ sol_price' = [cents |-> cents, at |-> time]
    /\ UNCHANGED <<time, balance, ledger, payments, check, paging, capped>>

TimePasses ==
    /\ time < MaxTime /\ time' = time + 1
    /\ UNCHANGED <<balance, ledger, payments, sol_price, check, paging, capped>>

-----------------------------------------------------------------------------
(* Views. *)

Usage(k) == {i \in DOMAIN ledger : ledger[i].key = k /\ ledger[i].reason = "usage"}
Used(i) == -ledger[i].delta

StartOfHour(t) == (t \div HOUR) * HOUR

\* Mutant of SummarySince: 24 hours back from now.
SummarySinceNow == time - DAY

SummarySince == StartOfHour(time) - (DAY - HOUR)

\* get_usage_summary, get_hourly_usage for the hours of a day, get_daily_usage for today.
UsageSummary(k) == Total(Used, {i \in Usage(k) : ledger[i].at >= SummarySince})

HourlyUsage(k, hour) == Total(Used, {i \in Usage(k) : StartOfHour(ledger[i].at) = hour})

HoursOfDay == {StartOfHour(time) - n * HOUR : n \in 0..(DAY \div HOUR) - 1}

DailyUsage(k) == Total(Used, {i \in Usage(k) : ledger[i].at >= (time \div DAY) * DAY})

\* get_credit_history with limit 1: the newest row before the last id that was read.
Page(read) == {i \in DOMAIN ledger : /\ ledger[i].key = Seeded /\ ledger[i].reason # "usage"
                                     /\ \A j \in read : i < j}

ReadPage ==
    /\ Page(paging) # {}
    /\ paging' = paging \cup {Max(Page(paging))}
    /\ UNCHANGED <<time, balance, ledger, payments, sol_price, check, capped>>

-----------------------------------------------------------------------------

\* seeded: the rows of past usage are not taken off the starting balance.
StartingBalance == 1

CreditsInit ==
    /\ time = 0
    /\ balance = [k \in {Seeded} |-> StartingBalance]
    /\ ledger = <<Row(Seeded, StartingBalance, "admin_change", Absent, Absent),
                  UsageRow(Seeded, 1, -HOUR), UsageRow(Seeded, 2, 0)>>
    /\ payments = <<>>
    /\ sol_price = [cents |-> CHOOSE c \in Cents : TRUE, at |-> 0]
    /\ check = Absent
    /\ paging = {}
    /\ capped = {}

CreditsNext ==
    \/ \E k \in ApiKeys : CreateClient(k) \/ \E c \in Changes : ChangeCredits(k, c)
    \/ \E k \in ApiKeys \cup Strangers, b \in Batches : Pay(k, b)
    \/ ReadPrice \/ CreditPayments
    \/ \E c \in Cents : RefreshPrice(c)
    \/ TimePasses
    \/ ReadPage

\* The payment task runs every five seconds.
PaymentTask == ReadPrice \/ CreditPayments

-----------------------------------------------------------------------------
(* Correctness. *)

CreditsTypeOK ==
    /\ DOMAIN balance \subseteq ApiKeys
    /\ \A k \in DOMAIN balance : balance[k] \in 0..I64_MAX
    /\ \A i \in DOMAIN ledger : ledger[i].key \in DOMAIN balance /\ ledger[i].reason \in Reasons
    /\ \A i \in DOMAIN payments : payments[i].key \in ApiKeys /\ payments[i].tip > 0

Booked(k) ==
    Total(LAMBDA i : ledger[i].delta, {i \in DOMAIN ledger : ledger[i].key = k /\ ledger[i].reason # "usage"})

\* A balance is what the history adds up to, through admin changes, payments credited together
\* and tips that fill it: only a balance that was once capped may be less.  The mock charges no
\* usage.
BalanceIsLedger ==
    \A k \in DOMAIN balance :
        IF k \in capped THEN balance[k] <= Booked(k) ELSE balance[k] = Booked(k)

\* A signature is credited at most once, to the key that registered it, for what its tip was
\* worth at a price that was not older than MAX_SOL_PRICE_AGE; and it is not set aside without
\* a row unless it was worth nothing.
PaymentsCreditedOnce ==
    /\ \A i, j \in DOMAIN payments : payments[i].sig = payments[j].sig => i = j
    /\ \A i, j \in DOMAIN ledger :
           ledger[i].sig # Absent /\ ledger[i].sig = ledger[j].sig => i = j
    /\ \A i \in DOMAIN ledger :
           ledger[i].reason = "tip" =>
               /\ ledger[i].age <= MAX_SOL_PRICE_AGE
               /\ \E j \in DOMAIN payments :
                      /\ payments[j].sig = ledger[i].sig /\ payments[j].key = ledger[i].key
                      /\ payments[j].accounted
                      /\ ledger[i].delta = Buys(payments[j].tip, ledger[i].cents)
    /\ \A j \in DOMAIN payments :
           payments[j].accounted /\ (\A c \in Cents : Buys(payments[j].tip, c) \notin {0, Absent}) =>
               \E i \in DOMAIN ledger : ledger[i].sig = payments[j].sig

\* The views agree, whenever they are asked for: the last 24 hours are the same in the summary and
\* by hour, and today the same by day and by hour.  Reading the history page by page gives every
\* row there was at the first page, and no other, although rows are added meanwhile.
ViewsAgree ==
    /\ \A k \in DOMAIN balance :
           /\ UsageSummary(k) = Total(LAMBDA h : HourlyUsage(k, h), HoursOfDay)
           /\ DailyUsage(k) =
                  Total(LAMBDA h : HourlyUsage(k, h), {h \in HoursOfDay : h >= (time \div DAY) * DAY})
    /\ paging # {} /\ Page(paging) = {} =>
           paging = {i \in 1..Max(paging) : ledger[i].key = Seeded /\ ledger[i].reason # "usage"}

\* If the price is refreshed in time from some point on, every payment of a client is accounted.
TipsAreAccounted ==
    LET unpaid == {i \in DOMAIN payments : payments[i].key \in DOMAIN balance /\ ~payments[i].accounted}
    IN  <>[]IsFresh(sol_price) => (unpaid # {} ~> unpaid = {})
=============================================================================
