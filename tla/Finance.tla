------------------------------ MODULE Finance ------------------------------
(***************************************************************************)
(* The finance module: CommissionConfigService, PaymentMethodsService and  *)
(* TransactionsService.  The admin's requests are filings; the two ways an *)
(* order gets its transaction (on delivery, on a PayPal capture) are steps *)
(* of a handler of another module, and `entry' is what such a handler has  *)
(* worked out between reading the configuration and inserting the row.     *)
(***************************************************************************)
EXTENDS Notifications

CONSTANTS
    Call,           \* slots for order and payment requests that overlap
    Filing,         \* slots for admin requests to finance that overlap
    MethodId,       \* payment_methods ids
    NoMethod,       \* not a payment method
    Provider,       \* payment providers that methods are configured for
    MethodEdits,    \* the bodies a PATCH of a payment method may carry
    Percentage,     \* commission percentages
    Reference,      \* external payment references
    NoReference,    \* externalReference not set
    InitialConfigs, \* commission_configs the platform may start with
    InitialMethods, \* payment_methods the platform may start with
    MaxAmount,      \* the largest value of a Decimal(10,2) column, in cents
    MaxConfigs,     \* bound: how many times creating a commission config is begun
    MaxAudit        \* bound: no status is filed on an order with so many audit rows

PaymentProvider == {"PAYPAL", "CREDIT_CARD", "DEBIT_CARD", "OTHER"}
TransactionStatus == {"PENDING", "COMPLETED", "FAILED", "REFUNDED"}
Config == [percentage : Percentage, active : BOOLEAN, from : Nat]
MethodRow == [provider : Provider \cup {"NONE"}, active : BOOLEAN]
NoMethodRow == [provider |-> "NONE", active |-> FALSE]
NoMethods == [m \in MethodId |-> NoMethodRow]

MethodEdit == [provider : Provider] \cup [active : BOOLEAN]
                  \cup [provider : Provider, active : BOOLEAN]
AdminStatus == {"COMPLETED", "FAILED", "REFUNDED"}    \* update-transaction-status.dto.ts
Amount == 0 .. MaxAmount

ASSUME FinanceAssumption ==
    /\ NoMethod \notin MethodId
    /\ Provider \subseteq PaymentProvider
    /\ MethodEdits \subseteq MethodEdit
    /\ NoReference \notin Reference
    /\ Percentage \subseteq 0 .. 100     \* create-commission-config.dto.ts: @Min(0) @Max(100)
    /\ InitialConfigs \subseteq Seq(Config)
    /\ InitialMethods \subseteq [MethodId -> MethodRow]
    /\ MaxAmount \in Nat /\ MaxConfigs \in Nat /\ MaxAudit \in Nat

VARIABLES
    commission,     \* table commission_configs, in insertion order
    clock,          \* effectiveFrom stamps taken so far
    method,         \* table payment_methods; provider "NONE" is no row
    transaction,    \* table transactions, keyed by its unique orderId; "NONE" is no row
    configAudit,    \* audit_logs rows about commission configs
    methodAudit,    \* the last audit_logs row about each payment method
    statusAudit,    \* audit_logs rows about the transaction of an order
    filing,         \* the admin requests in flight
    entry           \* what a call is about to insert into transactions

configVars == <<commission, clock, method>>
auditVars == <<configAudit, methodAudit, statusAudit>>
finVars == <<configVars, transaction, auditVars, notification, filing, entry>>

Transaction == [status : TransactionStatus \cup {"NONE"}, method : MethodId \cup {NoMethod},
                amount : Amount, percentage : Percentage \cup {0}, commission : Nat,
                reference : Reference \cup {NoReference}]
NoTransaction == [status |-> "NONE", method |-> NoMethod, amount |-> 0, percentage |-> 0,
                  commission |-> 0, reference |-> NoReference]

FilingRecord ==
    [pc : {"idle", "config", "configAudit", "method", "methodAudit",
           "status", "statusAudit", "inform"},
     percentage : Percentage \cup {0}, replaces : Nat, from : Nat,
     method : MethodId \cup {NoMethod}, edit : MethodEdits \cup {NoMethodRow},
     oldMethod : MethodRow, newMethod : MethodRow,
     order : OrderId \cup {NoOrder}, old : TransactionStatus \cup {"NONE"},
     new : TransactionStatus \cup {"NONE"}]
IdleFiling == [pc |-> "idle", percentage |-> 0, replaces |-> 0, from |-> 0,
               method |-> NoMethod, edit |-> NoMethodRow,
               oldMethod |-> NoMethodRow, newMethod |-> NoMethodRow,
               order |-> NoOrder, old |-> "NONE", new |-> "NONE"]

NoEntry == [order |-> NoOrder, row |-> NoTransaction]
Entry == [order : OrderId \cup {NoOrder}, row : Transaction]

---------------------------------------------------------------------------
(* Commission configuration.                                               *)

ActiveConfigs == {i \in 1 .. Len(commission) : commission[i].active}

\* getCurrent: the active row with the latest effectiveFrom.
CurrentConfigs ==
    {i \in ActiveConfigs : \A k \in ActiveConfigs : commission[k].from <= commission[i].from}

\* POST /finance/commission-config, first half of its transaction: take the
\* time and look for the active row (findFirst, no order); 0 if there is none.
FileConfig(f, pct) ==
    /\ filing[f].pc = "idle"
    /\ clock < MaxConfigs
    /\ clock' = clock + 1
    /\ \E i \in (IF ActiveConfigs = {} THEN {0} ELSE ActiveConfigs) :
          filing' = [filing EXCEPT ![f] = [IdleFiling EXCEPT !.pc = "config",
                        !.percentage = pct, !.replaces = i, !.from = clock]]
    /\ UNCHANGED <<commission, method, transaction, auditVars, notification, entry>>

\* Mutation: the row it found stays active.
RetireNothing(rows, i) == rows

Retire(rows, i) == IF i = 0 THEN rows ELSE [rows EXCEPT ![i].active = FALSE]

\* Mutation: the new row is inactive until somebody activates it.
NewConfigInactive(pct, from) == [percentage |-> pct, active |-> FALSE, from |-> from]

NewConfig(pct, from) == [percentage |-> pct, active |-> TRUE, from |-> from]

\* Its commit: the row it found is retired and the new one inserted.
CommitConfig(f) ==
    LET w == filing[f] IN
    /\ w.pc = "config"
    /\ commission' = Append(Retire(commission, w.replaces), NewConfig(w.percentage, w.from))
    /\ filing' = [filing EXCEPT ![f].pc = "configAudit"]
    /\ UNCHANGED <<clock, method, transaction, auditVars, notification, entry>>

\* The audit row: the percentage that was in force and the one that replaces it.
AuditConfig(f) ==
    LET w == filing[f] IN
    /\ w.pc = "configAudit"
    /\ configAudit' = Append(configAudit,
          [old |-> IF w.replaces = 0 THEN {} ELSE {commission[w.replaces].percentage},
           new |-> {w.percentage}])
    /\ filing' = [filing EXCEPT ![f] = IdleFiling]
    /\ UNCHANGED <<configVars, transaction, methodAudit, statusAudit, notification, entry>>

---------------------------------------------------------------------------
(* Payment methods.                                                        *)

\* POST /finance/payment-methods: the insert.
CreateMethod(f, m, row) ==
    /\ filing[f].pc = "idle"
    /\ method[m].provider = "NONE"
    /\ method' = [method EXCEPT ![m] = row]
    /\ filing' = [filing EXCEPT ![f] = [IdleFiling EXCEPT !.pc = "methodAudit",
                                            !.method = m, !.newMethod = row]]
    /\ UNCHANGED <<commission, clock, transaction, auditVars, notification, entry>>

\* PATCH /finance/payment-methods/:id, its read.
UpdateMethod(f, m, edit) ==
    /\ filing[f].pc = "idle"
    /\ method[m].provider # "NONE"
    /\ filing' = [filing EXCEPT ![f] = [IdleFiling EXCEPT !.pc = "method", !.method = m,
                                            !.edit = edit, !.oldMethod = method[m]]]
    /\ UNCHANGED <<configVars, transaction, auditVars, notification, entry>>

\* Its update: the columns sent, over the row as it is by now.
WriteMethod(f) ==
    LET w == filing[f]
        row == [x \in DOMAIN NoMethodRow |->
                   IF x \in DOMAIN w.edit THEN w.edit[x] ELSE method[w.method][x]]
    IN
    /\ w.pc = "method"
    /\ method' = [method EXCEPT ![w.method] = row]
    /\ filing' = [filing EXCEPT ![f] = [IdleFiling EXCEPT !.pc = "methodAudit",
                      !.method = w.method, !.oldMethod = w.oldMethod, !.newMethod = row]]
    /\ UNCHANGED <<commission, clock, transaction, auditVars, notification, entry>>

\* The audit row of either.
AuditMethod(f) ==
    LET w == filing[f] IN
    /\ w.pc = "methodAudit"
    /\ methodAudit' = [methodAudit EXCEPT ![w.method] =
                          [old |-> w.oldMethod, new |-> w.newMethod]]
    /\ filing' = [filing EXCEPT ![f] = IdleFiling]
    /\ UNCHANGED <<configVars, transaction, configAudit, statusAudit, notification, entry>>

\* findPaymentMethod: an active method of the provider, else any active method.
MethodsFor(provider) ==
    LET active == {m \in MethodId : method[m].provider # "NONE" /\ method[m].active}
        wanted == {m \in active : method[m].provider = provider}
    IN  IF wanted # {} THEN wanted ELSE active

---------------------------------------------------------------------------
(* Recording the transaction of an order.                                  *)

\* Mutation: the fraction of a cent is dropped.
CommissionTruncated(amount, pct) == (amount * pct) \div 100

\* Number(((amount * percentage) / 100).toFixed(2)), in cents.
CommissionOn(amount, pct) == (amount * pct + 50) \div 100

Completed(m, amount, pct, reference) ==
    [status |-> "COMPLETED", method |-> m, amount |-> amount, percentage |-> pct,
     commission |-> CommissionOn(amount, pct), reference |-> reference]

Exists(o) == transaction[o].status # "NONE"

\* Mutation: the guard on an existing transaction inverted.
MayRecordDeliveredAgain(o) == Exists(o) /\ CurrentConfigs # {} /\ MethodsFor("OTHER") # {}

\* recordForDeliveredOrder up to its insert: it does nothing for an order that
\* has a transaction, nor without a commission config or a payment method.
MayRecordDelivered(o) ==
    ~Exists(o) /\ CurrentConfigs # {} /\ MethodsFor("OTHER") # {}

PrepareDelivered(c, o, amount) ==
    \E i \in CurrentConfigs, m \in MethodsFor("OTHER") :
        entry' = [entry EXCEPT ![c] =
            [order |-> o, row |-> Completed(m, amount, commission[i].percentage, NoReference)]]

\* Mutation: the guard on an existing transaction inverted.
MayRecordPaypalAgain(o) == Exists(o) /\ MethodsFor("PAYPAL") # {}

\* recordCompletedPaypalPayment up to its insert: without a commission config
\* the commission is 0.
MayRecordPaypal(o) == ~Exists(o) /\ MethodsFor("PAYPAL") # {}

PreparePaypal(c, o, amount, reference) ==
    \E m \in MethodsFor("PAYPAL"),
       pct \in (IF CurrentConfigs = {} THEN {0}
                ELSE {commission[i].percentage : i \in CurrentConfigs}) :
        entry' = [entry EXCEPT ![c] =
            [order |-> o, row |-> Completed(m, amount, pct, reference)]]

\* The insert.  orderId is unique: a second row for the order is an error,
\* which both methods catch and log.
InsertTransaction(c) ==
    LET e == entry[c] IN
    /\ e.order # NoOrder
    /\ transaction' = IF Exists(e.order) THEN transaction
                      ELSE [transaction EXCEPT ![e.order] = e.row]
    /\ entry' = [entry EXCEPT ![c] = NoEntry]
    /\ UNCHANGED <<configVars, auditVars, notification, filing>>

---------------------------------------------------------------------------
(* PATCH /finance/transactions/:id/status                                  *)

FileStatus(f, o, st) ==
    /\ filing[f].pc = "idle"
    /\ Exists(o)
    /\ Len(statusAudit[o]) < MaxAudit
    /\ filing' = [filing EXCEPT ![f] = [IdleFiling EXCEPT !.pc = "status", !.order = o,
                                            !.old = transaction[o].status, !.new = st]]
    /\ UNCHANGED <<configVars, transaction, auditVars, notification, entry>>

\* The update, whatever the status is by now; the reference only if one is sent.
WriteStatus(f, reference) ==
    LET w == filing[f] IN
    /\ w.pc = "status"
    /\ transaction' = [transaction EXCEPT ![w.order].status = w.new,
           ![w.order].reference = IF reference = NoReference THEN @ ELSE reference]
    /\ filing' = [filing EXCEPT ![f].pc = "statusAudit"]
    /\ UNCHANGED <<configVars, auditVars, notification, entry>>

\* Mutation: the two values swapped.
AuditRowSwapped(old, new) == [old |-> new, new |-> old]

AuditRow(old, new) == [old |-> old, new |-> new]

AuditStatus(f) ==
    LET w == filing[f] IN
    /\ w.pc = "statusAudit"
    /\ statusAudit' = [statusAudit EXCEPT ![w.order] = Append(@, AuditRow(w.old, w.new))]
    /\ filing' = [filing EXCEPT ![f].pc = "inform"]
    /\ UNCHANGED <<configVars, transaction, configAudit, methodAudit, notification, entry>>

InformSeller(f) ==
    LET w == filing[f] IN
    /\ w.pc = "inform"
    /\ Inform(w.order, "PAYMENT_UPDATE", "seller")
    /\ filing' = [filing EXCEPT ![f] = IdleFiling]
    /\ UNCHANGED <<configVars, transaction, auditVars, entry>>

\* A statement of the admin's request fails, or the process dies.
FailFiling(f) ==
    /\ Faults
    /\ filing[f].pc # "idle"
    /\ filing' = [filing EXCEPT ![f] = IdleFiling]
    /\ UNCHANGED <<configVars, transaction, auditVars, notification, entry>>

FilingStep(f) ==
    \/ CommitConfig(f) \/ AuditConfig(f) \/ WriteMethod(f) \/ AuditMethod(f)
    \/ \E r \in Reference \cup {NoReference} : WriteStatus(f, r)
    \/ AuditStatus(f) \/ InformSeller(f)

\* What administrators do.
AdminNext ==
    \E f \in Filing :
          \/ \E pct \in Percentage : FileConfig(f, pct)
          \/ \E o \in OrderId, st \in AdminStatus : FileStatus(f, o, st)
          \/ \E m \in MethodId :
                \/ \E row \in [provider : Provider, active : BOOLEAN] : CreateMethod(f, m, row)
                \/ \E edit \in MethodEdits : UpdateMethod(f, m, edit)
          \/ FilingStep(f)
          \/ FailFiling(f)

FinInit ==
    /\ commission \in InitialConfigs
    /\ clock = Len(commission)
    /\ method \in InitialMethods
    /\ transaction = [o \in OrderId |-> NoTransaction]
    /\ configAudit = <<>>
    /\ methodAudit = [m \in MethodId |-> [old |-> NoMethodRow, new |-> NoMethodRow]]
    /\ statusAudit = [o \in OrderId |-> <<>>]
    /\ notification = NoNotices
    /\ filing = [f \in Filing |-> IdleFiling]
    /\ entry = [c \in Call |-> NoEntry]

\* For checking this module alone: orders are delivered at any time.
DeliverElsewhere(c, o, amount) ==
    /\ entry[c].order = NoOrder
    /\ MayRecordDelivered(o)
    /\ PrepareDelivered(c, o, amount)
    /\ UNCHANGED <<configVars, transaction, auditVars, notification, filing>>

FinNext ==
    \/ AdminNext
    \/ \E c \in Call : InsertTransaction(c)
                       \/ \E o \in OrderId : DeliverElsewhere(c, o, MaxAmount)

FinSpec == FinInit /\ [][FinNext]_finVars

\* Administrators' requests one at a time.
OneAdmin == \A f, g \in Filing : filing[f].pc # "idle" /\ filing[g].pc # "idle" => f = g

FinSerialSpec == FinInit /\ [][FinNext /\ OneAdmin']_finVars

---------------------------------------------------------------------------
(* Properties.                                                             *)

\* The tables hold rows of the shape the schema declares.
FinTypeOK ==
    /\ commission \in Seq(Config)
    /\ clock \in Nat
    /\ method \in [MethodId -> MethodRow]
    /\ transaction \in [OrderId -> Transaction]
    /\ methodAudit \in [MethodId -> [old : MethodRow, new : MethodRow]]
    /\ configAudit \in Seq([old : SUBSET Percentage, new : SUBSET Percentage])
    /\ statusAudit \in [OrderId -> Seq([old : TransactionStatus, new : TransactionStatus])]
    /\ notification \in [OrderId -> Seq(Notice)]
    /\ filing \in [Filing -> FilingRecord]
    /\ entry \in [Call -> Entry]

\* At most one commission config is active: creating one retires the previous.
\* It holds while administrators act one at a time, though their requests fail
\* and deliveries read the configs meanwhile.
OneActiveConfig == Cardinality(ActiveConfigs) <= 1

\* Once a commission is configured there always is one in force, however the
\* admins' requests interleave or fail: the row is retired and replaced in one
\* transaction.  Without one, deliveries would record no transaction.
ConfiguredForGood == [][ActiveConfigs # {} => ActiveConfigs' # {}]_finVars

\* The audit log of a transaction tells the story of its status: each row
\* starts where the one before it ended, and the last one ends at the status
\* the transaction has, once no admin request about it is in flight.  It holds
\* while administrators act one at a time and none of their requests fails.
AuditTellsStatus ==
    \A o \in OrderId :
        LET log == statusAudit[o] IN
        /\ \A i \in 1 .. Len(log) - 1 : log[i + 1].old = log[i].new
        /\ (log # <<>> /\ \A f \in Filing : filing[f].order # o)
              => log[Len(log)].new = transaction[o].status

\* A row's commission is its percentage of its amount, to the nearest cent.
AtItsRate(row) == 100 * row.commission - row.amount * row.percentage \in -50 .. 50

\* A transaction's commission is the percentage recorded with it of its amount,
\* to the cent, and that percentage was configured by an admin at some time.  It
\* holds for every recorded row, though the configuration is replaced between
\* the read of it and the insert, and statuses are written over the row.
CommissionWasConfigured ==
    \A o \in OrderId : Exists(o) =>
        /\ AtItsRate(transaction[o])
        /\ \E i \in 1 .. Len(commission) : commission[i].percentage = transaction[o].percentage

=============================================================================
