--------------------------- MODULE Finance_proofs ---------------------------
(***************************************************************************)
(* Theorems about Finance, for any number of administrators, orders and    *)
(* calls.                                                                  *)
(***************************************************************************)
EXTENDS Finance, FiniteSetTheorems, TLAPS

---------------------------------------------------------------------------
(* Type correctness.  It is not inductive alone: an audit row is made from *)
(* what the request read before its write, and that must still be there.   *)

\* What a request in flight holds, at each step.
FilingOK(w) ==
    /\ w.pc \in {"config", "configAudit"} =>
          w.percentage \in Percentage /\ w.replaces \in 0 .. Len(commission)
    /\ w.pc \in {"method", "methodAudit"} => w.method \in MethodId
    /\ w.pc = "method" => w.edit \in MethodEdits
    /\ w.pc \in {"status", "statusAudit", "inform"} =>
          w.order \in OrderId /\ w.old \in TransactionStatus /\ w.new \in TransactionStatus
FinInv == FinTypeOK /\ \A f \in Filing : FilingOK(filing[f])

LEMMA IdleFilingOK == IdleFiling \in FilingRecord /\ FilingOK(IdleFiling)
  BY DEF IdleFiling, FilingRecord, FilingOK, NoMethodRow, MethodRow

LEMMA NoTransactionType == NoTransaction \in Transaction
  BY FinanceAssumption DEF NoTransaction, Transaction, Amount

\* The commission is a natural number, the percentage of the amount to the
\* nearest cent, and no more than the amount.
LEMMA CommissionBounds ==
    ASSUME NEW amount \in Nat, NEW pct \in 0 .. 100
    PROVE  /\ CommissionOn(amount, pct) \in Nat /\ CommissionOn(amount, pct) <= amount
           /\ 100 * CommissionOn(amount, pct) - amount * pct \in -50 .. 50
  <1>1. amount * pct \in Nat /\ amount * pct <= amount * 100
    OBVIOUS
  <1>2. \A x \in Nat : x <= amount * 100 => (x + 50) \div 100 \in Nat /\ (x + 50) \div 100 <= amount
    OBVIOUS
  <1>3. \A x \in Nat : 100 * ((x + 50) \div 100) - x \in -50 .. 50
    OBVIOUS
  <1> QED
    BY <1>1, <1>2, <1>3 DEF CommissionOn

\* The row that is inserted for an order has the type of the table.
LEMMA CompletedType ==
    ASSUME NEW m \in MethodId, NEW amount \in Amount, NEW pct \in Percentage \cup {0},
           NEW reference \in Reference \cup {NoReference}
    PROVE  Completed(m, amount, pct, reference) \in Transaction
  <1>1. amount \in Nat /\ pct \in 0 .. 100
    BY FinanceAssumption DEF Amount
  <1>2. CommissionOn(amount, pct) \in Nat
    BY <1>1, CommissionBounds
  <1> QED
    BY <1>2 DEF Completed, Transaction, TransactionStatus

LEMMA FinInitInv == FinInit => FinInv
  <1> SUFFICES ASSUME FinInit PROVE FinInv
    OBVIOUS
  <1>1. commission \in Seq(Config) /\ clock \in Nat /\ method \in [MethodId -> MethodRow]
    BY FinanceAssumption DEF FinInit
  <1>2. transaction \in [OrderId -> Transaction]
    BY NoTransactionType DEF FinInit
  <1>3. /\ configAudit \in Seq([old : SUBSET Percentage, new : SUBSET Percentage])
        /\ methodAudit \in [MethodId -> [old : MethodRow, new : MethodRow]]
        /\ statusAudit \in [OrderId -> Seq([old : TransactionStatus, new : TransactionStatus])]
    BY DEF FinInit, NoMethodRow, MethodRow
  <1>4. notification \in [OrderId -> Seq(Notice)]
    BY DEF FinInit, NoNotices
  <1>5. filing \in [Filing -> FilingRecord] /\ \A f \in Filing : FilingOK(filing[f])
    BY IdleFilingOK DEF FinInit
  <1>6. entry \in [Call -> Entry]
    BY NoTransactionType DEF FinInit, NoEntry, Entry
  <1> QED
    BY <1>1, <1>2, <1>3, <1>4, <1>5, <1>6 DEF FinInv, FinTypeOK

FilingPc == {"idle", "config", "configAudit", "method", "methodAudit",
             "status", "statusAudit", "inform"}

\* A request that moves on keeps what it holds.
LEMMA PcType ==
    ASSUME NEW w \in FilingRecord, NEW pc \in FilingPc
    PROVE  /\ [w EXCEPT !.pc = pc] \in FilingRecord
           /\ [w EXCEPT !.pc = pc].pc = pc
           /\ [w EXCEPT !.pc = pc].percentage = w.percentage
           /\ [w EXCEPT !.pc = pc].replaces = w.replaces
           /\ [w EXCEPT !.pc = pc].order = w.order
           /\ [w EXCEPT !.pc = pc].old = w.old
           /\ [w EXCEPT !.pc = pc].new = w.new
  <1>1. [w EXCEPT !.pc = pc] =
                [pc |-> pc, percentage |-> w.percentage, replaces |-> w.replaces,
                 from |-> w.from, method |-> w.method, edit |-> w.edit,
                 oldMethod |-> w.oldMethod, newMethod |-> w.newMethod,
                 order |-> w.order, old |-> w.old, new |-> w.new]
    BY DEF FilingRecord
  <1> QED
    BY <1>1 DEF FilingRecord, FilingPc

\* One request takes a step that leaves the configurations alone.
LEMMA FilingMoves ==
    ASSUME FinInv, NEW f \in Filing, NEW w \in FilingRecord, FilingOK(w),
           filing' = [filing EXCEPT ![f] = w], commission' = commission
    PROVE  filing' \in [Filing -> FilingRecord] /\ (\A g \in Filing : FilingOK(filing[g]))'
  BY DEF FinInv, FinTypeOK, FilingOK

\* Retiring a configuration removes none.
LEMMA RetireKeeps ==
    ASSUME NEW rows \in Seq(Config), NEW i \in 0 .. Len(rows)
    PROVE  Retire(rows, i) \in Seq(Config) /\ Len(Retire(rows, i)) = Len(rows)
  <1>1. CASE i = 0
    BY <1>1 DEF Retire
  <1>2. CASE i # 0
    <2> DEFINE row == [rows[i] EXCEPT !.active = FALSE]
    <2>1. rows[i] \in Config
      BY <1>2
    <2>2. row \in Config
      BY <2>1 DEF Config
    <2>3. Retire(rows, i) = [rows EXCEPT ![i] = row]
      BY <1>2 DEF Retire
    <2> HIDE DEF row
    <2> QED
      BY <1>2, <2>2, <2>3
  <1> QED
    BY <1>1, <1>2

\* A PATCH of a payment method leaves a row.
LEMMA MergedRow ==
    ASSUME NEW row \in MethodRow, NEW edit \in MethodEdit
    PROVE  [x \in DOMAIN NoMethodRow |-> IF x \in DOMAIN edit THEN edit[x] ELSE row[x]]
              \in MethodRow
  BY DEF MethodRow, MethodEdit, NoMethodRow

\* A notification is of a known type, and to the buyer or the seller.
LEMMA InformType ==
    ASSUME notification \in [OrderId -> Seq(Notice)], NEW o \in OrderId,
           NEW type \in NoticeType, NEW to \in Party, Inform(o, type, to)
    PROVE  notification' \in [OrderId -> Seq(Notice)]
  <1> DEFINE row == [type |-> type, to |-> to]
  <1>1. row \in Notice
    BY DEF Notice
  <1>2. notification' = [notification EXCEPT ![o] = Append(notification[o], row)]
    BY DEF Inform
  <1> HIDE DEF row
  <1>3. Append(notification[o], row) \in Seq(Notice)
    BY <1>1
  <1> QED
    BY <1>2, <1>3

LEMMA ReferenceSet ==
    ASSUME NEW row \in Transaction, NEW r
    PROVE  [row EXCEPT !.reference = r] =
              [status |-> row.status, method |-> row.method, amount |-> row.amount,
               percentage |-> row.percentage, commission |-> row.commission, reference |-> r]
  BY DEF Transaction

\* Setting the status and the reference leaves a transaction, with its figures.
LEMMA StatusWritten ==
    ASSUME transaction \in [OrderId -> Transaction], NEW f \in Filing,
           NEW r \in Reference \cup {NoReference},
           filing[f].order \in OrderId, filing[f].new \in TransactionStatus, WriteStatus(f, r)
    PROVE  \E row \in Transaction :
              /\ transaction' = [transaction EXCEPT ![filing[f].order] = row]
              /\ row.status = filing[f].new
              /\ row.amount = transaction[filing[f].order].amount
              /\ row.percentage = transaction[filing[f].order].percentage
              /\ row.commission = transaction[filing[f].order].commission
  <1> DEFINE o == filing[f].order
             st == filing[f].new
  <1>a. /\ transaction' = [transaction EXCEPT ![o].status = st,
                               ![o].reference = IF r = NoReference THEN @ ELSE r]
        /\ o \in OrderId /\ st \in TransactionStatus
    BY DEF WriteStatus
  <1> SUFFICES \E row \in Transaction :
                  /\ transaction' = [transaction EXCEPT ![o] = row]
                  /\ row.status = st
                  /\ row.amount = transaction[o].amount
                  /\ row.percentage = transaction[o].percentage
                  /\ row.commission = transaction[o].commission
    OBVIOUS
  <1> HIDE DEF o, st
  <1> DEFINE reference == IF r = NoReference THEN transaction[o].reference ELSE r
             row == [status |-> st, method |-> transaction[o].method,
                     amount |-> transaction[o].amount, percentage |-> transaction[o].percentage,
                     commission |-> transaction[o].commission, reference |-> reference]
  <1>1. transaction[o] \in Transaction
    BY <1>a
  <1>2. row \in Transaction
    BY <1>1, <1>a DEF Transaction
  <1>3. transaction' = [transaction EXCEPT ![o] = row]
    <2> DEFINE first == [transaction[o] EXCEPT !.status = st]
    <2>1. /\ first \in Transaction /\ first.status = st
          /\ first.method = transaction[o].method /\ first.amount = transaction[o].amount
          /\ first.percentage = transaction[o].percentage
          /\ first.commission = transaction[o].commission
          /\ first.reference = transaction[o].reference
      <3>1. first = [status |-> st, method |-> transaction[o].method,
                     amount |-> transaction[o].amount, percentage |-> transaction[o].percentage,
                     commission |-> transaction[o].commission,
                     reference |-> transaction[o].reference]
        BY <1>1 DEF Transaction
      <3> QED
        BY <1>1, <1>a, <3>1 DEF Transaction
    <2> HIDE DEF first
    <2>2. [first EXCEPT !.reference = reference] = row
      BY <2>1, ReferenceSet
    <2> USE DEF first
    <2>3. [transaction EXCEPT ![o] = first][o] = first
      BY <1>a
    <2> QED
      BY <1>a, <2>2, <2>3
  <1>4. /\ row.status = st /\ row.amount = transaction[o].amount
        /\ row.percentage = transaction[o].percentage
        /\ row.commission = transaction[o].commission
    OBVIOUS
  <1> HIDE DEF row
  <1> QED
    BY <1>2, <1>3, <1>4

LEMMA AdminKeepsInv == FinInv /\ AdminNext => FinInv'
  <1> SUFFICES ASSUME FinInv, NEW f \in Filing,
                      \/ \E pct \in Percentage : FileConfig(f, pct)
                      \/ \E o \in OrderId, st \in AdminStatus : FileStatus(f, o, st)
                      \/ \E m \in MethodId :
                            \/ \E row \in [provider : Provider, active : BOOLEAN] :
                                  CreateMethod(f, m, row)
                            \/ \E edit \in MethodEdits : UpdateMethod(f, m, edit)
                      \/ FilingStep(f)
                      \/ FailFiling(f)
               PROVE  FinInv'
    BY DEF AdminNext
  <1>w. filing[f] \in FilingRecord /\ FilingOK(filing[f])
    BY DEF FinInv, FinTypeOK
  <1>1. ASSUME NEW pct \in Percentage, FileConfig(f, pct) PROVE FinInv'
    <2>1. PICK i \in (IF ActiveConfigs = {} THEN {0} ELSE ActiveConfigs) :
             filing' = [filing EXCEPT ![f] = [IdleFiling EXCEPT !.pc = "config",
                           !.percentage = pct, !.replaces = i, !.from = clock]]
      BY <1>1 DEF FileConfig
    <2> DEFINE w == [IdleFiling EXCEPT !.pc = "config", !.percentage = pct,
                                       !.replaces = i, !.from = clock]
    <2>2. /\ i \in 0 .. Len(commission) /\ i \in Nat
          /\ clock \in Nat /\ clock + 1 \in Nat
      BY DEF ActiveConfigs, FinInv, FinTypeOK
    <2>3. w \in FilingRecord /\ FilingOK(w)
      BY <2>2, IdleFilingOK DEF IdleFiling, FilingRecord, FilingOK
    <2> HIDE DEF w
    <2>4. filing' \in [Filing -> FilingRecord] /\ (\A g \in Filing : FilingOK(filing[g]))'
      BY <1>1, <2>1, <2>3, FilingMoves DEF FileConfig, w
    <2> QED
      BY <1>1, <2>2, <2>4
         DEF FinInv, FinTypeOK, FileConfig, configVars, auditVars
  <1>2. ASSUME CommitConfig(f) PROVE FinInv'
    <2> DEFINE w == filing[f]
               new == NewConfig(w.percentage, w.from)
               rows == Retire(commission, w.replaces)
    <2>1. /\ w.percentage \in Percentage /\ w.replaces \in 0 .. Len(commission)
          /\ w.replaces \in Nat /\ w.from \in Nat /\ commission \in Seq(Config)
      BY <1>w, <1>2 DEF CommitConfig, FilingOK, FilingRecord, FinInv, FinTypeOK
    <2>2. new \in Config
      BY <2>1 DEF NewConfig, Config
    <2>3. rows \in Seq(Config) /\ Len(rows) = Len(commission)
      BY <2>1, RetireKeeps
    <2>4. commission' = Append(rows, new)
      BY <1>2 DEF CommitConfig
    <2> HIDE DEF rows, new
    <2>5. commission' \in Seq(Config) /\ Len(commission') = Len(commission) + 1
      BY <2>2, <2>3, <2>4
    <2>6. [w EXCEPT !.pc = "configAudit"] \in FilingRecord
      BY <1>w, PcType DEF FilingPc
    <2>7. filing' \in [Filing -> FilingRecord]
      BY <1>2, <2>6 DEF CommitConfig, FinInv, FinTypeOK
    <2>8. ASSUME NEW g \in Filing PROVE FilingOK(filing[g])'
      <3>1. CASE g # f
        BY <1>2, <2>1, <2>5, <3>1 DEF CommitConfig, FinInv, FinTypeOK, FilingOK
      <3>2. CASE g = f
        <4>1. filing'[f] = [w EXCEPT !.pc = "configAudit"]
          BY <1>2 DEF CommitConfig, FinInv, FinTypeOK
        <4>2. /\ filing'[f].pc = "configAudit"
              /\ filing'[f].percentage = w.percentage /\ filing'[f].replaces = w.replaces
          BY <1>w, <4>1, PcType DEF FilingPc
        <4> QED
          BY <2>1, <2>5, <3>2, <4>2 DEF FilingOK
      <3> QED
        BY <3>1, <3>2
    <2> QED
      BY <1>2, <2>5, <2>7, <2>8 DEF FinInv, FinTypeOK, CommitConfig, auditVars
  <1>3. ASSUME AuditConfig(f) PROVE FinInv'
    <2> DEFINE w == filing[f]
               row == [old |-> IF w.replaces = 0 THEN {} ELSE {commission[w.replaces].percentage},
                       new |-> {w.percentage}]
    <2>1. /\ w.percentage \in Percentage /\ w.replaces \in 0 .. Len(commission)
          /\ commission \in Seq(Config)
      BY <1>w, <1>3 DEF AuditConfig, FilingOK, FinInv, FinTypeOK
    <2>a. w.replaces # 0 => commission[w.replaces] \in Config
      BY <2>1
    <2>2. w.replaces # 0 => commission[w.replaces].percentage \in Percentage
      BY <2>a DEF Config
    <2>3. row \in [old : SUBSET Percentage, new : SUBSET Percentage]
      BY <2>1, <2>2
    <2>4. configAudit' = Append(configAudit, row)
      BY <1>3 DEF AuditConfig
    <2> HIDE DEF row
    <2>5. configAudit' \in Seq([old : SUBSET Percentage, new : SUBSET Percentage])
      BY <2>3, <2>4 DEF FinInv, FinTypeOK
    <2>6. filing' \in [Filing -> FilingRecord] /\ (\A g \in Filing : FilingOK(filing[g]))'
      BY <1>3, IdleFilingOK, FilingMoves DEF AuditConfig, configVars
    <2> QED
      BY <1>3, <2>5, <2>6 DEF FinInv, FinTypeOK, AuditConfig, configVars
  <1>4. ASSUME NEW m \in MethodId, NEW row \in [provider : Provider, active : BOOLEAN],
               CreateMethod(f, m, row)
        PROVE  FinInv'
    <2> DEFINE w == [IdleFiling EXCEPT !.pc = "methodAudit", !.method = m, !.newMethod = row]
    <2>1. row \in MethodRow
      BY DEF MethodRow
    <2>2. w \in FilingRecord /\ FilingOK(w)
      BY <2>1, IdleFilingOK DEF IdleFiling, FilingRecord, FilingOK
    <2>3. filing' = [filing EXCEPT ![f] = w] /\ commission' = commission
      BY <1>4 DEF CreateMethod
    <2> HIDE DEF w
    <2>4. filing' \in [Filing -> FilingRecord] /\ (\A g \in Filing : FilingOK(filing[g]))'
      BY <2>2, <2>3, FilingMoves
    <2> QED
      BY <1>4, <2>1, <2>4 DEF FinInv, FinTypeOK, CreateMethod, auditVars
  <1>5. ASSUME NEW m \in MethodId, NEW edit \in MethodEdits, UpdateMethod(f, m, edit)
        PROVE  FinInv'
    <2> DEFINE w == [IdleFiling EXCEPT !.pc = "method", !.method = m, !.edit = edit,
                                       !.oldMethod = method[m]]
    <2>1. method[m] \in MethodRow
      BY DEF FinInv, FinTypeOK
    <2>2. w \in FilingRecord /\ FilingOK(w)
      BY <2>1, IdleFilingOK DEF IdleFiling, FilingRecord, FilingOK
    <2>3. filing' = [filing EXCEPT ![f] = w] /\ commission' = commission
      BY <1>5 DEF UpdateMethod, configVars
    <2> HIDE DEF w
    <2>4. filing' \in [Filing -> FilingRecord] /\ (\A g \in Filing : FilingOK(filing[g]))'
      BY <2>2, <2>3, FilingMoves
    <2> QED
      BY <1>5, <2>4 DEF FinInv, FinTypeOK, UpdateMethod, configVars, auditVars
  <1>6. ASSUME WriteMethod(f) PROVE FinInv'
    <2> DEFINE w == filing[f]
               row == [x \in DOMAIN NoMethodRow |->
                          IF x \in DOMAIN w.edit THEN w.edit[x] ELSE method[w.method][x]]
               moved == [IdleFiling EXCEPT !.pc = "methodAudit", !.method = w.method,
                                           !.oldMethod = w.oldMethod, !.newMethod = row]
    <2>1. w.method \in MethodId /\ w.edit \in MethodEdit /\ method[w.method] \in MethodRow
      BY <1>w, <1>6, FinanceAssumption DEF WriteMethod, FilingOK, FinInv, FinTypeOK
    <2>2. row \in MethodRow
      BY <2>1, MergedRow
    <2>3. method' = [method EXCEPT ![w.method] = row]
      BY <1>6 DEF WriteMethod
    <2>4. filing' = [filing EXCEPT ![f] = moved]
      BY <1>6 DEF WriteMethod
    <2> HIDE DEF row
    <2>a. w.oldMethod \in MethodRow
      BY <1>w DEF FilingRecord
    <2>5. moved \in FilingRecord /\ FilingOK(moved)
      BY <2>a, <2>1, <2>2, IdleFilingOK DEF IdleFiling, FilingRecord, FilingOK
    <2> HIDE DEF moved
    <2>6. filing' \in [Filing -> FilingRecord] /\ (\A g \in Filing : FilingOK(filing[g]))'
      BY <1>6, <2>4, <2>5, FilingMoves DEF WriteMethod
    <2>7. method' \in [MethodId -> MethodRow]
      BY <2>2, <2>3 DEF FinInv, FinTypeOK
    <2> QED
      BY <1>6, <2>6, <2>7 DEF FinInv, FinTypeOK, WriteMethod, auditVars
  <1>7. ASSUME AuditMethod(f) PROVE FinInv'
    <2>1. filing' \in [Filing -> FilingRecord] /\ (\A g \in Filing : FilingOK(filing[g]))'
      BY <1>7, IdleFilingOK, FilingMoves DEF AuditMethod, configVars
    <2>2. [old |-> filing[f].oldMethod, new |-> filing[f].newMethod]
             \in [old : MethodRow, new : MethodRow]
      BY <1>w DEF FilingRecord
    <2>3. methodAudit' \in [MethodId -> [old : MethodRow, new : MethodRow]]
      BY <1>7, <2>2 DEF AuditMethod, FinInv, FinTypeOK
    <2> QED
      BY <1>7, <2>1, <2>3 DEF FinInv, FinTypeOK, AuditMethod, configVars
  <1>8. ASSUME NEW o \in OrderId, NEW st \in AdminStatus, FileStatus(f, o, st) PROVE FinInv'
    <2> DEFINE w == [IdleFiling EXCEPT !.pc = "status", !.order = o,
                                       !.old = transaction[o].status, !.new = st]
    <2>1. transaction[o].status \in TransactionStatus /\ st \in TransactionStatus
      BY <1>8 DEF FinInv, FinTypeOK, FileStatus, Exists, Transaction, AdminStatus,
                  TransactionStatus
    <2>2. w \in FilingRecord /\ FilingOK(w)
      BY <2>1, IdleFilingOK DEF IdleFiling, FilingRecord, FilingOK
    <2>3. filing' = [filing EXCEPT ![f] = w] /\ commission' = commission
      BY <1>8 DEF FileStatus, configVars
    <2> HIDE DEF w
    <2>4. filing' \in [Filing -> FilingRecord] /\ (\A g \in Filing : FilingOK(filing[g]))'
      BY <2>2, <2>3, FilingMoves
    <2> QED
      BY <1>8, <2>4 DEF FinInv, FinTypeOK, FileStatus, configVars, auditVars
  <1>9. ASSUME NEW r \in Reference \cup {NoReference}, WriteStatus(f, r) PROVE FinInv'
    <2> DEFINE w == filing[f]
               moved == [w EXCEPT !.pc = "statusAudit"]
    <2>1. w.order \in OrderId /\ w.new \in TransactionStatus /\ w.old \in TransactionStatus
      BY <1>w, <1>9 DEF WriteStatus, FilingOK
    <2>a. /\ moved \in FilingRecord /\ moved.pc = "statusAudit"
          /\ moved.order = w.order /\ moved.new = w.new /\ moved.old = w.old
      BY <1>w, PcType DEF FilingPc
    <2>b. filing' = [filing EXCEPT ![f] = moved] /\ commission' = commission
      BY <1>9 DEF WriteStatus, configVars
    <2> HIDE DEF moved
    <2>2. moved \in FilingRecord /\ FilingOK(moved)
      BY <2>a, <2>1 DEF FilingOK
    <2>3. filing' \in [Filing -> FilingRecord] /\ (\A g \in Filing : FilingOK(filing[g]))'
      BY <2>2, <2>b, FilingMoves
    <2>c. transaction \in [OrderId -> Transaction]
      BY DEF FinInv, FinTypeOK
    <2>e. PICK row \in Transaction : transaction' = [transaction EXCEPT ![w.order] = row]
      BY <1>9, <2>1, <2>c, StatusWritten
    <2>4. transaction' \in [OrderId -> Transaction]
      BY <2>1, <2>c, <2>e
    <2> QED
      BY <1>9, <2>3, <2>4 DEF FinInv, FinTypeOK, WriteStatus, configVars, auditVars
  <1>10. ASSUME AuditStatus(f) PROVE FinInv'
    <2> DEFINE w == filing[f]
               moved == [w EXCEPT !.pc = "inform"]
               row == AuditRow(w.old, w.new)
    <2>1. w.order \in OrderId /\ w.new \in TransactionStatus /\ w.old \in TransactionStatus
      BY <1>w, <1>10 DEF AuditStatus, FilingOK
    <2>a. /\ moved \in FilingRecord /\ moved.pc = "inform"
          /\ moved.order = w.order /\ moved.new = w.new /\ moved.old = w.old
      BY <1>w, PcType DEF FilingPc
    <2>b. filing' = [filing EXCEPT ![f] = moved] /\ commission' = commission
      BY <1>10 DEF AuditStatus, configVars
    <2> HIDE DEF moved
    <2>2. moved \in FilingRecord /\ FilingOK(moved)
      BY <2>a, <2>1 DEF FilingOK
    <2>3. filing' \in [Filing -> FilingRecord] /\ (\A g \in Filing : FilingOK(filing[g]))'
      BY <2>2, <2>b, FilingMoves
    <2>4. row \in [old : TransactionStatus, new : TransactionStatus]
      BY <2>1 DEF AuditRow
    <2>5. statusAudit' = [statusAudit EXCEPT ![w.order] = Append(@, row)]
      BY <1>10 DEF AuditStatus
    <2> HIDE DEF row
    <2>6. statusAudit' \in [OrderId -> Seq([old : TransactionStatus, new : TransactionStatus])]
      <3> DEFINE Rows == [old : TransactionStatus, new : TransactionStatus]
      <3>1. statusAudit \in [OrderId -> Seq(Rows)] /\ row \in Rows
        BY <2>4 DEF FinInv, FinTypeOK
      <3> HIDE DEF Rows
      <3>2. Append(statusAudit[w.order], row) \in Seq(Rows)
        BY <2>1, <3>1
      <3>3. statusAudit' \in [OrderId -> Seq(Rows)]
        BY <2>5, <3>1, <3>2
      <3> QED
        BY <3>3 DEF Rows
    <2> QED
      BY <1>10, <2>3, <2>6 DEF FinInv, FinTypeOK, AuditStatus, configVars
  <1>11. ASSUME InformSeller(f) PROVE FinInv'
    <2>1. filing' \in [Filing -> FilingRecord] /\ (\A g \in Filing : FilingOK(filing[g]))'
      BY <1>11, IdleFilingOK, FilingMoves DEF InformSeller, configVars
    <2>a. filing[f].order \in OrderId
      BY <1>w, <1>11 DEF InformSeller, FilingOK
    <2>2. notification' \in [OrderId -> Seq(Notice)]
      BY <1>11, <2>a, InformType DEF InformSeller, NoticeType, Party, FinInv, FinTypeOK
    <2> QED
      BY <1>11, <2>1, <2>2 DEF FinInv, FinTypeOK, InformSeller, configVars, auditVars
  <1>12. ASSUME FailFiling(f) PROVE FinInv'
    <2>1. filing' \in [Filing -> FilingRecord] /\ (\A g \in Filing : FilingOK(filing[g]))'
      BY <1>12, IdleFilingOK, FilingMoves DEF FailFiling, configVars
    <2> QED
      BY <1>12, <2>1 DEF FinInv, FinTypeOK, FailFiling, configVars, auditVars
  <1> QED
    BY <1>1, <1>2, <1>3, <1>4, <1>5, <1>6, <1>7, <1>8, <1>9, <1>10, <1>11, <1>12
       DEF FilingStep

\* What a delivered order is about to be given has the type of the table.
LEMMA PreparedType ==
    ASSUME FinInv, NEW c \in Call, NEW o \in OrderId, NEW amount \in Amount,
           PrepareDelivered(c, o, amount)
    PROVE  \E row \in Transaction :
              /\ entry' = [entry EXCEPT ![c] = [order |-> o, row |-> row]]
              /\ AtItsRate(row)
              /\ \E i \in 1 .. Len(commission) : commission[i].percentage = row.percentage
  <1>1. PICK i \in CurrentConfigs, m \in MethodsFor("OTHER") :
           entry' = [entry EXCEPT ![c] =
              [order |-> o, row |-> Completed(m, amount, commission[i].percentage, NoReference)]]
    BY DEF PrepareDelivered
  <1> DEFINE pct == commission[i].percentage
             row == Completed(m, amount, pct, NoReference)
  <1>2. i \in 1 .. Len(commission) /\ commission \in Seq(Config)
    BY DEF CurrentConfigs, ActiveConfigs, FinInv, FinTypeOK
  <1>3. commission[i] \in Config
    BY <1>2
  <1>4. pct \in Percentage
    BY <1>3 DEF Config
  <1>5. m \in MethodId
    BY DEF MethodsFor
  <1>a. Percentage \subseteq 0 .. 100 /\ amount \in Nat
    BY FinanceAssumption DEF Amount
  <1>6. pct \in 0 .. 100 /\ amount \in Nat
    BY <1>4, <1>a
  <1>7. row.commission = CommissionOn(amount, pct) /\ row.amount = amount /\ row.percentage = pct
    BY DEF Completed
  <1>8. AtItsRate(row)
    BY <1>6, <1>7, CommissionBounds DEF AtItsRate
  <1>9. row \in Transaction
    BY <1>4, <1>5, CompletedType
  <1> HIDE DEF row
  <1> QED
    BY <1>1, <1>2, <1>7, <1>8, <1>9 DEF row

LEMMA DeliverKeepsInv ==
    ASSUME FinInv, NEW c \in Call, NEW o \in OrderId, DeliverElsewhere(c, o, MaxAmount)
    PROVE  FinInv'
  <1>1. MaxAmount \in Amount
    BY FinanceAssumption DEF Amount
  <1>2. PICK row \in Transaction : entry' = [entry EXCEPT ![c] = [order |-> o, row |-> row]]
    BY <1>1, PreparedType DEF DeliverElsewhere
  <1>3. entry' \in [Call -> Entry]
    BY <1>2 DEF Entry, FinInv, FinTypeOK
  <1> QED
    BY <1>3 DEF DeliverElsewhere, FinInv, FinTypeOK, FilingOK, configVars, auditVars

LEMMA InsertKeepsInv ==
    ASSUME FinInv, NEW c \in Call, InsertTransaction(c)
    PROVE  FinInv'
  <1>1. entry[c] \in Entry /\ NoEntry \in Entry
    BY NoTransactionType DEF NoEntry, Entry, FinInv, FinTypeOK
  <1>2. entry[c].order \in OrderId /\ entry[c].row \in Transaction
    BY <1>1 DEF InsertTransaction, Entry
  <1>3. transaction' \in [OrderId -> Transaction]
    BY <1>2 DEF InsertTransaction, FinInv, FinTypeOK
  <1>4. entry' \in [Call -> Entry]
    BY <1>1 DEF InsertTransaction, FinInv, FinTypeOK
  <1> QED
    BY <1>3, <1>4 DEF InsertTransaction, FinInv, FinTypeOK, FilingOK, configVars, auditVars

LEMMA StutterKeepsInv == FinInv /\ UNCHANGED finVars => FinInv'
  BY DEF FinInv, FinTypeOK, FilingOK, finVars, configVars, auditVars

LEMMA FinInvariant == FinSpec => []FinInv
  <1>1. FinInv /\ [FinNext]_finVars => FinInv'
    <2>1. FinInv /\ FinNext => FinInv'
      BY AdminKeepsInv, DeliverKeepsInv, InsertKeepsInv DEF FinNext
    <2> QED
      BY <2>1, StutterKeepsInv
  <1> QED
    BY <1>1, FinInitInv, PTL DEF FinSpec

\* The rows of the finance tables keep the shape the schema declares, and the
\* requests in flight and the rows about to be inserted theirs.
THEOREM FinanceTypeCorrect == FinSpec => []FinTypeOK
  <1>1. FinInv => FinTypeOK
    BY DEF FinInv
  <1> QED
    BY <1>1, FinInvariant, PTL

---------------------------------------------------------------------------
(* The configurations only grow: retiring one keeps its row.               *)

\* The percentage was configured at some time.
Configured(pct) == \E i \in 1 .. Len(commission) : commission[i].percentage = pct

LEMMA RetirePercentage ==
    ASSUME NEW rows \in Seq(Config), NEW i \in 0 .. Len(rows), NEW k \in 1 .. Len(rows)
    PROVE  Retire(rows, i)[k].percentage = rows[k].percentage
  <1>1. CASE i = 0
    BY <1>1 DEF Retire
  <1>2. CASE i # 0
    <2> DEFINE row == [rows[i] EXCEPT !.active = FALSE]
    <2>1. rows[i] \in Config
      BY <1>2
    <2>2. row.percentage = rows[i].percentage
      BY <2>1 DEF Config
    <2>3. Retire(rows, i) = [rows EXCEPT ![i] = row]
      BY <1>2 DEF Retire
    <2> HIDE DEF row
    <2> QED
      BY <1>2, <2>2, <2>3
  <1> QED
    BY <1>1, <1>2

\* What a commit does to the configurations.
LEMMA CommitAppends ==
    ASSUME FinInv, NEW f \in Filing, CommitConfig(f)
    PROVE  /\ Len(commission') = Len(commission) + 1
           /\ Len(commission) \in Nat
           /\ commission'[Len(commission) + 1].active
           /\ \A k \in 1 .. Len(commission) :
                 commission'[k].percentage = commission[k].percentage
  <1> DEFINE w == filing[f]
             new == NewConfig(w.percentage, w.from)
             rows == Retire(commission, w.replaces)
  <1>1. /\ w.percentage \in Percentage /\ w.replaces \in 0 .. Len(commission)
        /\ w.from \in Nat /\ commission \in Seq(Config)
    BY DEF CommitConfig, FilingOK, FilingRecord, FinInv, FinTypeOK
  <1>2. new \in Config /\ new.active
    BY <1>1 DEF NewConfig, Config
  <1>3. /\ rows \in Seq(Config) /\ Len(rows) = Len(commission)
        /\ \A k \in 1 .. Len(commission) : rows[k].percentage = commission[k].percentage
    BY <1>1, RetireKeeps, RetirePercentage
  <1>4. commission' = Append(rows, new)
    BY DEF CommitConfig
  <1> HIDE DEF rows, new
  <1>5. /\ Len(commission') = Len(rows) + 1 /\ commission'[Len(rows) + 1] = new
        /\ \A k \in 1 .. Len(rows) : commission'[k] = rows[k]
    BY <1>2, <1>3, <1>4
  <1> QED
    BY <1>1, <1>2, <1>3, <1>5

\* Every other step leaves them alone.
LEMMA OnlyCommitsConfigure ==
    FinNext => commission' = commission \/ \E f \in Filing : CommitConfig(f)
  BY DEF FinNext, AdminNext, FilingStep, FileConfig, AuditConfig, CreateMethod, UpdateMethod,
         WriteMethod, AuditMethod, FileStatus, WriteStatus, AuditStatus, InformSeller,
         FailFiling, InsertTransaction, DeliverElsewhere, configVars

\* Once a commission is configured there always is one in force, however many
\* admins change it at once: a commit that retires the active row adds one.
THEOREM ConfigurationStays == FinSpec => ConfiguredForGood
  <1>1. FinInv /\ [FinNext]_finVars => [ActiveConfigs # {} => ActiveConfigs' # {}]_finVars
    <2> SUFFICES ASSUME FinInv, FinNext, ActiveConfigs # {} PROVE ActiveConfigs' # {}
      OBVIOUS
    <2>1. CASE commission' = commission
      BY <2>1 DEF ActiveConfigs
    <2>2. ASSUME NEW f \in Filing, CommitConfig(f) PROVE ActiveConfigs' # {}
      <3>1. /\ Len(commission') = Len(commission) + 1 /\ Len(commission) \in Nat
            /\ commission'[Len(commission) + 1].active
        BY <2>2, CommitAppends
      <3>2. Len(commission) + 1 \in ActiveConfigs'
        BY <3>1 DEF ActiveConfigs
      <3> QED
        BY <3>2
    <2> QED
      BY <2>1, <2>2, OnlyCommitsConfigure
  <1> QED
    BY <1>1, FinInvariant, PTL DEF FinSpec, ConfiguredForGood

---------------------------------------------------------------------------
(* The commission of a transaction.                                        *)

\* A row whose commission was worked out from a percentage that was configured.
WasConfigured(row) == AtItsRate(row) /\ Configured(row.percentage)
CommissionInv ==
    /\ \A o \in OrderId : Exists(o) => WasConfigured(transaction[o])
    /\ \A c \in Call : entry[c].order # NoOrder => WasConfigured(entry[c].row)
    /\ \A f \in Filing : filing[f].pc = "status" => Exists(filing[f].order)

\* A configured percentage stays configured.
LEMMA PercentagesStay ==
    ASSUME FinInv, FinNext, NEW pct, Configured(pct)
    PROVE  Configured(pct)'
  <1>1. CASE commission' = commission
    BY <1>1 DEF Configured
  <1>2. ASSUME NEW f \in Filing, CommitConfig(f) PROVE Configured(pct)'
    <2>1. PICK k \in 1 .. Len(commission) : commission[k].percentage = pct
      BY DEF Configured
    <2>2. /\ Len(commission') = Len(commission) + 1 /\ Len(commission) \in Nat
          /\ commission'[k].percentage = pct
      BY <1>2, <2>1, CommitAppends
    <2>3. k \in 1 .. Len(commission')
      BY <2>2
    <2> QED
      BY <2>2, <2>3 DEF Configured
  <1> QED
    BY <1>1, <1>2, OnlyCommitsConfigure

\* An admin's request writes the status of a transaction that is there.
FiledExist == \A f \in Filing : filing[f].pc = "status" => Exists(filing[f].order)

\* An admin's step leaves the figures of every transaction as they are.
LEMMA AdminKeepsFigures ==
    ASSUME FinInv, FiledExist, AdminNext, NEW o \in OrderId
    PROVE  /\ transaction'[o].amount = transaction[o].amount
           /\ transaction'[o].percentage = transaction[o].percentage
           /\ transaction'[o].commission = transaction[o].commission
           /\ Exists(o)' => Exists(o)
           /\ Exists(o) => Exists(o)'
  <1>1. CASE transaction' = transaction
    BY <1>1 DEF Exists
  <1>2. ASSUME NEW f \in Filing, NEW r \in Reference \cup {NoReference}, WriteStatus(f, r)
        PROVE  /\ transaction'[o].amount = transaction[o].amount
               /\ transaction'[o].percentage = transaction[o].percentage
               /\ transaction'[o].commission = transaction[o].commission
               /\ Exists(o)' => Exists(o)
               /\ Exists(o) => Exists(o)'
    <2> DEFINE order == filing[f].order
               new == filing[f].new
    <2>1. /\ order \in OrderId /\ new \in TransactionStatus /\ Exists(order)
          /\ transaction \in [OrderId -> Transaction]
      BY <1>2 DEF WriteStatus, FinInv, FinTypeOK, FilingOK, FiledExist
    <2>3. PICK row \in Transaction :
             /\ transaction' = [transaction EXCEPT ![order] = row]
             /\ row.status = new /\ row.amount = transaction[order].amount
             /\ row.percentage = transaction[order].percentage
             /\ row.commission = transaction[order].commission
      BY <1>2, <2>1, StatusWritten
    <2> HIDE DEF order, new
    <2>4. new # "NONE"
      BY <2>1 DEF TransactionStatus
    <2> QED
      BY <2>1, <2>3, <2>4 DEF Exists
  <1> QED
    BY <1>1, <1>2 DEF AdminNext, FilingStep, FileConfig, CommitConfig, AuditConfig, CreateMethod,
         UpdateMethod, WriteMethod, AuditMethod, FileStatus, AuditStatus, InformSeller, FailFiling

\* Only a request just filed begins to write the status of a transaction.
LEMMA FilingRises ==
    ASSUME FinInv, AdminNext, NEW f \in Filing, filing'[f].pc = "status"
    PROVE  \/ filing'[f] = filing[f]
           \/ Exists(filing'[f].order) /\ filing'[f].order \in OrderId
  <1> filing \in [Filing -> FilingRecord]
    BY DEF FinInv, FinTypeOK
  <1>1. ASSUME NEW g \in Filing, NEW o \in OrderId, NEW st \in AdminStatus, FileStatus(g, o, st)
        PROVE  filing'[f] = filing[f] \/ (Exists(filing'[f].order) /\ filing'[f].order \in OrderId)
    <2> DEFINE w == [IdleFiling EXCEPT !.pc = "status", !.order = o,
                                       !.old = transaction[o].status, !.new = st]
    <2>1. filing' = [filing EXCEPT ![g] = w] /\ Exists(o)
      BY <1>1 DEF FileStatus
    <2>2. w.order = o
      BY DEF IdleFiling
    <2> HIDE DEF w
    <2> QED
      BY <2>1, <2>2
  <1>2. ASSUME NEW g \in Filing,
               \/ \E pct \in Percentage : FileConfig(g, pct)
               \/ \E m \in MethodId :
                     \/ \E row \in [provider : Provider, active : BOOLEAN] : CreateMethod(g, m, row)
                     \/ \E edit \in MethodEdits : UpdateMethod(g, m, edit)
               \/ FilingStep(g)
               \/ FailFiling(g)
        PROVE  filing'[f] = filing[f]
    <2>1. PICK w : filing' = [filing EXCEPT ![g] = w] /\ w.pc # "status"
      <3>1. ASSUME NEW pct \in Percentage, FileConfig(g, pct)
            PROVE  \E w : filing' = [filing EXCEPT ![g] = w] /\ w.pc # "status"
        <4>1. PICK i : filing' = [filing EXCEPT ![g] = [IdleFiling EXCEPT !.pc = "config",
                          !.percentage = pct, !.replaces = i, !.from = clock]]
          BY <3>1 DEF FileConfig
        <4> DEFINE w == [IdleFiling EXCEPT !.pc = "config", !.percentage = pct,
                                           !.replaces = i, !.from = clock]
        <4>2. w.pc # "status"
          BY DEF IdleFiling
        <4>3. filing' = [filing EXCEPT ![g] = w]
          BY <4>1
        <4> HIDE DEF w
        <4> QED
          BY <4>2, <4>3
      <3>2. ASSUME NEW pc \in FilingPc \ {"status"}, filing' = [filing EXCEPT ![g].pc = pc]
            PROVE  \E w : filing' = [filing EXCEPT ![g] = w] /\ w.pc # "status"
        <4>1. [filing[g] EXCEPT !.pc = pc].pc = pc
          BY PcType
        <4> QED
          BY <3>2, <4>1
      <3>3. CASE CommitConfig(g)
        BY <3>2, <3>3 DEF CommitConfig, FilingPc
      <3>4. CASE AuditConfig(g) \/ AuditMethod(g) \/ InformSeller(g) \/ FailFiling(g)
        BY <3>4 DEF AuditConfig, AuditMethod, InformSeller, FailFiling, IdleFiling
      <3>5. ASSUME NEW m \in MethodId, NEW row \in [provider : Provider, active : BOOLEAN],
                   CreateMethod(g, m, row)
            PROVE  \E w : filing' = [filing EXCEPT ![g] = w] /\ w.pc # "status"
        <4> DEFINE w == [IdleFiling EXCEPT !.pc = "methodAudit", !.method = m, !.newMethod = row]
        <4>1. filing' = [filing EXCEPT ![g] = w]
          BY <3>5 DEF CreateMethod
        <4>2. w.pc # "status"
          BY DEF IdleFiling
        <4> HIDE DEF w
        <4> QED
          BY <4>1, <4>2
      <3>6. ASSUME NEW m \in MethodId, NEW edit \in MethodEdits, UpdateMethod(g, m, edit)
            PROVE  \E w : filing' = [filing EXCEPT ![g] = w] /\ w.pc # "status"
        <4> DEFINE w == [IdleFiling EXCEPT !.pc = "method", !.method = m, !.edit = edit,
                                           !.oldMethod = method[m]]
        <4>1. filing' = [filing EXCEPT ![g] = w]
          BY <3>6 DEF UpdateMethod
        <4>2. w.pc # "status"
          BY DEF IdleFiling
        <4> HIDE DEF w
        <4> QED
          BY <4>1, <4>2
      <3>7. CASE WriteMethod(g)
        <4> DEFINE w == [IdleFiling EXCEPT !.pc = "methodAudit",
                      !.method = filing[g].method, !.oldMethod = filing[g].oldMethod,
                      !.newMethod = [x \in DOMAIN NoMethodRow |->
                          IF x \in DOMAIN filing[g].edit THEN filing[g].edit[x]
                                                         ELSE method[filing[g].method][x]]]
        <4>1. filing' = [filing EXCEPT ![g] = w]
          BY <3>7 DEF WriteMethod
        <4>2. w.pc # "status"
          BY DEF IdleFiling
        <4> HIDE DEF w
        <4> QED
          BY <4>1, <4>2
      <3>8. CASE \E r \in Reference \cup {NoReference} : WriteStatus(g, r)
        BY <3>2, <3>8 DEF WriteStatus, FilingPc
      <3>9. CASE AuditStatus(g)
        BY <3>2, <3>9 DEF AuditStatus, FilingPc
      <3> QED
        BY <1>2, <3>1, <3>3, <3>4, <3>5, <3>6, <3>7, <3>8, <3>9 DEF FilingStep
    <2> QED
      BY <2>1
  <1> QED
    BY <1>1, <1>2 DEF AdminNext

LEMMA AdminKeepsFiled == FinInv /\ FiledExist /\ AdminNext => FiledExist'
  <1> SUFFICES ASSUME FinInv, FiledExist, AdminNext, NEW f \in Filing, filing'[f].pc = "status"
               PROVE  Exists(filing[f].order)'
    BY DEF FiledExist
  <1>1. Exists(filing'[f].order) /\ filing'[f].order \in OrderId
    <2>1. CASE filing'[f] = filing[f]
      BY <2>1 DEF FiledExist, FinInv, FilingOK
    <2>2. CASE filing'[f] # filing[f]
      BY <2>2, FilingRises
    <2> QED
      BY <2>1, <2>2
  <1> QED
    BY <1>1, AdminKeepsFigures DEF Exists

LEMMA AdminKeepsEntries == AdminNext => entry' = entry
  BY DEF AdminNext, FilingStep, FileConfig, CommitConfig, AuditConfig, CreateMethod, UpdateMethod,
         WriteMethod, AuditMethod, FileStatus, WriteStatus, AuditStatus, InformSeller, FailFiling

LEMMA AdminKeepsCommission == FinInv /\ CommissionInv /\ AdminNext => CommissionInv'
  <1> SUFFICES ASSUME FinInv, CommissionInv, AdminNext PROVE CommissionInv'
    OBVIOUS
  <1>a. FinNext
    BY DEF FinNext
  <1>b. FiledExist
    BY DEF CommissionInv, FiledExist
  <1>1. ASSUME NEW o \in OrderId, Exists(o)' PROVE WasConfigured(transaction[o])'
    <2>1. /\ transaction'[o].amount = transaction[o].amount
          /\ transaction'[o].percentage = transaction[o].percentage
          /\ transaction'[o].commission = transaction[o].commission
          /\ Exists(o)
      BY <1>b, <1>1, AdminKeepsFigures
    <2>2. AtItsRate(transaction[o]) /\ Configured(transaction[o].percentage)
      BY <2>1 DEF CommissionInv, WasConfigured
    <2> DEFINE pct == transaction[o].percentage
    <2>3. \A p : Configured(p) => Configured(p)'
      BY <1>a, PercentagesStay
    <2> QED
      BY <2>1, <2>2, <2>3 DEF WasConfigured, AtItsRate, Configured
  <1>2. entry' = entry
    BY AdminKeepsEntries
  <1>3. ASSUME NEW c \in Call, entry'[c].order # NoOrder PROVE WasConfigured(entry[c].row)'
    <2>1. AtItsRate(entry[c].row) /\ Configured(entry[c].row.percentage)
      BY <1>2, <1>3 DEF CommissionInv, WasConfigured
    <2>2. \A p : Configured(p) => Configured(p)'
      BY <1>a, PercentagesStay
    <2> QED
      BY <1>2, <2>1, <2>2 DEF WasConfigured, AtItsRate, Configured
  <1> QED
    BY <1>b, <1>1, <1>3, AdminKeepsFiled DEF CommissionInv, FiledExist

LEMMA DeliverKeepsCommission ==
    ASSUME FinInv, CommissionInv, NEW d \in Call, NEW p \in OrderId,
           DeliverElsewhere(d, p, MaxAmount)
    PROVE  CommissionInv'
  <1>1. MaxAmount \in Amount
    BY FinanceAssumption DEF Amount
  <1>2. PICK row \in Transaction :
           /\ entry' = [entry EXCEPT ![d] = [order |-> p, row |-> row]]
           /\ WasConfigured(row)
    BY <1>1, PreparedType DEF DeliverElsewhere, WasConfigured, Configured
  <1>3. /\ commission' = commission /\ transaction' = transaction /\ filing' = filing
        /\ entry \in [Call -> Entry]
    BY DEF DeliverElsewhere, configVars, FinInv, FinTypeOK
  <1>4. \A c \in Call : entry'[c].order # NoOrder => WasConfigured(entry'[c].row)
    BY <1>2, <1>3 DEF CommissionInv
  <1> QED
    BY <1>3, <1>4 DEF CommissionInv, WasConfigured, AtItsRate, Configured, Exists

LEMMA InsertKeepsCommission ==
    ASSUME FinInv, CommissionInv, NEW d \in Call, InsertTransaction(d)
    PROVE  CommissionInv'
  <1>1. /\ commission' = commission /\ filing' = filing
        /\ transaction' = IF Exists(entry[d].order) THEN transaction
                          ELSE [transaction EXCEPT ![entry[d].order] = entry[d].row]
        /\ entry' = [entry EXCEPT ![d] = NoEntry] /\ entry[d].order # NoOrder
    BY DEF InsertTransaction, configVars
  <1>2. /\ transaction \in [OrderId -> Transaction] /\ entry \in [Call -> Entry]
        /\ WasConfigured(entry[d].row)
    BY <1>1 DEF FinInv, FinTypeOK, CommissionInv
  <1>3. \A o \in OrderId : Exists(o)' => WasConfigured(transaction'[o])
    BY <1>1, <1>2 DEF CommissionInv, Exists
  <1>4. \A c \in Call : entry'[c].order # NoOrder => WasConfigured(entry'[c].row)
    BY <1>1, <1>2 DEF CommissionInv, NoEntry
  <1>5. \A f \in Filing : filing[f].pc = "status" =>
           filing[f].order \in OrderId /\ Exists(filing[f].order)
    BY DEF CommissionInv, FinInv, FilingOK
  <1>6. \A o \in OrderId : Exists(o) => Exists(o)'
    BY <1>1, <1>2 DEF Exists
  <1> QED
    BY <1>1, <1>3, <1>4, <1>5, <1>6 DEF CommissionInv, WasConfigured, AtItsRate, Configured, Exists

\* Every transaction recorded for a delivered order charges, to the cent, a
\* percentage that an admin had configured, of the amount of the order.
THEOREM CommissionIsConfigured == FinSpec => []CommissionWasConfigured
  <1>1. FinInit => CommissionInv
    BY DEF FinInit, CommissionInv, Exists, NoTransaction, NoEntry, IdleFiling
  <1>2. FinInv /\ CommissionInv /\ [FinNext]_finVars => CommissionInv'
    <2>1. FinInv /\ CommissionInv /\ FinNext => CommissionInv'
      BY AdminKeepsCommission, DeliverKeepsCommission, InsertKeepsCommission DEF FinNext
    <2>2. CommissionInv /\ UNCHANGED finVars => CommissionInv'
      BY DEF CommissionInv, WasConfigured, AtItsRate, Configured, Exists, finVars, configVars
    <2> QED
      BY <2>1, <2>2
  <1>3. CommissionInv => CommissionWasConfigured
    BY DEF CommissionInv, CommissionWasConfigured, WasConfigured, Configured
  <1> QED
    BY <1>1, <1>2, <1>3, FinInvariant, PTL DEF FinSpec
---------------------------------------------------------------------------
(* Administrators one at a time.                                           *)

\* A step of a filing that is about no commission config to come and no status.
FilingAside(g) ==
    /\ filing[g].pc \notin {"config", "status", "statusAudit"}
    /\ filing'[g].pc \notin {"config", "status", "statusAudit"}
    /\ UNCHANGED <<commission, transaction, statusAudit>>

\* The steps of administrators, one filing moving at a time.
FilingMove(g) ==
    \/ \E pct \in Percentage : FileConfig(g, pct)
    \/ CommitConfig(g)
    \/ \E o \in OrderId, st \in AdminStatus : FileStatus(g, o, st)
    \/ \E r \in Reference \cup {NoReference} : WriteStatus(g, r)
    \/ AuditStatus(g)
    \/ FailFiling(g)
    \/ FilingAside(g)

LEMMA OneFilingMoves ==
    ASSUME FinInv, AdminNext
    PROVE  \E g \in Filing : /\ FilingMove(g)
                             /\ \A f \in Filing : f # g => filing'[f] = filing[f]
  <1>a. filing \in [Filing -> FilingRecord]
    BY DEF FinInv, FinTypeOK
  <1> DEFINE Others(g) == \A f \in Filing : f # g => filing'[f] = filing[f]
  <1>1. ASSUME NEW g \in Filing, NEW m \in MethodId,
               NEW row \in [provider : Provider, active : BOOLEAN], CreateMethod(g, m, row)
        PROVE  FilingAside(g) /\ Others(g)
    <2> DEFINE w == [IdleFiling EXCEPT !.pc = "methodAudit", !.method = m, !.newMethod = row]
    <2>1. filing' = [filing EXCEPT ![g] = w]
      BY <1>1 DEF CreateMethod
    <2>2. w.pc = "methodAudit"
      BY DEF IdleFiling
    <2> HIDE DEF w
    <2> QED
      BY <1>a, <1>1, <2>1, <2>2 DEF CreateMethod, FilingAside, auditVars
  <1>2. ASSUME NEW g \in Filing, NEW m \in MethodId, NEW edit \in MethodEdits,
               UpdateMethod(g, m, edit)
        PROVE  FilingAside(g) /\ Others(g)
    <2> DEFINE w == [IdleFiling EXCEPT !.pc = "method", !.method = m, !.edit = edit,
                                       !.oldMethod = method[m]]
    <2>1. filing' = [filing EXCEPT ![g] = w]
      BY <1>2 DEF UpdateMethod
    <2>2. w.pc = "method"
      BY DEF IdleFiling
    <2> HIDE DEF w
    <2> QED
      BY <1>a, <1>2, <2>1, <2>2 DEF UpdateMethod, FilingAside, auditVars, configVars
  <1>3. ASSUME NEW g \in Filing, WriteMethod(g) PROVE FilingAside(g) /\ Others(g)
    <2> DEFINE row == [x \in DOMAIN NoMethodRow |->
                          IF x \in DOMAIN filing[g].edit THEN filing[g].edit[x]
                                                         ELSE method[filing[g].method][x]]
               w == [IdleFiling EXCEPT !.pc = "methodAudit", !.method = filing[g].method,
                        !.oldMethod = filing[g].oldMethod, !.newMethod = row]
    <2>1. filing' = [filing EXCEPT ![g] = w]
      BY <1>3 DEF WriteMethod
    <2>2. w.pc = "methodAudit"
      BY DEF IdleFiling
    <2> HIDE DEF w
    <2> QED
      BY <1>a, <1>3, <2>1, <2>2 DEF WriteMethod, FilingAside, auditVars
  <1>4. ASSUME NEW g \in Filing, AuditConfig(g) \/ AuditMethod(g) \/ InformSeller(g)
        PROVE  FilingAside(g) /\ Others(g)
    <2>1. filing' = [filing EXCEPT ![g] = IdleFiling]
          /\ filing[g].pc \in {"configAudit", "methodAudit", "inform"}
          /\ UNCHANGED <<commission, transaction, statusAudit>>
      BY <1>4 DEF AuditConfig, AuditMethod, InformSeller, configVars, auditVars
    <2> QED
      BY <1>a, <2>1 DEF FilingAside, IdleFiling
  <1>5. ASSUME NEW g \in Filing, NEW pct \in Percentage, FileConfig(g, pct) PROVE Others(g)
    BY <1>5, <1>a DEF FileConfig
  <1>6. ASSUME NEW g \in Filing, NEW o \in OrderId, NEW st \in AdminStatus, FileStatus(g, o, st)
        PROVE  Others(g)
    BY <1>6, <1>a DEF FileStatus
  <1>7. ASSUME NEW g \in Filing,
               \/ CommitConfig(g) \/ AuditStatus(g) \/ FailFiling(g)
               \/ \E r \in Reference \cup {NoReference} : WriteStatus(g, r)
        PROVE  Others(g)
    BY <1>7, <1>a DEF CommitConfig, AuditStatus, FailFiling, WriteStatus
  <1> HIDE DEF Others
  <1>8. \E g \in Filing : FilingMove(g) /\ Others(g)
    BY <1>1, <1>2, <1>3, <1>4, <1>5, <1>6, <1>7 DEF AdminNext, FilingStep, FilingMove
  <1> QED
    BY <1>8 DEF Others

\* When a filing moves, the others rest.
LEMMA OthersRest ==
    ASSUME FinInv, OneAdmin, OneAdmin', NEW g \in Filing, filing[g].pc # "idle" \/ filing'[g].pc # "idle",
           \A f \in Filing : f # g => filing'[f] = filing[f]
    PROVE  \A f \in Filing : f # g => filing[f].pc = "idle" /\ filing'[f].pc = "idle"
  BY DEF OneAdmin

---------------------------------------------------------------------------
(* One active commission.  It is inductive with what a filing knows: the   *)
(* row it is about to retire is the one that is active.                    *)

OneActiveInitially == \A rows \in InitialConfigs : \A i, k \in 1 .. Len(rows) :
    rows[i].active /\ rows[k].active => i = k

OneConfig == \A i, k \in ActiveConfigs : i = k
ConfigFound(f) == filing[f].pc = "config" =>
    ActiveConfigs = IF filing[f].replaces = 0 THEN {} ELSE {filing[f].replaces}
ConfigInv == OneConfig /\ \A f \in Filing : ConfigFound(f)

\* A retired row is not active, and no other row becomes so.
LEMMA RetireActive ==
    ASSUME NEW rows \in Seq(Config), NEW i \in 0 .. Len(rows), NEW k \in 1 .. Len(rows),
           Retire(rows, i)[k].active
    PROVE  k # i /\ rows[k].active
  <1>1. CASE i = 0
    BY <1>1 DEF Retire
  <1>2. CASE i # 0
    <2> DEFINE row == [rows[i] EXCEPT !.active = FALSE]
    <2>1. rows[i] \in Config
      BY <1>2
    <2>2. row.active = FALSE
      BY <2>1 DEF Config
    <2>3. Retire(rows, i) = [rows EXCEPT ![i] = row]
      BY <1>2 DEF Retire
    <2> HIDE DEF row
    <2> QED
      BY <1>2, <2>2, <2>3
  <1> QED
    BY <1>1, <1>2

LEMMA CommitLeavesOne ==
    ASSUME FinInv, ConfigInv, NEW f \in Filing, CommitConfig(f)
    PROVE  ActiveConfigs' \subseteq {Len(commission) + 1}
  <1> DEFINE w == filing[f]
             new == NewConfig(w.percentage, w.from)
             rows == Retire(commission, w.replaces)
  <1>1. /\ w.percentage \in Percentage /\ w.replaces \in 0 .. Len(commission)
        /\ w.from \in Nat /\ commission \in Seq(Config) /\ w.pc = "config"
    BY DEF CommitConfig, FilingOK, FilingRecord, FinInv, FinTypeOK
  <1>2. new \in Config
    BY <1>1 DEF NewConfig, Config
  <1>3. /\ rows \in Seq(Config) /\ Len(rows) = Len(commission)
        /\ \A k \in 1 .. Len(commission) : rows[k].active => k # w.replaces /\ commission[k].active
    BY <1>1, RetireKeeps, RetireActive
  <1>4. commission' = Append(rows, new)
    BY DEF CommitConfig
  <1>5. ActiveConfigs \subseteq {w.replaces}
    BY <1>1 DEF ConfigInv, ConfigFound
  <1>6. \A k \in 1 .. Len(commission) : ~rows[k].active
    BY <1>3, <1>5 DEF ActiveConfigs
  <1> HIDE DEF rows, new
  <1>7. /\ Len(commission') = Len(rows) + 1 /\ Len(rows) \in Nat
        /\ \A k \in 1 .. Len(rows) : commission'[k] = rows[k]
    BY <1>2, <1>3, <1>4
  <1>8. ASSUME NEW k \in 1 .. Len(commission'), commission'[k].active
        PROVE  k = Len(commission) + 1
    BY <1>3, <1>6, <1>7, <1>8
  <1> QED
    BY <1>8 DEF ActiveConfigs

LEMMA ConfigKept ==
    FinInv /\ ConfigInv /\ OneAdmin /\ [FinNext /\ OneAdmin']_finVars => ConfigInv' /\ OneAdmin'
  <1> SUFFICES ASSUME FinInv, ConfigInv, OneAdmin, [FinNext /\ OneAdmin']_finVars
               PROVE  ConfigInv' /\ OneAdmin'
    OBVIOUS
  <1>a. filing \in [Filing -> FilingRecord]
    BY DEF FinInv, FinTypeOK
  <1>1. CASE UNCHANGED <<commission, filing>>
    BY <1>1 DEF ConfigInv, OneConfig, ConfigFound, ActiveConfigs, OneAdmin, finVars
  <1>2. ASSUME NEW g \in Filing, FilingMove(g), \A f \in Filing : f # g => filing'[f] = filing[f],
               OneAdmin'
        PROVE  ConfigInv'
    <2> DEFINE w == filing'[g]
    <2>0. ASSUME commission' = commission, w.pc # "config" PROVE ConfigInv'
      BY <1>2, <2>0 DEF ConfigInv, OneConfig, ConfigFound, ActiveConfigs
    <2>1. ASSUME NEW pct \in Percentage, FileConfig(g, pct) PROVE ConfigInv'
      <3>1. PICK i \in (IF ActiveConfigs = {} THEN {0} ELSE ActiveConfigs) :
               filing' = [filing EXCEPT ![g] = [IdleFiling EXCEPT !.pc = "config",
                             !.percentage = pct, !.replaces = i, !.from = clock]]
        BY <2>1 DEF FileConfig
      <3> DEFINE v == [IdleFiling EXCEPT !.pc = "config", !.percentage = pct,
                                         !.replaces = i, !.from = clock]
      <3>2. v.pc = "config" /\ v.replaces = i
        BY DEF IdleFiling
      <3>3. filing'[g] = v /\ commission' = commission
        BY <1>a, <2>1, <3>1 DEF FileConfig
      <3> HIDE DEF v
      <3>4. ActiveConfigs = IF i = 0 THEN {} ELSE {i}
        BY DEF ConfigInv, OneConfig, ActiveConfigs
      <3>5. ActiveConfigs' = ActiveConfigs
        BY <3>3 DEF ActiveConfigs
      <3>6. ASSUME NEW f \in Filing PROVE ConfigFound(f)'
        <4>1. CASE f = g
          BY <3>2, <3>3, <3>4, <3>5, <4>1 DEF ConfigFound
        <4>2. CASE f # g
          BY <1>2, <3>5, <4>2 DEF ConfigFound, ConfigInv
        <4> QED
          BY <4>1, <4>2
      <3> QED
        BY <3>5, <3>6 DEF ConfigInv, OneConfig
    <2>2. CASE CommitConfig(g)
      <3>1. ActiveConfigs' \subseteq {Len(commission) + 1}
        BY <2>2, CommitLeavesOne
      <3>2. filing[g].pc = "config" /\ filing'[g].pc = "configAudit"
        BY <2>2, <1>a DEF CommitConfig, FilingRecord
      <3>3. \A f \in Filing : filing'[f].pc # "config"
        BY <1>2, <3>2, OthersRest
      <3> QED
        BY <3>1, <3>3 DEF ConfigInv, OneConfig, ConfigFound
    <2>3. ASSUME NEW o \in OrderId, NEW st \in AdminStatus, FileStatus(g, o, st) PROVE ConfigInv'
      <3> DEFINE v == [IdleFiling EXCEPT !.pc = "status", !.order = o,
                                         !.old = transaction[o].status, !.new = st]
      <3>1. filing' = [filing EXCEPT ![g] = v] /\ commission' = commission
        BY <2>3 DEF FileStatus, configVars
      <3>2. v.pc = "status"
        BY DEF IdleFiling
      <3> HIDE DEF v
      <3> QED
        BY <1>a, <2>0, <3>1, <3>2
    <2>4. CASE \/ AuditStatus(g) \/ FailFiling(g)
               \/ \E r \in Reference \cup {NoReference} : WriteStatus(g, r)
      <3>1. commission' = commission
        BY <2>4 DEF AuditStatus, FailFiling, WriteStatus, configVars
      <3>2. ASSUME NEW pc \in FilingPc, filing' = [filing EXCEPT ![g].pc = pc] PROVE w.pc = pc
        BY <1>a, <3>2, PcType
      <3>3. CASE FailFiling(g)
        BY <1>a, <2>0, <3>1, <3>3 DEF FailFiling, IdleFiling
      <3> QED
        BY <2>0, <2>4, <3>1, <3>2, <3>3 DEF AuditStatus, WriteStatus, FilingPc
    <2>5. CASE FilingAside(g)
      BY <2>0, <2>5 DEF FilingAside
    <2> QED
      BY <1>2, <2>1, <2>2, <2>3, <2>4, <2>5 DEF FilingMove
  <1>3. ASSUME AdminNext, OneAdmin' PROVE ConfigInv'
    BY <1>2, <1>3, OneFilingMoves
  <1>4. CASE \E c \in Call : InsertTransaction(c)
                             \/ \E o \in OrderId : DeliverElsewhere(c, o, MaxAmount)
    BY <1>1, <1>4 DEF InsertTransaction, DeliverElsewhere, configVars
  <1> QED
    BY <1>1, <1>3, <1>4 DEF FinNext, finVars, configVars
LEMMA SerialFinInvariant == FinSerialSpec => []FinInv
  <1>1. FinInv /\ [FinNext /\ OneAdmin']_finVars => FinInv'
    <2>1. FinInv /\ FinNext => FinInv'
      BY AdminKeepsInv, DeliverKeepsInv, InsertKeepsInv DEF FinNext
    <2> QED
      BY <2>1, StutterKeepsInv
  <1> QED
    BY <1>1, FinInitInv, PTL DEF FinSerialSpec

\* From configs of which one is active at most, administrators who act one at a
\* time leave one active at most, whatever of theirs fails and whatever is
\* delivered meanwhile.
THEOREM OneConfigIsActive == OneActiveInitially => (FinSerialSpec => []OneActiveConfig)
  <1> SUFFICES ASSUME OneActiveInitially PROVE FinSerialSpec => []OneActiveConfig
    OBVIOUS
  <1>1. FinInit => ConfigInv /\ OneAdmin
    BY DEF FinInit, ConfigInv, OneConfig, ConfigFound, ActiveConfigs, OneActiveInitially,
           OneAdmin, IdleFiling
  <1>2. ConfigInv => OneActiveConfig
    <2> SUFFICES ASSUME OneConfig PROVE Cardinality(ActiveConfigs) <= 1
      BY DEF ConfigInv, OneActiveConfig
    <2>1. CASE ActiveConfigs = {}
      BY <2>1, FS_EmptySet
    <2>2. ASSUME NEW i, ActiveConfigs = {i} PROVE Cardinality(ActiveConfigs) <= 1
      BY <2>2, FS_Singleton
    <2>3. ActiveConfigs = {} \/ \E i : ActiveConfigs = {i}
      BY DEF OneConfig
    <2> QED
      BY <2>1, <2>2, <2>3
  <1> QED
    BY <1>1, <1>2, ConfigKept, SerialFinInvariant, PTL DEF FinSerialSpec

---------------------------------------------------------------------------
(* The audit log of a transaction.  What a filing read or wrote is still   *)
(* so, and the log ends where the filing began until it has its row.       *)

LastNew(o) == statusAudit[o][Len(statusAudit[o])].new
AuditDue(f, o) == filing[f].pc = "statusAudit" /\ filing[f].order = o

LogOK(o) ==
    /\ \A i \in 1 .. Len(statusAudit[o]) - 1 : statusAudit[o][i + 1].old = statusAudit[o][i].new
    /\ statusAudit[o] # <<>> =>
          Exists(o) /\ ((\A f \in Filing : ~AuditDue(f, o)) => LastNew(o) = transaction[o].status)
StatusFound(f) ==
    LET o == filing[f].order IN
    /\ filing[f].pc \in {"status", "statusAudit"} => Exists(o)
    /\ filing[f].pc = "status" => filing[f].old = transaction[o].status
    /\ filing[f].pc = "statusAudit" =>
          /\ filing[f].new = transaction[o].status
          /\ statusAudit[o] # <<>> => LastNew(o) = filing[f].old
AuditInv == (\A o \in OrderId : LogOK(o)) /\ (\A f \in Filing : StatusFound(f))

\* A step about no status changes nothing of this.
LEMMA QuietKeepsAudit ==
    ASSUME AuditInv, NEW g \in Filing, \A f \in Filing : f # g => filing'[f] = filing[f],
           filing[g].pc # "statusAudit", filing'[g].pc \notin {"status", "statusAudit"},
           UNCHANGED <<transaction, statusAudit>>
    PROVE  AuditInv'
  <1>1. \A f \in Filing, o \in OrderId : AuditDue(f, o) => AuditDue(f, o)'
    BY DEF AuditDue
  <1>2. \A o \in OrderId : LogOK(o)'
    BY <1>1 DEF AuditInv, LogOK, LastNew, Exists
  <1>3. \A f \in Filing : StatusFound(f)'
    BY DEF AuditInv, StatusFound, LastNew, Exists
  <1> QED
    BY <1>2, <1>3 DEF AuditInv

LEMMA FileKeepsAudit ==
    ASSUME FinInv, AuditInv, NEW g \in Filing, \A f \in Filing : f # g => filing'[f] = filing[f],
           NEW o \in OrderId, NEW st \in AdminStatus, FileStatus(g, o, st)
    PROVE  AuditInv'
  <1> DEFINE v == [IdleFiling EXCEPT !.pc = "status", !.order = o,
                                     !.old = transaction[o].status, !.new = st]
  <1>1. filing' = [filing EXCEPT ![g] = v] /\ UNCHANGED <<transaction, statusAudit>>
        /\ Exists(o) /\ filing[g].pc = "idle"
    BY DEF FileStatus, auditVars
  <1>2. v.pc = "status" /\ v.order = o /\ v.old = transaction[o].status
    BY DEF IdleFiling
  <1> HIDE DEF v
  <1>3. filing'[g] = v
    BY <1>1 DEF FinInv, FinTypeOK
  <1>4. \A f \in Filing, u \in OrderId : AuditDue(f, u) => AuditDue(f, u)'
    BY <1>1 DEF AuditDue
  <1>5. \A u \in OrderId : LogOK(u)'
    BY <1>1, <1>4 DEF AuditInv, LogOK, LastNew, Exists
  <1>6. ASSUME NEW f \in Filing PROVE StatusFound(f)'
    <2>1. CASE f = g
      BY <1>1, <1>2, <1>3, <2>1 DEF StatusFound, Exists
    <2>2. CASE f # g
      BY <1>1, <2>2 DEF AuditInv, StatusFound, LastNew, Exists
    <2> QED
      BY <2>1, <2>2
  <1> QED
    BY <1>5, <1>6 DEF AuditInv

LEMMA WriteKeepsAudit ==
    ASSUME FinInv, AuditInv, NEW g \in Filing,
           \A f \in Filing : f # g => filing'[f] = filing[f] /\ filing[f].pc = "idle",
           NEW r \in Reference \cup {NoReference}, WriteStatus(g, r)
    PROVE  AuditInv'
  <1>0. PICK o \in OrderId : o = filing[g].order
    BY DEF WriteStatus, FinInv, FilingOK
  <1> DEFINE new == filing[g].new
  <1>1. /\ filing[g].pc = "status" /\ o \in OrderId /\ new \in TransactionStatus
        /\ Exists(o) /\ filing[g].old = transaction[o].status
        /\ transaction \in [OrderId -> Transaction] /\ filing \in [Filing -> FilingRecord]
    BY <1>0 DEF WriteStatus, FinInv, FinTypeOK, FilingOK, AuditInv, StatusFound
  <1>2. PICK row \in Transaction :
           transaction' = [transaction EXCEPT ![o] = row] /\ row.status = new
    BY <1>0, <1>1, StatusWritten
  <1>3. statusAudit' = statusAudit
    BY DEF WriteStatus, auditVars
  <1>4. /\ filing'[g].pc = "statusAudit" /\ filing'[g].order = o
        /\ filing'[g].old = filing[g].old /\ filing'[g].new = new
    BY <1>0, <1>1, PcType DEF WriteStatus, FilingPc
  <1>5. new # "NONE"
    BY <1>1 DEF TransactionStatus
  <1>6. AuditDue(g, o)' /\ \A f \in Filing : ~AuditDue(f, o)
    BY <1>1, <1>4 DEF AuditDue
  <1>7. /\ transaction'[o].status = new
        /\ \A u \in OrderId : u # o => transaction'[u] = transaction[u]
    BY <1>1, <1>2
  <1> HIDE DEF new
  <1>8. ASSUME NEW u \in OrderId PROVE LogOK(u)'
    <2>1. CASE u = o
      BY <1>1, <1>3, <1>5, <1>6, <1>7, <2>1 DEF AuditInv, LogOK, LastNew, Exists
    <2>2. CASE u # o
      <3>1. \A f \in Filing : ~AuditDue(f, u)
        BY <1>1 DEF AuditDue
      <3> QED
        BY <1>3, <1>7, <2>2, <3>1 DEF AuditInv, LogOK, LastNew, Exists
    <2> QED
      BY <2>1, <2>2
  <1>9. ASSUME NEW f \in Filing PROVE StatusFound(f)'
    <2>1. CASE f = g
      <3>1. statusAudit[o] # <<>> => LastNew(o) = transaction[o].status
        BY <1>1, <1>6 DEF AuditInv, LogOK
      <3> QED
        BY <1>0, <1>1, <1>3, <1>4, <1>5, <1>7, <2>1, <3>1 DEF StatusFound, LastNew, Exists
    <2>2. CASE f # g
      BY <2>2 DEF StatusFound
    <2> QED
      BY <2>1, <2>2
  <1> QED
    BY <1>8, <1>9 DEF AuditInv

LEMMA AuditKeepsAudit ==
    ASSUME FinInv, AuditInv, NEW g \in Filing,
           \A f \in Filing : f # g => filing'[f] = filing[f] /\ filing[f].pc = "idle",
           AuditStatus(g)
    PROVE  AuditInv'
  <1> DEFINE o == filing[g].order
             row == AuditRow(filing[g].old, filing[g].new)
             log == statusAudit[o]
  <1>1. /\ filing[g].pc = "statusAudit" /\ o \in OrderId
        /\ filing[g].old \in TransactionStatus /\ filing[g].new \in TransactionStatus
        /\ filing \in [Filing -> FilingRecord]
        /\ statusAudit \in [OrderId -> Seq([old : TransactionStatus, new : TransactionStatus])]
    BY DEF AuditStatus, FinInv, FinTypeOK, FilingOK
  <1>2. /\ Exists(o) /\ filing[g].new = transaction[o].status
        /\ log # <<>> => log[Len(log)].new = filing[g].old
    BY <1>1 DEF AuditInv, StatusFound, LastNew
  <1>3. row.old = filing[g].old /\ row.new = filing[g].new
        /\ row \in [old : TransactionStatus, new : TransactionStatus]
    BY <1>1 DEF AuditRow
  <1>4. /\ statusAudit' = [statusAudit EXCEPT ![o] = Append(log, row)]
        /\ transaction' = transaction
    BY DEF AuditStatus
  <1>5. filing'[g].pc = "inform"
    BY <1>1, PcType DEF AuditStatus, FilingPc
  <1>6. \A i \in 1 .. Len(log) - 1 : log[i + 1].old = log[i].new
    BY <1>1 DEF AuditInv, LogOK
  <1>7. log \in Seq([old : TransactionStatus, new : TransactionStatus])
    BY <1>1
  <1>8. \A u \in OrderId : u # o => statusAudit'[u] = statusAudit[u]
    BY <1>1, <1>4
  <1>9. statusAudit'[o] = Append(log, row)
    BY <1>1, <1>4
  <1> HIDE DEF row, log
  <1>10. /\ Len(Append(log, row)) = Len(log) + 1 /\ Len(log) \in Nat
         /\ Append(log, row)[Len(log) + 1] = row
         /\ \A i \in 1 .. Len(log) : Append(log, row)[i] = log[i]
         /\ log = <<>> <=> Len(log) = 0
    BY <1>3, <1>7
  <1>11. \A i \in 1 .. Len(Append(log, row)) - 1 : Append(log, row)[i + 1].old = Append(log, row)[i].new
    <2> SUFFICES ASSUME NEW i \in 1 .. Len(log)
                 PROVE  Append(log, row)[i + 1].old = Append(log, row)[i].new
      BY <1>10
    <2>1. CASE i = Len(log)
      BY <1>2, <1>3, <1>10, <2>1
    <2>2. CASE i # Len(log)
      BY <1>6, <1>10, <2>2
    <2> QED
      BY <2>1, <2>2
  <1>12. Append(log, row)[Len(Append(log, row))].new = transaction[o].status
    BY <1>2, <1>3, <1>10
  <1> HIDE DEF o
  <1>13. ASSUME NEW u \in OrderId PROVE LogOK(u)'
    <2>1. CASE u = o
      BY <1>2, <1>4, <1>9, <1>11, <1>12, <2>1 DEF LogOK, LastNew, Exists
    <2>2. CASE u # o
      <3>1. \A f \in Filing : ~AuditDue(f, u)
        BY <1>1, <2>2 DEF AuditDue, o
      <3> QED
        BY <1>4, <1>8, <2>2, <3>1 DEF AuditInv, LogOK, LastNew, Exists
    <2> QED
      BY <2>1, <2>2
  <1>14. \A f \in Filing : StatusFound(f)'
    BY <1>5 DEF StatusFound
  <1> QED
    BY <1>13, <1>14 DEF AuditInv

LEMMA InsertKeepsAudit ==
    ASSUME FinInv, AuditInv, NEW c \in Call, InsertTransaction(c)
    PROVE  AuditInv'
  <1>1. /\ \A o \in OrderId : Exists(o) => transaction'[o] = transaction[o]
        /\ UNCHANGED <<filing, statusAudit>>
    BY DEF InsertTransaction, Exists, auditVars, FinInv, FinTypeOK
  <1>2. \A f \in Filing : filing[f].pc \in {"status", "statusAudit"} => filing[f].order \in OrderId
    BY DEF FinInv, FilingOK
  <1>3. \A o \in OrderId : LogOK(o)'
    BY <1>1 DEF AuditInv, LogOK, LastNew, AuditDue, Exists
  <1>4. \A f \in Filing : StatusFound(f)'
    BY <1>1, <1>2 DEF AuditInv, StatusFound, LastNew, Exists
  <1> QED
    BY <1>3, <1>4 DEF AuditInv

LEMMA AuditKept ==
    ASSUME ~Faults, FinInv, AuditInv, OneAdmin, [FinNext /\ OneAdmin']_finVars
    PROVE  AuditInv' /\ OneAdmin'
  <1>a. filing \in [Filing -> FilingRecord]
    BY DEF FinInv, FinTypeOK
  <1>1. CASE UNCHANGED <<filing, transaction, statusAudit>>
    BY <1>1 DEF AuditInv, LogOK, LastNew, AuditDue, StatusFound, Exists, OneAdmin, finVars
  <1>2. ASSUME NEW g \in Filing, FilingMove(g), \A f \in Filing : f # g => filing'[f] = filing[f],
               OneAdmin'
        PROVE  AuditInv'
    <2>1. ASSUME NEW pct \in Percentage, FileConfig(g, pct) PROVE AuditInv'
      <3>1. PICK i : filing' = [filing EXCEPT ![g] = [IdleFiling EXCEPT !.pc = "config",
                             !.percentage = pct, !.replaces = i, !.from = clock]]
        BY <2>1 DEF FileConfig
      <3> DEFINE v == [IdleFiling EXCEPT !.pc = "config", !.percentage = pct,
                                         !.replaces = i, !.from = clock]
      <3>2. v.pc = "config"
        BY DEF IdleFiling
      <3>3. filing'[g] = v /\ filing[g].pc = "idle" /\ UNCHANGED <<transaction, statusAudit>>
        BY <1>a, <2>1, <3>1 DEF FileConfig, auditVars
      <3> HIDE DEF v
      <3> QED
        BY <1>2, <3>2, <3>3, QuietKeepsAudit
    <2>2. CASE CommitConfig(g)
      <3>1. /\ filing'[g].pc = "configAudit" /\ filing[g].pc = "config"
            /\ UNCHANGED <<transaction, statusAudit>>
        BY <1>a, <2>2, PcType DEF CommitConfig, FilingPc, auditVars
      <3> QED
        BY <1>2, <3>1, QuietKeepsAudit
    <2>3. ASSUME NEW o \in OrderId, NEW st \in AdminStatus, FileStatus(g, o, st) PROVE AuditInv'
      BY <1>2, <2>3, FileKeepsAudit
    <2>4. ASSUME NEW r \in Reference \cup {NoReference}, WriteStatus(g, r) PROVE AuditInv'
      <3>1. filing[g].pc # "idle"
        BY <2>4 DEF WriteStatus
      <3> QED
        BY <1>2, <2>4, <3>1, OthersRest, WriteKeepsAudit
    <2>5. CASE AuditStatus(g)
      <3>1. filing[g].pc # "idle"
        BY <2>5 DEF AuditStatus
      <3> QED
        BY <1>2, <2>5, <3>1, OthersRest, AuditKeepsAudit
    <2>6. CASE FilingAside(g)
      BY <1>2, <2>6, QuietKeepsAudit DEF FilingAside
    <2> QED
      BY <1>2, <2>1, <2>2, <2>3, <2>4, <2>5, <2>6 DEF FilingMove, FailFiling
  <1>3. ASSUME AdminNext, OneAdmin' PROVE AuditInv'
    BY <1>2, <1>3, OneFilingMoves
  <1>4. ASSUME NEW c \in Call, NEW o \in OrderId, DeliverElsewhere(c, o, MaxAmount) PROVE AuditInv'
    BY <1>1, <1>4 DEF DeliverElsewhere, auditVars
  <1>5. CASE UNCHANGED finVars
    BY <1>1, <1>5 DEF finVars, auditVars
  <1> QED
    BY <1>3, <1>4, <1>5, InsertKeepsAudit DEF FinNext, OneAdmin, finVars

\* Administrators who act one at a time, none of whose requests fails, leave for
\* every transaction an audit log that tells the story of its status, though
\* transactions are recorded meanwhile.
THEOREM AuditLogTellsStatus == ~Faults => (FinSerialSpec => []AuditTellsStatus)
  <1> SUFFICES ASSUME ~Faults PROVE FinSerialSpec => []AuditTellsStatus
    OBVIOUS
  <1>1. FinInit => AuditInv /\ OneAdmin
    BY DEF FinInit, AuditInv, LogOK, StatusFound, OneAdmin, IdleFiling
  <1>2. AuditInv => AuditTellsStatus
    BY DEF AuditInv, LogOK, LastNew, AuditDue, AuditTellsStatus
  <1>3. FinInv /\ AuditInv /\ OneAdmin /\ [FinNext /\ OneAdmin']_finVars => AuditInv' /\ OneAdmin'
    BY AuditKept
  <1> QED
    BY <1>1, <1>2, <1>3, SerialFinInvariant, PTL DEF FinSerialSpec

=============================================================================
