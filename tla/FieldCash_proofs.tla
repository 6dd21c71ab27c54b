-------------------------- MODULE FieldCash_proofs --------------------------
(***************************************************************************)
(* Proofs about the customers' files, the cans and the riders' cash of     *)
(* BackOffice, for any number of requests, customers, riders and days.     *)
(*                                                                         *)
(* A balance is the worth of a table, row by row, and what a request adds  *)
(* or changes is worth the difference; a sum that a reader makes key by    *)
(* key is the sum of the rows (Worth and Parted of BackOffice_proofs).     *)
(* What a request has read stands unless its rows are crossed.             *)
(***************************************************************************)
EXTENDS BackOffice_proofs

-----------------------------------------------------------------------------
(* The tables of the files and of the cash, and the requests on them.      *)
FileRow == [status : {"none", "ACTIVE", "INACTIVE"}, opening : Nat, promised : BOOLEAN]
EntryTypes == {"OPENING_BALANCE", "DELIVERY_SALE", "PAYMENT", "ADJUSTMENT", "deleted"}
EntryRow == [who : Customers, amount : Int, type : EntryTypes]
CanTypes == {"OPENING_WITH_CUSTOMER", "DELIVERED_TO_CUSTOMER", "RETURNED_FROM_CUSTOMER",
             "ADJUSTMENT", "OPENING_ON_HAND", "LOST", "DAMAGED"}
CanRow == [who : Customers \cup {Nobody}, qty : Int, type : CanTypes]
TripRow == [rider : Riders, open : BOOLEAN, filled : Nat, empty : Nat, counted : Nat]
DropRow == [trip : Nat, who : Customers, out : Nat, back : Nat, sale : Nat, cash : Nat, day : Days,
            live : BOOLEAN]
HandoverRow == [rider : Riders, amount : Nat, day : Days, live : BOOLEAN]
ExpenseRow == [staff : Riders \cup {Nobody}, byRider : BOOLEAN, amount : Nat, day : Days, live : BOOLEAN]
ReceiptRow == [who : Customers, amount : Nat, live : BOOLEAN]
VisitRow == [who : Customers, collector : Riders, outcome : {"COLLECTED", "PROMISED", "NO_CONTACT"},
             amount : Nat, receipt : Nat, day : Days]

CustomerFrame(f) ==
    /\ f.who \in Customers /\ Gives(f.put, FileColumns) /\ f.on = {Customer(f.who)}
    /\ f.seen = NoEntry \/ f.seen \in DOMAIN entries
FleetFrame(f) == f.qty \in Nat /\ f.on = {<<"fleet", "opening">>}
NewHandoverFrame(f) == f.row \in HandoverRow /\ f.row.live /\ f.on = {Rider(f.row.rider)}
HandoverFrame(f) ==
    /\ f.id \in DOMAIN handovers /\ f.put \in scene.edits /\ Does("handover") /\ f.rider \in Riders
    /\ Handover(f.id) \in f.on /\ Rider(f.rider) \in f.on
ExpenseFrame(f) ==
    /\ f.id \in DOMAIN expenses /\ f.put \in scene.edits /\ Does("expense")
    /\ Expense(f.id) \in f.on /\ ("staff" \in DOMAIN f.put => Rider(f.put.staff) \in f.on)
VisitFrame(f) ==
    /\ DOMAIN f = {"op", "on", "at", "row"}
    /\ f.row \in VisitRow /\ f.on = {Customer(f.row.who)} /\ f.at \in {"pay", "promise", "record"}

FieldFrame(f) ==
    /\ f.op = "customer" => CustomerFrame(f)
    /\ f.op = "fleet" => FleetFrame(f)
    /\ f.op = "newHandover" => NewHandoverFrame(f)
    /\ f.op = "handover" => HandoverFrame(f)
    /\ f.op = "expense" => ExpenseFrame(f)
    /\ f.op = "visit" => VisitFrame(f)

FileTables ==
    /\ files \in [Customers -> FileRow] /\ entries \in Seq(EntryRow) /\ cans \in Seq(CanRow)
    /\ trips \in Seq(TripRow) /\ drops \in Seq(DropRow) /\ yard \in Int
    /\ \A d \in DOMAIN drops : drops[d].trip \in DOMAIN trips
CashTables ==
    /\ handovers \in Seq(HandoverRow) /\ expenses \in Seq(ExpenseRow)
    /\ receipts \in Seq(ReceiptRow) /\ visits \in Seq(VisitRow)
FieldTyped == FileTables /\ CashTables /\ \A k \in Desks : FieldFrame(desk[k])

FieldGrows ==
    /\ scene' = scene /\ DOMAIN entries \subseteq DOMAIN entries'
    /\ DOMAIN handovers \subseteq DOMAIN handovers' /\ DOMAIN expenses \subseteq DOMAIN expenses'

FieldOps == FileOps \cup CashOps

LEMMA FieldFrameLasts ==
    ASSUME FieldGrows, NEW m \in Desks, FieldFrame(desk[m]),
           desk'[m] = desk[m] \/ desk'[m].op \notin FieldOps
    PROVE  FieldFrame(desk[m])'
<1>1. CASE desk'[m].op \notin FieldOps
  BY <1>1 DEF FieldFrame, FieldOps, FileOps, CashOps
<1>2. CASE desk'[m] = desk[m]
  <2>1. CustomerFrame(desk[m]) => CustomerFrame(desk[m])'
    BY <1>2 DEF CustomerFrame, FieldGrows, Customer, Gives, FileColumns, NoEntry
  <2>2. FleetFrame(desk[m]) => FleetFrame(desk[m])'
    BY <1>2 DEF FleetFrame
  <2>3. NewHandoverFrame(desk[m]) => NewHandoverFrame(desk[m])'
    BY <1>2 DEF NewHandoverFrame, HandoverRow, Rider
  <2>4. HandoverFrame(desk[m]) => HandoverFrame(desk[m])'
    BY <1>2 DEF HandoverFrame, FieldGrows, Rider, Handover, Does
  <2>5. ExpenseFrame(desk[m]) => ExpenseFrame(desk[m])'
    BY <1>2 DEF ExpenseFrame, FieldGrows, Rider, Expense, Does
  <2>6. VisitFrame(desk[m]) => VisitFrame(desk[m])'
    BY <1>2 DEF VisitFrame, VisitRow, Customer
  <2> QED
    BY <1>2, <2>1, <2>2, <2>3, <2>4, <2>5, <2>6 DEF FieldFrame
<1> QED
  BY <1>1, <1>2

LEMMA FieldWrites ==
    ASSUME FieldTyped, FieldGrows, FileTables', CashTables',
           \A m \in Desks : desk'[m] = desk[m] \/ desk'[m].op \notin FieldOps \/ FieldFrame(desk[m])'
    PROVE  FieldTyped'
<1>1. \A m \in Desks : FieldFrame(desk[m])'
  BY FieldFrameLasts DEF FieldTyped
<1> QED
  BY <1>1 DEF FieldTyped

LEMMA FieldInputs ==
    ASSUME scene \in Scenes
    PROVE  /\ scene.who \subseteq Customers /\ scene.stops \subseteq Stop /\ scene.days \subseteq Days
           /\ scene.amounts \subseteq Nat /\ scene.loads \subseteq Nat /\ scene.deltas \subseteq Int
           /\ \A put \in scene.edits : Gives(put, Columns(scene))
           /\ \A put \in scene.puts : Gives(put, FileColumns)
           /\ scene.rows \in Nat
           /\ IsFiniteSet(Customers) /\ IsFiniteSet(Riders) /\ IsFiniteSet(Days) /\ Nobody \notin Customers \cup Riders
BY OfficeAssumption DEF Inputs

(* What is added is of its type, and nothing is lost. *)
LEMMA RowsKept ==
    ASSUME NEW S, NEW s \in Seq(S), NEW t \in Seq(S)
    PROVE  s \o t \in Seq(S) /\ DOMAIN s \subseteq DOMAIN (s \o t)
OBVIOUS

LEMMA EntryKept ==
    ASSUME NEW c \in Customers, NEW amount \in Int, NEW type \in EntryTypes
    PROVE  Entry(c, type, amount) \in Seq(EntryRow)
<1> DEFINE row == [who |-> c, type |-> type, amount |-> amount]
<1>1. row \in EntryRow
  BY DEF EntryRow
<1>2. Entry(c, type, amount) = <<>> \/ Entry(c, type, amount) = <<row>>
  BY DEF Entry
<1>3. <<row>> \in Seq(EntryRow) /\ <<>> \in Seq(EntryRow)
  <2> HIDE DEF row
  <2> QED
    BY <1>1
<1> HIDE DEF row
<1> QED
  BY <1>2, <1>3

LEMMA CansKept ==
    ASSUME NEW c \in Customers \cup {Nobody}, NEW qty \in Int, NEW type \in CanTypes
    PROVE  Cans(c, type, qty) \in Seq(CanRow)
<1> DEFINE row == [who |-> c, type |-> type, qty |-> qty]
<1>1. row \in CanRow
  BY DEF CanRow
<1>2. Cans(c, type, qty) = <<>> \/ Cans(c, type, qty) = <<row>>
  BY DEF Cans
<1>3. <<row>> \in Seq(CanRow) /\ <<>> \in Seq(CanRow)
  <2> HIDE DEF row
  <2> QED
    BY <1>1
<1> HIDE DEF row
<1> QED
  BY <1>2, <1>3

(* What an update makes of a customer, a handover and an expense. *)
LEMMA PatchedFile ==
    ASSUME NEW row \in FileRow, NEW put, Gives(put, FileColumns)
    PROVE  /\ Patched(row, put) \in FileRow
           /\ Patched(row, put).status = IF "status" \in DOMAIN put THEN put.status ELSE row.status
           /\ Patched(row, put).opening = IF "opening" \in DOMAIN put THEN put.opening ELSE row.opening
           /\ "status" \in DOMAIN put => put.status \in {"ACTIVE", "INACTIVE"}
           /\ "opening" \in DOMAIN put => put.opening \in Nat
<1>1. \A x \in DOMAIN put :
          /\ x \in {"status", "opening"}
          /\ x = "status" => put[x] \in {"ACTIVE", "INACTIVE"}
          /\ x = "opening" => put[x] \in Nat
  BY DEF Gives, FileColumns
<1>2. DOMAIN row = {"status", "opening", "promised"}
  BY DEF FileRow
<1>3. row.status \in {"none", "ACTIVE", "INACTIVE"} /\ row.opening \in Nat /\ row.promised \in BOOLEAN
  BY DEF FileRow
<1> DEFINE new == Patched(row, put)
<1>4. new = [column \in {"status", "opening", "promised"} |-> new[column]]
  BY <1>2 DEF Patched
<1>5. /\ new.status = IF "status" \in DOMAIN put THEN put.status ELSE row.status
      /\ new.opening = IF "opening" \in DOMAIN put THEN put.opening ELSE row.opening
      /\ new.promised = row.promised
  BY <1>1, <1>2 DEF Patched
<1>6. new.status \in {"none", "ACTIVE", "INACTIVE"} /\ new.opening \in Nat /\ new.promised \in BOOLEAN
  BY <1>1, <1>3, <1>5
<1>7. new \in FileRow
  <2> HIDE DEF new
  <2> QED
    BY <1>4, <1>6 DEF FileRow
<1> QED
  BY <1>1, <1>5, <1>7

LEMMA PatchedHandover ==
    ASSUME NEW row \in HandoverRow, NEW put, Gives(put, Columns(scene)), NEW r \in Riders
    PROVE  LET mid == Patched(row, put)
               new == [mid EXCEPT !.rider = r] IN
           /\ mid \in HandoverRow /\ (mid.live <=> row.live)
           /\ mid.amount = IF "amount" \in DOMAIN put THEN put.amount ELSE row.amount
           /\ new \in HandoverRow /\ new.rider = r /\ new.amount = mid.amount /\ new.day = mid.day
           /\ new.live <=> row.live
<1>1. \A x \in DOMAIN put :
          /\ x = "rider" => put[x] \in Riders
          /\ x = "amount" => put[x] \in Nat
          /\ x = "day" => put[x] \in Days
          /\ x # "live"
  BY DEF Gives, Columns
<1>2. DOMAIN row = {"rider", "amount", "day", "live"}
  BY DEF HandoverRow
<1>3. row.rider \in Riders /\ row.amount \in Nat /\ row.day \in Days /\ row.live \in BOOLEAN
  BY DEF HandoverRow
<1> DEFINE mid == Patched(row, put)
           new == [mid EXCEPT !.rider = r]
<1>4. mid = [column \in {"rider", "amount", "day", "live"} |-> mid[column]]
  BY <1>2 DEF Patched
<1>5. /\ mid.rider = IF "rider" \in DOMAIN put THEN put.rider ELSE row.rider
      /\ mid.amount = IF "amount" \in DOMAIN put THEN put.amount ELSE row.amount
      /\ mid.day = IF "day" \in DOMAIN put THEN put.day ELSE row.day
      /\ mid.live <=> row.live
  BY <1>1, <1>2 DEF Patched
<1>6. mid.rider \in Riders /\ mid.amount \in Nat /\ mid.day \in Days /\ mid.live \in BOOLEAN
  <2>1. mid.live = row.live
    BY <1>1, <1>2 DEF Patched
  <2> QED
    BY <1>1, <1>3, <1>5, <2>1
<1>7. mid \in HandoverRow
  <2> HIDE DEF mid
  <2> QED
    BY <1>4, <1>6 DEF HandoverRow
<1>8. /\ new \in HandoverRow /\ new.rider = r /\ new.amount = mid.amount /\ new.day = mid.day
      /\ new.live <=> mid.live
  <2> HIDE DEF mid
  <2> QED
    BY <1>7 DEF HandoverRow
<1> HIDE DEF mid
<1> QED
  BY <1>5, <1>7, <1>8 DEF mid

LEMMA PatchedExpense ==
    ASSUME NEW row \in ExpenseRow, NEW put, Gives(put, Columns(scene)), NEW new, new = Patched(row, put)
    PROVE  /\ new \in ExpenseRow /\ (new.live <=> row.live)
           /\ new.staff = IF "staff" \in DOMAIN put THEN put.staff ELSE row.staff
           /\ "byRider" \in DOMAIN put => (new.byRider <=> put.byRider)
           /\ "byRider" \notin DOMAIN put => (new.byRider <=> row.byRider)
<1>1. \A x \in DOMAIN put :
          /\ x = "staff" => put[x] \in Riders \cup {Nobody}
          /\ x = "amount" => put[x] \in Nat
          /\ x = "byRider" => put[x] \in BOOLEAN
          /\ x = "day" => put[x] \in Days
          /\ x # "live"
  BY DEF Gives, Columns
<1>2. DOMAIN row = {"staff", "byRider", "amount", "day", "live"}
  BY DEF ExpenseRow
<1>3. /\ row.staff \in Riders \cup {Nobody} /\ row.amount \in Nat /\ row.day \in Days /\ row.live \in BOOLEAN
      /\ row.byRider \in BOOLEAN
  BY DEF ExpenseRow
<1>4. new = [column \in {"staff", "byRider", "amount", "day", "live"} |-> new[column]]
  BY <1>2 DEF Patched
<1>5. /\ new.staff = IF "staff" \in DOMAIN put THEN put.staff ELSE row.staff
      /\ new.amount = IF "amount" \in DOMAIN put THEN put.amount ELSE row.amount
      /\ new.day = IF "day" \in DOMAIN put THEN put.day ELSE row.day
      /\ new.byRider = IF "byRider" \in DOMAIN put THEN put.byRider ELSE row.byRider
      /\ new.live = row.live
  BY <1>1, <1>2 DEF Patched
<1>6. /\ new.staff \in Riders \cup {Nobody} /\ new.amount \in Nat /\ new.day \in Days /\ new.live \in BOOLEAN
      /\ new.byRider \in BOOLEAN
  BY ONLY <1>1, <1>3, <1>5
<1>7. new \in ExpenseRow
  BY ONLY <1>4, <1>6 DEF ExpenseRow
<1> QED
  BY <1>5, <1>7

LEMMA StartsFieldTyped == Init => FieldTyped
<1> SUFFICES ASSUME Init PROVE FieldTyped
  OBVIOUS
<1>1. desk = [k \in Desks |-> Idle]
  BY DEF Init
<1>2. \A k \in Desks : FieldFrame(desk[k])
  BY <1>1 DEF FieldFrame, Idle
<1>3. files \in [Customers -> FileRow]
  <2>1. files = [c \in Customers |-> [status |-> IF c \in scene.active THEN "ACTIVE" ELSE "none",
                                      opening |-> 0, promised |-> FALSE]]
    BY DEF Init
  <2> QED
    BY <2>1 DEF FileRow
<1>4. /\ entries = <<>> /\ cans = <<>> /\ trips = <<>> /\ drops = <<>> /\ yard = 0
      /\ handovers = <<>> /\ expenses = <<>> /\ receipts = <<>> /\ visits = <<>>
  BY DEF Init
<1> QED
  BY <1>2, <1>3, <1>4 DEF FieldTyped, FileTables, CashTables

(* What the rows of the files and the cans become.                         *)
LEMMA FileStepTyped ==
    ASSUME Orderly, FieldTyped, FileStep, UNCHANGED cashVars
    PROVE  FieldTyped' /\ FieldGrows
<1>0. /\ scene \in Scenes /\ Exclusive /\ \A k \in Desks : FieldFrame(desk[k])
      /\ files \in [Customers -> FileRow] /\ entries \in Seq(EntryRow) /\ cans \in Seq(CanRow)
      /\ trips \in Seq(TripRow) /\ drops \in Seq(DropRow) /\ yard \in Int
      /\ \A d \in DOMAIN drops : drops[d].trip \in DOMAIN trips
      /\ handovers' = handovers /\ expenses' = expenses /\ receipts' = receipts /\ visits' = visits
      /\ \A t \in DOMAIN trips : trips[t] \in TripRow
      /\ \A d \in DOMAIN drops : drops[d] \in DropRow
  BY SeqDomain DEF FieldTyped, FileTables, Orderly, Exclusive, cashVars
<1>00. CashTables'
  BY <1>0 DEF FieldTyped, CashTables
<1>000. /\ scene.who \subseteq Customers /\ scene.stops \subseteq Stop
        /\ scene.amounts \subseteq Nat /\ scene.loads \subseteq Nat /\ scene.deltas \subseteq Int
        /\ \A put \in scene.puts : Gives(put, FileColumns)
  BY <1>0, FieldInputs
<1>0000. /\ "OPENING_BALANCE" \in EntryTypes /\ "DELIVERY_SALE" \in EntryTypes /\ "PAYMENT" \in EntryTypes
         /\ "ADJUSTMENT" \in EntryTypes /\ "deleted" \in EntryTypes
         /\ "OPENING_WITH_CUSTOMER" \in CanTypes /\ "DELIVERED_TO_CUSTOMER" \in CanTypes
         /\ "RETURNED_FROM_CUSTOMER" \in CanTypes /\ "ADJUSTMENT" \in CanTypes
         /\ "OPENING_ON_HAND" \in CanTypes /\ "LOST" \in CanTypes /\ "DAMAGED" \in CanTypes
  BY DEF EntryTypes, CanTypes
<1>1. ASSUME UNCHANGED <<trips, drops>>, scene' = scene, desk' = desk, DOMAIN entries \subseteq DOMAIN entries',
             files' \in [Customers -> FileRow], entries' \in Seq(EntryRow), cans' \in Seq(CanRow), yard' \in Int
      PROVE  FieldTyped' /\ FieldGrows
  <2>1. FileTables'
    BY <1>0, <1>1 DEF FileTables
  <2>2. FieldGrows
    BY <1>0, <1>1 DEF FieldGrows
  <2> QED
    BY <1>00, <1>1, <2>1, <2>2, FieldWrites
<1>2. ASSUME UNCHANGED fileVars, NEW k \in Desks, NEW frame, Starts(k, frame),
             desk'[k] = frame => FieldFrame(desk[k])'
      PROVE  FieldTyped' /\ FieldGrows
  <2>1. desk'[k] = frame /\ (\A m \in Desks : m # k => desk'[m] = desk[m]) /\ scene' = scene
    BY <1>0, <1>2, StartsDesk DEF Starts
  <2>2. FieldGrows
    BY <1>0, <1>2, <2>1 DEF FieldGrows, fileVars
  <2>3. FileTables'
    BY <1>0, <1>2 DEF FileTables, fileVars
  <2> QED
    BY <1>00, <1>2, <2>1, <2>2, <2>3, FieldWrites
<1>3. ASSUME UNCHANGED <<trips, drops>>, NEW k \in Desks, Ends(k), DOMAIN entries \subseteq DOMAIN entries',
             files' \in [Customers -> FileRow], entries' \in Seq(EntryRow), cans' \in Seq(CanRow), yard' \in Int
      PROVE  FieldTyped' /\ FieldGrows
  <2>1. desk'[k] = Idle /\ (\A m \in Desks : m # k => desk'[m] = desk[m]) /\ scene' = scene
    BY <1>0, <1>3, EndsDesk DEF Ends
  <2>2. Idle.op \notin FieldOps
    BY DEF Idle, FieldOps, FileOps, CashOps
  <2>3. FileTables'
    BY <1>0, <1>3 DEF FileTables
  <2>4. FieldGrows
    BY <1>0, <1>3, <2>1 DEF FieldGrows
  <2> QED
    BY <1>00, <2>1, <2>2, <2>3, <2>4, FieldWrites
<1>4. ASSUME NEW c \in scene.who, NEW opening \in scene.amounts, NEW holds \in scene.loads,
             NEW status \in {"ACTIVE", "INACTIVE"}, CreateCustomer(c, opening, holds, status)
      PROVE  FieldTyped' /\ FieldGrows
  <2>1. /\ files' = [files EXCEPT ![c].status = status, ![c].opening = opening]
        /\ entries' = entries \o Entry(c, "OPENING_BALANCE", opening)
        /\ cans' = cans \o Cans(c, "OPENING_WITH_CUSTOMER", holds)
        /\ yard' = yard - holds /\ UNCHANGED <<trips, drops>> /\ scene' = scene /\ desk' = desk
    BY <1>4 DEF CreateCustomer, requestVars
  <2>2. c \in Customers /\ opening \in Nat /\ holds \in Nat
    BY <1>000
  <2>3. files' \in [Customers -> FileRow]
    BY <1>0, <2>1, <2>2 DEF FileRow
  <2>4. entries' \in Seq(EntryRow) /\ DOMAIN entries \subseteq DOMAIN entries'
    BY <1>0, <1>0000, <2>1, <2>2, EntryKept, RowsKept
  <2>5. cans' \in Seq(CanRow)
    BY <1>0, <1>0000, <2>1, <2>2, CansKept, RowsKept
  <2>6. yard' \in Int
    BY <1>0, <2>1, <2>2
  <2> QED
    BY <1>1, <2>1, <2>3, <2>4, <2>5, <2>6
<1>5. FirstOpening(0) = FirstOpening(0) /\ \A c : FirstOpening(c) = NoEntry \/ FirstOpening(c) \in DOMAIN entries
  <2> SUFFICES ASSUME NEW c PROVE FirstOpening(c) = NoEntry \/ FirstOpening(c) \in DOMAIN entries
    OBVIOUS
  <2>1. DOMAIN entries = 1..Len(entries) /\ Len(entries) \in Nat /\ IsFiniteSet(DOMAIN entries)
    BY <1>0, SeqDomain
  <2>2. Openings(c) \in SUBSET (DOMAIN entries)
    BY DEF Openings, EntriesOf
  <2>3. CASE Openings(c) # {}
    <3>1. Min(Openings(c)) \in Openings(c)
      BY <2>1, <2>2, <2>3, MinIs, FS_Subset
    <3> QED
      BY <2>2, <2>3, <3>1 DEF FirstOpening
  <2> QED
    BY <2>3 DEF FirstOpening
<1>6. ASSUME NEW c \in scene.who, NEW k \in Desks, NEW put, Gives(put, FileColumns),
             NEW seen, seen = NoEntry \/ seen = FirstOpening(c),
             NEW frame, frame = [op |-> "customer", on |-> {Customer(c)}, who |-> c, put |-> put, seen |-> seen],
             Starts(k, frame), UNCHANGED fileVars
      PROVE  FieldTyped' /\ FieldGrows
  <2>1. /\ frame.op = "customer" /\ frame.on = {Customer(c)} /\ frame.who = c /\ frame.put = put
        /\ frame.seen = seen
    BY <1>6
  <2>2. seen = NoEntry \/ seen \in DOMAIN entries
    BY <1>5, <1>6
  <2>3. desk'[k] = frame => CustomerFrame(desk[k])'
    BY <1>000, <1>6, <2>1, <2>2 DEF CustomerFrame, fileVars, NoEntry, Customer, Gives, FileColumns
  <2>4. desk'[k] = frame => FieldFrame(desk[k])'
    BY <2>1, <2>3 DEF FieldFrame
  <2> QED
    BY <1>2, <1>6, <2>4
<1>7. ASSUME NEW c \in scene.who, NEW k \in Desks, NEW put \in scene.puts, BeginUpdateCustomer(k, c, put)
      PROVE  FieldTyped' /\ FieldGrows
  <2> DEFINE frame == [op |-> "customer", on |-> {Customer(c)}, who |-> c, put |-> put, seen |-> FirstOpening(c)]
  <2>1. Starts(k, frame) /\ UNCHANGED fileVars
    BY <1>7 DEF BeginUpdateCustomer
  <2> QED
    BY <1>000, <1>6, <2>1
<1>8. ASSUME NEW c \in scene.who, NEW k \in Desks, BeginDeactivate(k, c)
      PROVE  FieldTyped' /\ FieldGrows
  <2> DEFINE put == [status |-> "INACTIVE"]
             frame == [op |-> "customer", on |-> {Customer(c)}, who |-> c, put |-> put, seen |-> NoEntry]
  <2>1. Starts(k, frame) /\ UNCHANGED fileVars
    BY <1>8 DEF BeginDeactivate
  <2>2. Gives(put, FileColumns)
    BY DEF Gives, FileColumns
  <2> QED
    BY <1>6, <2>1, <2>2
<1>9. ASSUME NEW c \in scene.who, NEW delta \in scene.deltas, AdjustContainers(c, delta)
      PROVE  FieldTyped' /\ FieldGrows
  <2>1. /\ cans' = cans \o Cans(c, "ADJUSTMENT", delta) /\ yard' = yard - delta
        /\ UNCHANGED <<files, entries, trips, drops>> /\ scene' = scene /\ desk' = desk
    BY <1>9 DEF AdjustContainers, Touches
  <2>2. c \in Customers /\ delta \in Int
    BY <1>000
  <2>3. cans' \in Seq(CanRow) /\ yard' \in Int
    BY <1>0, <1>0000, <2>1, <2>2, CansKept, RowsKept
  <2> QED
    BY <1>0, <1>1, <2>1, <2>3
<1>10. ASSUME NEW c \in scene.who, NEW s \in scene.stops, HandOver(c, s)
       PROVE  FieldTyped' /\ FieldGrows
  <2> DEFINE mid == cans \o Cans(c, "DELIVERED_TO_CUSTOMER", s.out)
  <2>1. /\ cans' = mid \o Cans(c, "RETURNED_FROM_CUSTOMER", s.back)
        /\ yard' = yard - s.out + s.back
        /\ UNCHANGED <<files, entries, trips, drops>> /\ scene' = scene /\ desk' = desk
    BY <1>10 DEF HandOver, Touches
  <2>2. c \in Customers /\ s.out \in Nat /\ s.back \in Nat
    BY <1>000 DEF Stop
  <2>3. mid \in Seq(CanRow)
    BY <1>0, <1>0000, <2>2, CansKept, RowsKept
  <2>4. cans' \in Seq(CanRow) /\ yard' \in Int
    <3> HIDE DEF mid
    <3> QED
      BY <1>0, <1>0000, <2>1, <2>2, <2>3, CansKept, RowsKept
  <2> QED
    BY <1>0, <1>1, <2>1, <2>4
<1>11. ASSUME NEW c \in scene.who, NEW s \in scene.stops, NEW t \in DOMAIN trips, Deliver(t, c, s)
       PROVE  FieldTyped' /\ FieldGrows
  <2> DEFINE mid == cans \o Cans(c, "DELIVERED_TO_CUSTOMER", s.out)
             new == entries \o Entry(c, "DELIVERY_SALE", s.sale)
             row == [trip |-> t, who |-> c, out |-> s.out, back |-> s.back, sale |-> s.sale,
                     cash |-> s.cash, day |-> s.day, live |-> TRUE]
  <2>1. /\ cans' = mid \o Cans(c, "RETURNED_FROM_CUSTOMER", s.back)
        /\ entries' = new \o Entry(c, "PAYMENT", -s.cash)
        /\ drops' = Append(drops, row)
        /\ UNCHANGED <<files, trips, yard>> /\ scene' = scene /\ desk' = desk
    BY <1>11 DEF Deliver, Touches
  <2>2. /\ c \in Customers /\ s.out \in Nat /\ s.back \in Nat /\ s.sale \in Nat /\ s.cash \in Nat
        /\ s.day \in Days /\ t \in Nat
    BY <1>0, <1>000, SeqDomain DEF Stop
  <2>3. mid \in Seq(CanRow) /\ new \in Seq(EntryRow) /\ DOMAIN entries \subseteq DOMAIN new
    BY <1>0, <1>0000, <2>2, CansKept, EntryKept, RowsKept
  <2>4. cans' \in Seq(CanRow) /\ entries' \in Seq(EntryRow) /\ DOMAIN new \subseteq DOMAIN entries'
    <3>1. -s.cash \in Int
      BY <2>2
    <3>2. Cans(c, "RETURNED_FROM_CUSTOMER", s.back) \in Seq(CanRow)
      BY <1>0000, <2>2, CansKept
    <3>3. Entry(c, "PAYMENT", -s.cash) \in Seq(EntryRow)
      BY <1>0000, <2>2, <3>1, EntryKept
    <3> HIDE DEF mid, new
    <3>4. cans' \in Seq(CanRow)
      BY <2>1, <2>3, <3>2, RowsKept
    <3>5. entries' \in Seq(EntryRow) /\ DOMAIN new \subseteq DOMAIN entries'
      BY <2>1, <2>3, <3>3, RowsKept
    <3> QED
      BY <3>4, <3>5
  <2>5. row \in DropRow /\ row.trip = t
    BY <2>2 DEF DropRow
  <2>6. drops' \in Seq(DropRow) /\ \A d \in DOMAIN drops' : drops'[d].trip \in DOMAIN trips'
    <3> HIDE DEF row
    <3> QED
      BY <1>0, <2>1, <2>5, Appended
  <2>7. FileTables'
    BY <1>0, <2>1, <2>4, <2>6 DEF FileTables
  <2>8. FieldGrows
    BY <1>0, <2>1, <2>3, <2>4 DEF FieldGrows
  <2> QED
    BY <1>00, <2>1, <2>7, <2>8, FieldWrites
<1>12. ASSUME NEW type \in {"ADJUSTMENT", "LOST", "DAMAGED"}, NEW delta \in scene.deltas, AdjustOwned(type, delta)
       PROVE  FieldTyped' /\ FieldGrows
  <2> DEFINE row == Cans(Nobody, type, delta)
  <2>1. /\ cans' = cans \o row /\ yard' = yard + InFleet(row[1]) /\ delta # 0
        /\ UNCHANGED <<files, entries, trips, drops>> /\ scene' = scene /\ desk' = desk
    BY <1>12 DEF AdjustOwned, requestVars
  <2>2. delta \in Int
    BY <1>000
  <2>3. cans' \in Seq(CanRow)
    BY <1>0, <1>0000, <2>1, <2>2, CansKept, RowsKept
  <2>4. row[1].qty = delta
    BY <2>1 DEF Cans
  <2>5. InFleet(row[1]) \in Int
    <3> HIDE DEF row
    <3> QED
      BY <2>2, <2>4 DEF InFleet
  <2>6. yard' \in Int
    <3> HIDE DEF row
    <3> QED
      BY <1>0, <2>1, <2>5
  <2> QED
    BY <1>0, <1>1, <2>1, <2>3, <2>6
<1>13. ASSUME NEW k \in Desks, NEW qty \in scene.loads, BeginSetOpening(k, qty)
       PROVE  FieldTyped' /\ FieldGrows
  <2> DEFINE frame == [op |-> "fleet", on |-> {<<"fleet", "opening">>}, qty |-> qty]
  <2>1. Starts(k, frame) /\ UNCHANGED fileVars
    BY <1>13 DEF BeginSetOpening
  <2>2. frame.op = "fleet" /\ frame.on = {<<"fleet", "opening">>} /\ frame.qty = qty /\ qty \in Nat
    BY <1>000
  <2> HIDE DEF frame
  <2>3. desk'[k] = frame => FieldFrame(desk[k])'
    BY <2>2 DEF FieldFrame, FleetFrame
  <2> QED
    BY <1>2, <2>1, <2>3
<1>14. ASSUME NEW k \in Desks, CommitUpdateCustomer(k) PROVE FieldTyped' /\ FieldGrows
  <2> DEFINE f == desk[k]
             c == f.who
             new == Patched(files[c], f.put)
  <2>1. CustomerFrame(f) /\ Ends(k) /\ UNCHANGED <<cans, trips, drops, yard>>
    BY <1>0, <1>14 DEF CommitUpdateCustomer, Holds, FieldFrame
  <2>2. /\ c \in Customers /\ Gives(f.put, FileColumns) /\ files[c] \in FileRow
        /\ f.seen = NoEntry \/ f.seen \in DOMAIN entries
    BY <1>0, <2>1 DEF CustomerFrame
  <2>3. new \in FileRow /\ ("opening" \in DOMAIN f.put => f.put.opening \in Nat)
    BY <2>2, PatchedFile
  <2>4. files' \in {files, [files EXCEPT ![c] = new]}
    BY <1>14 DEF CommitUpdateCustomer
  <2>5. files' \in [Customers -> FileRow]
    BY <1>0, <2>2, <2>3, <2>4
  <2>6. entries' \in Seq(EntryRow) /\ DOMAIN entries \subseteq DOMAIN entries'
    <3>1. CASE entries' = entries
      BY <1>0, <3>1
    <3>2. CASE SetOpeningEntry(c, f.seen, f.put.opening) /\ "opening" \in DOMAIN f.put
      <4> DEFINE opening == f.put.opening
      <4>1. opening \in Nat
        BY <2>3, <3>2
      <4>2. CASE f.seen = NoEntry
        <5>1. entries' = entries \o Entry(c, "OPENING_BALANCE", opening)
          BY <3>2, <4>2 DEF SetOpeningEntry
        <5> HIDE DEF f
        <5> QED
          BY <1>0, <1>0000, <2>2, <4>1, <5>1, EntryKept, RowsKept
      <4>3. CASE f.seen # NoEntry
        <5> DEFINE old == entries[f.seen]
                   row == IF opening = 0 THEN [old EXCEPT !.type = "deleted"] ELSE [old EXCEPT !.amount = opening]
        <5>1. entries' = [entries EXCEPT ![f.seen] = row]
          BY <3>2, <4>3 DEF SetOpeningEntry
        <5>2. old \in EntryRow /\ f.seen \in DOMAIN entries
          BY <1>0, <2>2, <4>3, SeqDomain
        <5>3. row \in EntryRow
          <6> HIDE DEF old, opening
          <6> QED
            BY <1>0000, <4>1, <5>2 DEF EntryRow
        <5> HIDE DEF row, f
        <5> QED
          BY <1>0, <5>1, <5>2, <5>3, PutRow
      <4> QED
        BY <4>2, <4>3
    <3> QED
      BY <1>14, <3>1, <3>2 DEF CommitUpdateCustomer
  <2> HIDE DEF f, c, new
  <2> QED
    BY <1>0, <1>3, <2>1, <2>5, <2>6
<1>15. ASSUME NEW k \in Desks, CommitSetOpening(k) PROVE FieldTyped' /\ FieldGrows
  <2>1. /\ FleetFrame(desk[k]) /\ Ends(k) /\ UNCHANGED <<files, entries, trips, drops>>
        /\ cans' = cans \o Cans(Nobody, "OPENING_ON_HAND", desk[k].qty) /\ yard' = yard + desk[k].qty
    BY <1>0, <1>15 DEF CommitSetOpening, Holds, FieldFrame
  <2>2. desk[k].qty \in Nat
    BY <2>1 DEF FleetFrame
  <2>3. cans' \in Seq(CanRow)
    <3>1. Cans(Nobody, "OPENING_ON_HAND", desk[k].qty) \in Seq(CanRow)
      <4>1. desk[k].qty \in Int /\ Nobody \in Customers \cup {Nobody}
        BY <2>2
      <4> QED
        BY <1>0000, <4>1, CansKept
    <3> QED
      BY <1>0, <2>1, <3>1, RowsKept
  <2>4. yard' \in Int
    BY <1>0, <2>1, <2>2
  <2> QED
    BY <1>0, <1>3, <2>1, <2>3, <2>4
<1>16. ASSUME UNCHANGED <<files, entries, cans>>, scene' = scene, desk' = desk, yard' \in Int,
              trips' \in Seq(TripRow), DOMAIN trips \subseteq DOMAIN trips', drops' = drops
       PROVE  FieldTyped' /\ FieldGrows
  <2>1. FileTables'
    BY <1>0, <1>16 DEF FileTables
  <2>2. FieldGrows
    BY <1>0, <1>16 DEF FieldGrows
  <2> QED
    BY <1>00, <1>16, <2>1, <2>2, FieldWrites
<1>17. ASSUME NEW r \in Riders, NEW filled \in scene.loads, NEW empty \in scene.loads, OpenTrip(r, filled, empty)
       PROVE  FieldTyped' /\ FieldGrows
  <2> DEFINE row == [rider |-> r, open |-> TRUE, filled |-> filled, empty |-> empty, counted |-> 0]
  <2>1. /\ trips' = Append(trips, row) /\ yard' = yard - filled - empty
        /\ UNCHANGED <<files, entries, cans, drops>> /\ scene' = scene /\ desk' = desk
    BY <1>17 DEF OpenTrip, requestVars
  <2>2. filled \in Nat /\ empty \in Nat
    BY <1>000
  <2>3. row \in TripRow
    BY <2>2 DEF TripRow
  <2>4. trips' \in Seq(TripRow) /\ DOMAIN trips \subseteq DOMAIN trips' /\ yard' \in Int
    <3> HIDE DEF row
    <3> QED
      BY <1>0, <2>1, <2>2, <2>3, Appended
  <2> QED
    BY <1>16, <2>1, <2>4
<1>18. ASSUME NEW t \in DOMAIN trips, NEW filled \in scene.loads, NEW empty \in scene.loads,
              ReloadTrip(t, filled, empty)
       PROVE  FieldTyped' /\ FieldGrows
  <2> DEFINE row == [trips[t] EXCEPT !.filled = filled, !.empty = empty]
  <2>1. /\ trips' = [trips EXCEPT ![t].filled = filled, ![t].empty = empty]
        /\ yard' = yard + (trips[t].filled + trips[t].empty) - (filled + empty)
        /\ UNCHANGED <<files, entries, cans, drops>> /\ scene' = scene /\ desk' = desk
    BY <1>18 DEF ReloadTrip, requestVars
  <2>2. filled \in Nat /\ empty \in Nat /\ trips[t] \in TripRow
    BY <1>0, <1>000
  <2>3. row \in TripRow /\ trips[t].filled \in Nat /\ trips[t].empty \in Nat
    BY <2>2 DEF TripRow
  <2>4. trips' = [trips EXCEPT ![t] = row]
    BY <2>1, Zenon
  <2>5. trips' \in Seq(TripRow) /\ DOMAIN trips' = DOMAIN trips
    <3> HIDE DEF row
    <3> QED
      BY <1>0, <2>3, <2>4, PutRow
  <2>6. yard' \in Int
    BY <1>0, <2>1, <2>2, <2>3
  <2> QED
    BY <1>16, <2>1, <2>5, <2>6
<1>19. ASSUME NEW d \in DOMAIN drops, CancelDrop(d) PROVE FieldTyped' /\ FieldGrows
  <2> DEFINE s == drops[d]
             mid == cans \o Cans(s.who, "ADJUSTMENT", -s.out)
             new == entries \o Entry(s.who, "ADJUSTMENT", -s.sale)
             row == [s EXCEPT !.live = FALSE]
  <2>1. /\ cans' = mid \o Cans(s.who, "ADJUSTMENT", -s.back)
        /\ entries' = new \o Entry(s.who, "ADJUSTMENT", s.cash)
        /\ drops' = [drops EXCEPT ![d] = row]
        /\ UNCHANGED <<files, trips, yard>> /\ scene' = scene /\ desk' = desk
    BY <1>19 DEF CancelDrop, Touches
  <2>2. /\ s \in DropRow /\ s.who \in Customers /\ s.cash \in Nat
        /\ -s.out \in Int /\ -s.back \in Int /\ -s.sale \in Int
    <3>1. s \in DropRow
      BY <1>0
    <3>2. s.who \in Customers /\ s.out \in Nat /\ s.back \in Nat /\ s.sale \in Nat /\ s.cash \in Nat
      BY <3>1 DEF DropRow
    <3> HIDE DEF s
    <3> QED
      BY <3>1, <3>2
  <2>3. mid \in Seq(CanRow) /\ new \in Seq(EntryRow) /\ DOMAIN entries \subseteq DOMAIN new
    <3> HIDE DEF s
    <3> QED
      BY <1>0, <1>0000, <2>2, CansKept, EntryKept, RowsKept
  <2>4. cans' \in Seq(CanRow) /\ entries' \in Seq(EntryRow) /\ DOMAIN new \subseteq DOMAIN entries'
    <3> HIDE DEF mid, new, s
    <3>1. Cans(s.who, "ADJUSTMENT", -s.back) \in Seq(CanRow)
      BY <1>0000, <2>2, CansKept
    <3>2. Entry(s.who, "ADJUSTMENT", s.cash) \in Seq(EntryRow)
      BY <1>0000, <2>2, EntryKept
    <3> QED
      BY <2>1, <2>3, <3>1, <3>2, RowsKept
  <2>5. row \in DropRow /\ row.trip = s.trip
    <3> HIDE DEF s
    <3> QED
      BY <2>2 DEF DropRow
  <2>6. drops' \in Seq(DropRow) /\ \A n \in DOMAIN drops' : drops'[n].trip \in DOMAIN trips'
    <3> HIDE DEF row
    <3>1. /\ drops' \in Seq(DropRow) /\ DOMAIN drops' = DOMAIN drops
          /\ \A n \in DOMAIN drops : drops'[n] = IF n = d THEN row ELSE drops[n]
      BY <1>0, <2>1, <2>5, PutRow
    <3> QED
      BY <1>0, <2>1, <2>5, <3>1
  <2>7. FileTables'
    BY <1>0, <2>1, <2>4, <2>6 DEF FileTables
  <2>8. FieldGrows
    BY <1>0, <2>1, <2>3, <2>4 DEF FieldGrows
  <2> QED
    BY <1>00, <2>1, <2>7, <2>8, FieldWrites
<1>20. ASSUME NEW t \in DOMAIN trips, NEW counted \in scene.loads, CloseTrip(t, counted)
       PROVE  FieldTyped' /\ FieldGrows
  <2> DEFINE row == [trips[t] EXCEPT !.open = FALSE, !.counted = counted]
  <2>1. /\ trips' = [trips EXCEPT ![t].open = FALSE, ![t].counted = counted]
        /\ yard' = yard + counted
        /\ UNCHANGED <<files, entries, cans, drops>> /\ scene' = scene /\ desk' = desk
    BY <1>20 DEF CloseTrip, requestVars
  <2>2. counted \in Nat /\ trips[t] \in TripRow
    BY <1>0, <1>000
  <2>3. row \in TripRow
    BY <2>2 DEF TripRow
  <2>4. trips' = [trips EXCEPT ![t] = row]
    BY <2>1, Zenon
  <2>5. trips' \in Seq(TripRow) /\ DOMAIN trips' = DOMAIN trips
    <3> HIDE DEF row
    <3> QED
      BY <1>0, <2>3, <2>4, PutRow
  <2>6. yard' \in Int
    BY <1>0, <2>1, <2>2, <2>3
  <2> QED
    BY <1>16, <2>1, <2>5, <2>6
<1> QED
  BY <1>4, <1>7, <1>8, <1>9, <1>10, <1>11, <1>12, <1>13, <1>14, <1>15, <1>17, <1>18, <1>19, <1>20 DEF FileStep

(* What the rows of the cash become.                                       *)
LEMMA CashStepTyped ==
    ASSUME Orderly, FieldTyped, CashStep
    PROVE  FieldTyped' /\ FieldGrows
<1>0. /\ scene \in Scenes /\ Exclusive /\ FileTables /\ \A k \in Desks : FieldFrame(desk[k])
      /\ files \in [Customers -> FileRow] /\ entries \in Seq(EntryRow)
      /\ handovers \in Seq(HandoverRow) /\ expenses \in Seq(ExpenseRow)
      /\ receipts \in Seq(ReceiptRow) /\ visits \in Seq(VisitRow)
      /\ \A h \in DOMAIN handovers : handovers[h] \in HandoverRow
      /\ \A x \in DOMAIN expenses : expenses[x] \in ExpenseRow
      /\ \A p \in DOMAIN receipts : receipts[p] \in ReceiptRow
      /\ \A v \in DOMAIN visits : visits[v] \in VisitRow
  BY SeqDomain DEF FieldTyped, FileTables, CashTables, Orderly, Exclusive
<1>00. /\ scene.who \subseteq Customers /\ scene.amounts \subseteq Nat /\ scene.days \subseteq Days
       /\ \A put \in scene.edits : Gives(put, Columns(scene))
  BY <1>0, FieldInputs
<1>1. ASSUME UNCHANGED fileVars, scene' = scene, CashTables', DOMAIN handovers \subseteq DOMAIN handovers',
             DOMAIN expenses \subseteq DOMAIN expenses',
             \A m \in Desks : desk'[m] = desk[m] \/ desk'[m].op \notin FieldOps \/ FieldFrame(desk[m])'
      PROVE  FieldTyped' /\ FieldGrows
  <2>1. FieldGrows /\ FileTables'
    BY <1>0, <1>1 DEF FieldGrows, FileTables, fileVars
  <2> QED
    BY <1>1, <2>1, FieldWrites
<1>2. ASSUME UNCHANGED <<fileVars, cashVars>>, NEW k \in Desks, NEW frame, Starts(k, frame),
             desk'[k] = frame => FieldFrame(desk[k])'
      PROVE  FieldTyped' /\ FieldGrows
  <2>1. desk'[k] = frame /\ (\A m \in Desks : m # k => desk'[m] = desk[m]) /\ scene' = scene
    BY <1>0, <1>2, StartsDesk DEF Starts
  <2>2. CashTables' /\ handovers' = handovers /\ expenses' = expenses
    BY <1>0, <1>2 DEF CashTables, cashVars
  <2> QED
    BY <1>1, <1>2, <2>1, <2>2
<1>3. ASSUME UNCHANGED fileVars, CashTables', DOMAIN handovers \subseteq DOMAIN handovers',
             DOMAIN expenses \subseteq DOMAIN expenses',
             NEW k \in Desks, Ends(k) \/ \E rows : EndsTouching(k, rows)
      PROVE  FieldTyped' /\ FieldGrows
  <2>1. desk'[k] = Idle /\ (\A m \in Desks : m # k => desk'[m] = desk[m]) /\ scene' = scene
    BY <1>0, <1>3, EndsDesk DEF Ends, EndsTouching
  <2>2. Idle.op \notin FieldOps
    BY DEF Idle, FieldOps, FileOps, CashOps
  <2> QED
    BY <1>1, <1>3, <2>1, <2>2
<1>4. ASSUME NEW k \in Desks, NEW r \in Riders, NEW amount \in scene.amounts, NEW day \in scene.days,
             BeginCreateHandover(k, r, amount, day)
      PROVE  FieldTyped' /\ FieldGrows
  <2> DEFINE row == [rider |-> r, amount |-> amount, day |-> day, live |-> TRUE]
             frame == [op |-> "newHandover", on |-> {Rider(r)}, row |-> row]
  <2>1. Starts(k, frame) /\ UNCHANGED <<fileVars, cashVars>>
    BY <1>4 DEF BeginCreateHandover
  <2>2. row \in HandoverRow /\ row.live /\ row.rider = r
    BY <1>00 DEF HandoverRow
  <2>3. frame.op = "newHandover" /\ frame.on = {Rider(r)} /\ frame.row = row
    OBVIOUS
  <2> HIDE DEF frame, row
  <2>4. desk'[k] = frame => NewHandoverFrame(desk[k])'
    BY <2>2, <2>3 DEF NewHandoverFrame, HandoverRow, Rider
  <2>5. desk'[k] = frame => FieldFrame(desk[k])'
    BY <2>3, <2>4 DEF FieldFrame
  <2> QED
    BY <1>2, <2>1, <2>5
<1>5. ASSUME NEW k \in Desks, NEW c \in scene.who, NEW r \in Riders, NEW amount \in scene.amounts,
             NEW day \in scene.days, NEW outcome \in {"COLLECTED", "PROMISED", "NO_CONTACT"},
             BeginVisit(k, c, r, outcome, amount, day)
      PROVE  FieldTyped' /\ FieldGrows
  <2> DEFINE row == [who |-> c, collector |-> r, outcome |-> outcome,
                     amount |-> amount, receipt |-> 0, day |-> day]
             frame == [op |-> "visit", on |-> {Customer(c)}, at |-> "pay", row |-> row]
  <2>1. Starts(k, frame) /\ UNCHANGED <<fileVars, cashVars>>
    BY <1>5 DEF BeginVisit
  <2>2. row \in VisitRow /\ row.who = c
    BY <1>00 DEF VisitRow
  <2>3. frame.op = "visit" /\ frame.on = {Customer(c)} /\ frame.row = row /\ frame.at = "pay"
        /\ DOMAIN frame = {"op", "on", "at", "row"}
    OBVIOUS
  <2> HIDE DEF frame, row
  <2>4. desk'[k] = frame => VisitFrame(desk[k])'
    BY <2>2, <2>3 DEF VisitFrame, VisitRow, Customer
  <2>5. desk'[k] = frame => FieldFrame(desk[k])'
    BY <2>3, <2>4 DEF FieldFrame
  <2> QED
    BY <1>2, <2>1, <2>5
<1>6. ASSUME NEW k \in Desks, NEW h \in DOMAIN handovers, NEW put \in scene.edits, BeginUpdateHandover(k, h, put)
      PROVE  FieldTyped' /\ FieldGrows
  <2> DEFINE old == handovers[h]
             new == Patched(old, put)
             frame == [op |-> "handover", on |-> {Handover(h), Rider(old.rider), Rider(new.rider)},
                       id |-> h, put |-> put, rider |-> new.rider]
  <2>1. Starts(k, frame) /\ UNCHANGED <<fileVars, cashVars>> /\ Does("handover")
    BY <1>6 DEF BeginUpdateHandover
  <2>2. new.rider \in Riders
    <3>1. old \in HandoverRow /\ Gives(put, Columns(scene)) /\ old.rider \in Riders
      BY <1>0, <1>00 DEF HandoverRow
    <3>2. DOMAIN old = {"rider", "amount", "day", "live"}
      BY <3>1 DEF HandoverRow
    <3>3. "rider" \in DOMAIN put => put.rider \in Riders
      BY <3>1 DEF Gives, Columns
    <3> HIDE DEF old
    <3> QED
      BY <3>1, <3>2, <3>3 DEF Patched
  <2>3. frame.op = "handover" /\ frame.id = h /\ frame.put = put /\ frame.rider = new.rider
        /\ Handover(h) \in frame.on /\ Rider(new.rider) \in frame.on
    <3> HIDE DEF old, new
    <3> QED
      OBVIOUS
  <2> HIDE DEF frame, old, new
  <2>4. desk'[k] = frame => HandoverFrame(desk[k])'
    BY <2>1, <2>2, <2>3 DEF HandoverFrame, Rider, Handover, Does, Starts, cashVars
  <2>5. desk'[k] = frame => FieldFrame(desk[k])'
    BY <2>3, <2>4 DEF FieldFrame
  <2> QED
    BY <1>2, <2>1, <2>5
<1>7. ASSUME NEW k \in Desks, NEW x \in DOMAIN expenses, NEW put \in scene.edits, BeginUpdateExpense(k, x, put)
      PROVE  FieldTyped' /\ FieldGrows
  <2> DEFINE old == expenses[x]
             new == Patched(old, put)
             frame == [op |-> "expense", id |-> x, put |-> put,
                       on |-> {Expense(x), Rider(old.staff), Rider(new.staff)}]
  <2>1. Starts(k, frame) /\ UNCHANGED <<fileVars, cashVars>> /\ Does("expense")
    BY <1>7 DEF BeginUpdateExpense
  <2>2. "staff" \in DOMAIN put => new.staff = put.staff
    <3>1. old \in ExpenseRow /\ Gives(put, Columns(scene))
      BY <1>0, <1>00
    <3>2. "staff" \in DOMAIN old
      BY <3>1 DEF ExpenseRow
    <3> HIDE DEF old
    <3> QED
      BY <3>2 DEF Patched
  <2>3. frame.op = "expense" /\ frame.id = x /\ frame.put = put
        /\ Expense(x) \in frame.on /\ Rider(new.staff) \in frame.on
    <3> HIDE DEF old, new
    <3> QED
      OBVIOUS
  <2> HIDE DEF frame, old, new
  <2>4. desk'[k] = frame => ExpenseFrame(desk[k])'
    BY <2>1, <2>2, <2>3 DEF ExpenseFrame, Rider, Expense, Does, Starts, cashVars
  <2>5. desk'[k] = frame => FieldFrame(desk[k])'
    BY <2>3, <2>4 DEF FieldFrame
  <2> QED
    BY <1>2, <2>1, <2>5
<1>8. ASSUME NEW staff \in Riders \cup {Nobody}, NEW byRider \in BOOLEAN, NEW amount \in scene.amounts,
             NEW day \in scene.days, CreateExpense(staff, byRider, amount, day)
      PROVE  FieldTyped' /\ FieldGrows
  <2> DEFINE row == [staff |-> staff, byRider |-> byRider, amount |-> amount, day |-> day, live |-> TRUE]
  <2>1. /\ expenses' = Append(expenses, row) /\ UNCHANGED <<fileVars, handovers, receipts, visits>>
        /\ scene' = scene /\ desk' = desk
    BY <1>8 DEF CreateExpense, Touches
  <2>2. row \in ExpenseRow
    BY <1>00 DEF ExpenseRow
  <2>3. expenses' \in Seq(ExpenseRow) /\ DOMAIN expenses \subseteq DOMAIN expenses'
    <3> HIDE DEF row
    <3> QED
      BY <1>0, <2>1, <2>2, Appended
  <2>4. CashTables'
    BY <1>0, <2>1, <2>3 DEF CashTables
  <2> QED
    BY <1>1, <2>1, <2>3, <2>4
<1>9. ASSUME NEW k \in Desks, CommitCreateHandover(k) PROVE FieldTyped' /\ FieldGrows
  <2>1. /\ NewHandoverFrame(desk[k]) /\ handovers' = Append(handovers, desk[k].row) /\ Ends(k)
        /\ UNCHANGED <<fileVars, expenses, receipts, visits>>
    BY <1>0, <1>9 DEF CommitCreateHandover, Holds, FieldFrame
  <2>2. desk[k].row \in HandoverRow
    BY <2>1 DEF NewHandoverFrame
  <2>3. handovers' \in Seq(HandoverRow) /\ DOMAIN handovers \subseteq DOMAIN handovers'
    BY <1>0, <2>1, <2>2, Appended
  <2>4. CashTables'
    BY <1>0, <2>1, <2>3 DEF CashTables
  <2> QED
    BY <1>3, <2>1, <2>3, <2>4
<1>10. ASSUME NEW k \in Desks, CommitUpdateHandover(k) PROVE FieldTyped' /\ FieldGrows
  <2> DEFINE f == desk[k]
             new == [Patched(handovers[f.id], f.put) EXCEPT !.rider = f.rider]
  <2>1. /\ HandoverFrame(f) /\ Ends(k) /\ UNCHANGED <<fileVars, expenses, receipts, visits>>
    BY <1>0, <1>10 DEF CommitUpdateHandover, Holds, FieldFrame
  <2>2. f.id \in DOMAIN handovers /\ handovers[f.id] \in HandoverRow /\ Gives(f.put, Columns(scene)) /\ f.rider \in Riders
    BY <1>0, <1>00, <2>1 DEF HandoverFrame
  <2>3. new \in HandoverRow
    <3> HIDE DEF f
    <3> QED
      BY <2>2, PatchedHandover
  <2>4. handovers' \in {handovers, [handovers EXCEPT ![f.id] = new]}
    BY <1>10 DEF CommitUpdateHandover
  <2>5. handovers' \in Seq(HandoverRow) /\ DOMAIN handovers' = DOMAIN handovers
    <3> HIDE DEF f, new
    <3> QED
      BY <1>0, <2>2, <2>3, <2>4, PutRow
  <2>6. CashTables'
    BY <1>0, <2>1, <2>5 DEF CashTables
  <2> HIDE DEF f, new
  <2> QED
    BY <1>3, <2>1, <2>5, <2>6
<1>11. ASSUME NEW k \in Desks, CommitUpdateExpense(k) PROVE FieldTyped' /\ FieldGrows
  <2> DEFINE f == desk[k]
             new == Patched(expenses[f.id], f.put)
  <2>1. /\ ExpenseFrame(f) /\ EndsTouching(k, {Rider(expenses[f.id].staff)})
        /\ UNCHANGED <<fileVars, handovers, receipts, visits>>
    BY <1>0, <1>11 DEF CommitUpdateExpense, Holds, FieldFrame
  <2>2. f.id \in DOMAIN expenses /\ expenses[f.id] \in ExpenseRow /\ Gives(f.put, Columns(scene))
    BY <1>0, <1>00, <2>1 DEF ExpenseFrame
  <2>3. new \in ExpenseRow
    <3> DEFINE old == expenses[f.id]
               put == f.put
    <3>1. old \in ExpenseRow /\ Gives(put, Columns(scene))
      BY <2>2
    <3>2. new = Patched(old, put)
      OBVIOUS
    <3> HIDE DEF old, put, f, new
    <3> QED
      BY <3>1, <3>2, PatchedExpense
  <2>4. expenses' \in {expenses, [expenses EXCEPT ![f.id] = new]}
    BY <1>11 DEF CommitUpdateExpense
  <2>5. expenses' \in Seq(ExpenseRow) /\ DOMAIN expenses' = DOMAIN expenses
    <3> HIDE DEF f, new
    <3> QED
      BY <1>0, <2>2, <2>3, <2>4, PutRow
  <2>6. CashTables'
    BY <1>0, <2>1, <2>5 DEF CashTables
  <2> HIDE DEF f, new
  <2> QED
    BY <1>3, <2>1, <2>5, <2>6
<1>12. ASSUME NEW h \in DOMAIN handovers, RemoveHandover(h) PROVE FieldTyped' /\ FieldGrows
  <2> DEFINE row == [handovers[h] EXCEPT !.live = FALSE]
  <2>1. /\ handovers' = [handovers EXCEPT ![h] = row] /\ UNCHANGED <<fileVars, expenses, receipts, visits>>
        /\ scene' = scene /\ desk' = desk
    BY <1>12 DEF RemoveHandover, Without, Touches
  <2>2. row \in HandoverRow
    BY <1>0 DEF HandoverRow
  <2>3. handovers' \in Seq(HandoverRow) /\ DOMAIN handovers' = DOMAIN handovers
    <3> HIDE DEF row
    <3> QED
      BY <1>0, <2>1, <2>2, PutRow
  <2>4. CashTables'
    BY <1>0, <2>1, <2>3 DEF CashTables
  <2> QED
    BY <1>1, <2>1, <2>3, <2>4
<1>13. ASSUME NEW x \in DOMAIN expenses, RemoveExpense(x) PROVE FieldTyped' /\ FieldGrows
  <2> DEFINE row == [expenses[x] EXCEPT !.live = FALSE]
  <2>1. /\ expenses' = [expenses EXCEPT ![x] = row] /\ UNCHANGED <<fileVars, handovers, receipts, visits>>
        /\ scene' = scene /\ desk' = desk
    BY <1>13 DEF RemoveExpense, Without, Touches
  <2>2. row \in ExpenseRow
    BY <1>0 DEF ExpenseRow
  <2>3. expenses' \in Seq(ExpenseRow) /\ DOMAIN expenses' = DOMAIN expenses
    <3> HIDE DEF row
    <3> QED
      BY <1>0, <2>1, <2>2, PutRow
  <2>4. CashTables'
    BY <1>0, <2>1, <2>3 DEF CashTables
  <2> QED
    BY <1>1, <2>1, <2>3, <2>4
<1>14. /\ "OPENING_BALANCE" \in EntryTypes /\ "PAYMENT" \in EntryTypes /\ "ADJUSTMENT" \in EntryTypes
  BY DEF EntryTypes
<1>15. ASSUME files' \in [Customers -> FileRow], entries' \in Seq(EntryRow), DOMAIN entries \subseteq DOMAIN entries',
              UNCHANGED <<cans, trips, drops, yard, handovers, expenses>>, scene' = scene,
              receipts' \in Seq(ReceiptRow), visits' \in Seq(VisitRow),
              \A m \in Desks : desk'[m] = desk[m] \/ FieldFrame(desk[m])'
       PROVE  FieldTyped' /\ FieldGrows
  <2>1. FieldGrows
    BY <1>15 DEF FieldGrows
  <2>2. FileTables' /\ CashTables'
    BY <1>0, <1>15 DEF FileTables, CashTables
  <2> QED
    BY <1>15, <2>1, <2>2, FieldWrites
<1>16. ASSUME NEW k \in Desks, VisitPays(k) PROVE FieldTyped' /\ FieldGrows
  <2> DEFINE row == desk[k].row
             paid == IF row.amount > 0 THEN Len(receipts) + 1 ELSE 0
             frame == [desk[k] EXCEPT !.at = "promise", !.row = [row EXCEPT !.receipt = paid]]
             receipt == [who |-> row.who, amount |-> row.amount, live |-> TRUE]
  <2>1. /\ VisitFrame(desk[k]) /\ desk' = [desk EXCEPT ![k] = frame] /\ desk[k].op = "visit"
        /\ scene' = scene /\ crossed' = crossed
        /\ UNCHANGED <<cans, trips, drops, yard, handovers, expenses, visits>>
    <3>1. desk' = [desk EXCEPT ![k].at = "promise", ![k].row.receipt = paid]
      BY <1>16 DEF VisitPays
    <3>2. desk' = [desk EXCEPT ![k] = frame]
      BY <3>1, Zenon
    <3> HIDE DEF frame
    <3> QED
      BY <1>0, <1>16, <3>2 DEF VisitPays, Holds, FieldFrame
  <2>2. /\ row \in VisitRow /\ row.who \in Customers /\ row.amount \in Nat
        /\ desk[k].on = {Customer(row.who)}
    BY <2>1 DEF VisitFrame, VisitRow
  <2>3. /\ frame.op = "visit" /\ frame.on = {Customer(row.who)} /\ frame.at = "promise"
        /\ frame.row = [row EXCEPT !.receipt = paid] /\ paid \in Nat
        /\ DOMAIN frame = {"op", "on", "at", "row"}
    <3>1. Len(receipts) \in Nat
      BY <1>0
    <3>2. DOMAIN desk[k] = {"op", "on", "at", "row"}
      BY <2>1 DEF VisitFrame
    <3>3. paid \in Nat
      BY <3>1
    <3> HIDE DEF paid
    <3>4. frame.at = "promise" /\ frame.op = desk[k].op /\ frame.on = desk[k].on /\ DOMAIN frame = DOMAIN desk[k]
      BY <3>2
    <3>5. frame.row = [row EXCEPT !.receipt = paid]
      BY <3>2
    <3> HIDE DEF frame, row
    <3> QED
      BY <2>1, <2>2, <3>2, <3>3, <3>4, <3>5
  <2>4. frame.row \in VisitRow /\ frame.row.who = row.who
    <3> HIDE DEF row, paid, frame
    <3> QED
      BY <2>2, <2>3 DEF VisitRow
  <2>5. desk'[k] = frame /\ \A m \in Desks : m # k => desk'[m] = desk[m]
    <3>1. frame.on \subseteq desk[k].on
      BY <2>2, <2>3
    <3> HIDE DEF frame
    <3> QED
      BY <1>0, <2>1, <3>1, FrameDesk
  <2>6. FieldFrame(desk[k])'
    <3> HIDE DEF frame, row, paid
    <3>1. VisitFrame(desk[k])'
      BY <2>3, <2>4, <2>5 DEF VisitFrame, VisitRow, Customer
    <3> QED
      BY <2>3, <2>5, <3>1 DEF FieldFrame
  <2>7. CASE row.amount = 0
    <3>1. UNCHANGED <<files, entries, receipts>>
      BY <1>16, <2>7 DEF VisitPays
    <3> HIDE DEF row, frame
    <3> QED
      BY <1>0, <1>15, <2>1, <2>5, <2>6, <3>1
  <2>8. CASE row.amount # 0
    <3>1. /\ receipts' = Append(receipts, receipt)
          /\ entries' = entries \o Entry(row.who, "PAYMENT", -row.amount)
          /\ \E kept \in BOOLEAN : files' = [files EXCEPT ![row.who].promised = @ /\ kept]
      BY <1>16, <2>8 DEF VisitPays
    <3>2. files' \in [Customers -> FileRow]
      <4>1. PICK kept \in BOOLEAN : files' = [files EXCEPT ![row.who].promised = @ /\ kept]
        BY <3>1
      <4> DEFINE new == [files[row.who] EXCEPT !.promised = @ /\ kept]
      <4>2. files' = [files EXCEPT ![row.who] = new]
        BY <4>1, Zenon
      <4>3. files[row.who] \in FileRow
        BY <1>0, <2>2
      <4>4. new \in FileRow
        <5> HIDE DEF row
        <5> QED
          BY <4>3 DEF FileRow
      <4> HIDE DEF new
      <4> QED
        BY <1>0, <2>2, <4>2, <4>4
    <3>3. entries' \in Seq(EntryRow) /\ DOMAIN entries \subseteq DOMAIN entries'
      <4> HIDE DEF row
      <4>1. -row.amount \in Int
        BY <2>2
      <4>2. Entry(row.who, "PAYMENT", -row.amount) \in Seq(EntryRow)
        BY <1>14, <2>2, <4>1, EntryKept
      <4> QED
        BY <1>0, <3>1, <4>2, RowsKept
    <3>4. receipts' \in Seq(ReceiptRow)
      <4>1. receipt \in ReceiptRow
        BY <2>2 DEF ReceiptRow
      <4> HIDE DEF receipt
      <4> QED
        BY <1>0, <3>1, <4>1, Appended
    <3>5. visits' \in Seq(VisitRow)
      BY <1>0, <2>1
    <3> HIDE DEF row, frame, receipt
    <3> QED
      BY <1>15, <2>1, <2>5, <2>6, <3>2, <3>3, <3>4, <3>5
  <2> QED
    BY <2>7, <2>8
<1>17. ASSUME NEW k \in Desks, VisitPromises(k) PROVE FieldTyped' /\ FieldGrows
  <2> DEFINE frame == [desk[k] EXCEPT !.at = "record"]
  <2>1. /\ VisitFrame(desk[k]) /\ desk' = [desk EXCEPT ![k] = frame] /\ desk[k].op = "visit"
        /\ scene' = scene /\ crossed' = crossed
        /\ UNCHANGED <<entries, cans, trips, drops, yard, handovers, expenses, receipts, visits>>
        /\ files' = IF desk[k].row.outcome = "PROMISED" THEN [files EXCEPT ![desk[k].row.who].promised = TRUE]
                    ELSE files
    BY <1>0, <1>17 DEF VisitPromises, Holds, FieldFrame, cashVars
  <2>2. desk[k].row \in VisitRow /\ desk[k].row.who \in Customers /\ desk[k].on = {Customer(desk[k].row.who)}
    BY <2>1 DEF VisitFrame, VisitRow
  <2>3. /\ frame.op = "visit" /\ frame.on = desk[k].on /\ frame.at = "record" /\ frame.row = desk[k].row
        /\ DOMAIN frame = {"op", "on", "at", "row"}
    <3>1. DOMAIN desk[k] = {"op", "on", "at", "row"}
      BY <2>1 DEF VisitFrame
    <3>2. /\ frame.op = desk[k].op /\ frame.on = desk[k].on /\ frame.at = "record" /\ frame.row = desk[k].row
          /\ DOMAIN frame = DOMAIN desk[k]
      BY <3>1
    <3> HIDE DEF frame
    <3> QED
      BY <2>1, <3>1, <3>2
  <2>4. desk'[k] = frame /\ \A m \in Desks : m # k => desk'[m] = desk[m]
    <3> HIDE DEF frame
    <3> QED
      BY <1>0, <2>1, <2>3, FrameDesk
  <2>5. FieldFrame(desk[k])'
    <3> HIDE DEF frame
    <3>1. VisitFrame(desk[k])'
      BY <2>2, <2>3, <2>4 DEF VisitFrame, VisitRow, Customer
    <3> QED
      BY <2>3, <2>4, <3>1 DEF FieldFrame
  <2>6. files' \in [Customers -> FileRow]
    BY <1>0, <2>1, <2>2 DEF FileRow
  <2> HIDE DEF frame
  <2> QED
    BY <1>0, <1>15, <2>1, <2>4, <2>5, <2>6
<1>18. ASSUME NEW k \in Desks, VisitRecords(k) PROVE FieldTyped' /\ FieldGrows
  <2>1. /\ VisitFrame(desk[k]) /\ Ends(k) /\ UNCHANGED <<fileVars, handovers, expenses, receipts>>
        /\ visits' \in {visits, Append(visits, desk[k].row)}
    <3>1. visits' \in {visits, Append(visits, desk[k].row)}
      BY <1>18 DEF VisitRecords
    <3> QED
      BY <1>0, <1>18, <3>1 DEF VisitRecords, Holds, FieldFrame
  <2>2. desk[k].row \in VisitRow
    BY <2>1 DEF VisitFrame
  <2>3. visits' \in Seq(VisitRow)
    <3> DEFINE row == desk[k].row
    <3>1. row \in VisitRow /\ (visits' = visits \/ visits' = Append(visits, row))
      BY <2>1, <2>2
    <3> HIDE DEF row
    <3>2. CASE visits' = Append(visits, row)
      BY <1>0, <3>1, <3>2, Appended
    <3> QED
      BY <1>0, <3>1, <3>2
  <2>4. CashTables'
    BY <1>0, <2>1, <2>3 DEF CashTables
  <2> QED
    BY <1>3, <2>1, <2>4
<1>19. ASSUME NEW p \in DOMAIN receipts, RemovePayment(p) PROVE FieldTyped' /\ FieldGrows
  <2> DEFINE row == [receipts[p] EXCEPT !.live = FALSE]
  <2>1. /\ receipts' = [receipts EXCEPT ![p] = row]
        /\ entries' = entries \o Entry(receipts[p].who, "ADJUSTMENT", receipts[p].amount)
        /\ visits' = [v \in DOMAIN visits |-> IF visits[v].receipt = p THEN [visits[v] EXCEPT !.receipt = 0]
                                              ELSE visits[v]]
        /\ UNCHANGED <<files, cans, trips, drops, yard, handovers, expenses>>
        /\ scene' = scene /\ desk' = desk
    BY <1>19 DEF RemovePayment, Without, Touches
  <2>2. row \in ReceiptRow /\ receipts[p].who \in Customers /\ receipts[p].amount \in Int
    <3>1. receipts[p] \in ReceiptRow
      BY <1>0
    <3>2. receipts[p].who \in Customers /\ receipts[p].amount \in Nat
      BY <3>1 DEF ReceiptRow
    <3>3. row \in ReceiptRow
      BY <3>1 DEF ReceiptRow
    <3> HIDE DEF row
    <3> QED
      BY <3>2, <3>3
  <2>3. receipts' \in Seq(ReceiptRow)
    <3> HIDE DEF row
    <3> QED
      BY <1>0, <2>1, <2>2, PutRow
  <2>4. entries' \in Seq(EntryRow) /\ DOMAIN entries \subseteq DOMAIN entries'
    <3>1. Entry(receipts[p].who, "ADJUSTMENT", receipts[p].amount) \in Seq(EntryRow)
      BY <1>14, <2>2, EntryKept
    <3> QED
      BY <1>0, <2>1, <3>1, RowsKept
  <2>5. visits' \in Seq(VisitRow)
    <3>1. \A v \in DOMAIN visits : [visits[v] EXCEPT !.receipt = 0] \in VisitRow
      BY <1>0 DEF VisitRow
    <3>2. DOMAIN visits' = DOMAIN visits /\ visits' = [v \in DOMAIN visits |-> visits'[v]]
      BY <2>1
    <3>3. \A v \in DOMAIN visits : visits'[v] \in VisitRow
      BY <1>0, <2>1, <3>1
    <3> QED
      BY <1>0, <3>2, <3>3, Rewritten
  <2> HIDE DEF row
  <2> QED
    BY <1>0, <1>15, <2>1, <2>3, <2>4, <2>5
<1> QED
  BY <1>4, <1>5, <1>6, <1>7, <1>8, <1>9, <1>10, <1>11, <1>12, <1>13, <1>16, <1>17, <1>18, <1>19 DEF CashStep

LEMMA FieldTypedStep ==
    ASSUME Orderly, FieldTyped, [Next]_vars
    PROVE  FieldTyped' /\ FieldGrows
<1>1. ASSUME UNCHANGED <<fileVars, cashVars>>, scene' = scene,
             \A m \in Desks : desk'[m] = desk[m] \/ desk'[m].op \notin FieldOps
      PROVE  FieldTyped' /\ FieldGrows
  <2>1. FieldGrows
    BY <1>1 DEF FieldGrows, fileVars, cashVars
  <2>2. FileTables' /\ CashTables'
    BY <1>1 DEF FieldTyped, FileTables, CashTables, fileVars, cashVars
  <2> QED
    BY <1>1, <2>1, <2>2, FieldWrites
<1>2. CASE UNCHANGED vars
  BY <1>1, <1>2 DEF vars, requestVars
<1>3. CASE Next
  <2>1. ASSUME NEW ops \in {FactoryOps, CatalogOps, {}}, Own(ops)
        PROVE  \A m \in Desks : desk'[m] = desk[m] \/ desk'[m].op \notin FieldOps
    BY <2>1 DEF Own, FileOps, CashOps, CatalogOps, FactoryOps, FieldOps
  <2>2. /\ scene' = scene
        /\ \/ FileStep /\ UNCHANGED cashVars
           \/ CashStep
           \/ \E ops \in {FactoryOps, CatalogOps, {}} : Own(ops) /\ UNCHANGED <<fileVars, cashVars>>
    BY <1>3, StepOrderly
  <2> QED
    BY <1>1, <2>1, <2>2, FileStepTyped, CashStepTyped
<1> QED
  BY <1>2, <1>3

LEMMA FieldTypedAlways == Spec => []FieldTyped
<1>1. Orderly /\ FieldTyped /\ [Next]_vars => FieldTyped'
  BY FieldTypedStep
<1>2. Init => FieldTyped
  BY StartsFieldTyped
<1> QED
  BY <1>1, <1>2, OrderlyAlways, PTL DEF Spec

-----------------------------------------------------------------------------
(* What a rider has collected, spent and handed over, row by row.          *)
Collects(r, runs) ==
    [row \in DropRow |-> IF row.live /\ row.trip \in DOMAIN runs /\ runs[row.trip].rider = r THEN row.cash ELSE 0]
Spends(r) == [row \in ExpenseRow |-> IF row.live /\ row.byRider /\ row.staff = r THEN row.amount ELSE 0]
HandsOver(r) == [row \in HandoverRow |-> IF row.live /\ row.rider = r THEN row.amount ELSE 0]

LEMMA RiderWeights ==
    ASSUME NEW r, NEW runs
    PROVE  Collects(r, runs) \in [DropRow -> Int] /\ Spends(r) \in [ExpenseRow -> Int] /\ HandsOver(r) \in [HandoverRow -> Int]
<1>1. Collects(r, runs) \in [DropRow -> Int]
  BY DEF Collects, DropRow
<1>2. Spends(r) \in [ExpenseRow -> Int]
  BY DEF Spends, ExpenseRow
<1>3. HandsOver(r) \in [HandoverRow -> Int]
  BY DEF HandsOver, HandoverRow
<1> QED
  BY <1>1, <1>2, <1>3

LEMMA HandedWorth ==
    ASSUME NEW rows \in Seq(HandoverRow), NEW r
    PROVE  SumFunction([h \in {h \in {h \in DOMAIN rows : rows[h].live} : rows[h].rider = r} |-> rows[h].amount])
           = Worth(rows, HandsOver(r))
<1> DEFINE T == {h \in {h \in DOMAIN rows : rows[h].live} : rows[h].rider = r}
           g == [h \in T |-> rows[h].amount]
           w == HandsOver(r)
<1>1. \A h \in DOMAIN rows : rows[h] \in HandoverRow
  BY SeqDomain
<1>2. \A h \in DOMAIN rows : w[rows[h]] = IF h \in T THEN rows[h].amount ELSE 0
  BY <1>1 DEF HandsOver
<1>3. DOMAIN g = T /\ T \in SUBSET (DOMAIN rows) /\ \A h \in T : g[h] = rows[h].amount
  OBVIOUS
<1>4. w \in [HandoverRow -> Int]
  BY RiderWeights
<1> HIDE DEF T, g, w
<1>5. (\A h \in T : g[h] = w[rows[h]]) /\ (\A h \in DOMAIN rows : h \notin T => w[rows[h]] = 0)
  BY <1>2, <1>3
<1>6. SumFunction(g) = Worth(rows, w)
  BY <1>3, <1>4, <1>5, WorthWithin
<1> QED
  BY <1>6 DEF T, g, w

LEMMA SpentWorth ==
    ASSUME NEW rows \in Seq(ExpenseRow), NEW r
    PROVE  SumFunction([x \in {x \in {x \in DOMAIN rows : rows[x].live} : rows[x].byRider /\ rows[x].staff = r}
                            |-> rows[x].amount])
           = Worth(rows, Spends(r))
<1> DEFINE T == {x \in {x \in DOMAIN rows : rows[x].live} : rows[x].byRider /\ rows[x].staff = r}
           g == [x \in T |-> rows[x].amount]
           w == Spends(r)
<1>1. \A x \in DOMAIN rows : rows[x] \in ExpenseRow
  BY SeqDomain
<1>2. \A x \in DOMAIN rows : w[rows[x]] = IF x \in T THEN rows[x].amount ELSE 0
  BY <1>1 DEF Spends
<1>3. DOMAIN g = T /\ T \in SUBSET (DOMAIN rows) /\ \A x \in T : g[x] = rows[x].amount
  OBVIOUS
<1>4. w \in [ExpenseRow -> Int]
  BY RiderWeights
<1> HIDE DEF T, g, w
<1>5. (\A x \in T : g[x] = w[rows[x]]) /\ (\A x \in DOMAIN rows : x \notin T => w[rows[x]] = 0)
  BY <1>2, <1>3
<1>6. SumFunction(g) = Worth(rows, w)
  BY <1>3, <1>4, <1>5, WorthWithin
<1> QED
  BY <1>6 DEF T, g, w

LEMMA CollectedWorth ==
    ASSUME NEW rows \in Seq(DropRow), NEW runs, \A d \in DOMAIN rows : rows[d].trip \in DOMAIN runs, NEW r
    PROVE  SumFunction([d \in {d \in {d \in DOMAIN rows : rows[d].live} : runs[rows[d].trip].rider = r}
                            |-> rows[d].cash])
           = Worth(rows, Collects(r, runs))
<1> DEFINE T == {d \in {d \in DOMAIN rows : rows[d].live} : runs[rows[d].trip].rider = r}
           g == [d \in T |-> rows[d].cash]
           w == Collects(r, runs)
<1>1. \A d \in DOMAIN rows : rows[d] \in DropRow
  BY SeqDomain
<1>2. \A d \in DOMAIN rows : w[rows[d]] = IF d \in T THEN rows[d].cash ELSE 0
  BY <1>1 DEF Collects
<1>3. DOMAIN g = T /\ T \in SUBSET (DOMAIN rows) /\ \A d \in T : g[d] = rows[d].cash
  OBVIOUS
<1>4. w \in [DropRow -> Int]
  BY RiderWeights
<1> HIDE DEF T, g, w
<1>5. (\A d \in T : g[d] = w[rows[d]]) /\ (\A d \in DOMAIN rows : d \notin T => w[rows[d]] = 0)
  BY <1>2, <1>3
<1>6. SumFunction(g) = Worth(rows, w)
  BY <1>3, <1>4, <1>5, WorthWithin
<1> QED
  BY <1>6 DEF T, g, w

(* The balance of a rider, over the whole tables. *)
Carried(r) ==
    Worth(drops, Collects(r, trips)) - Worth(expenses, Spends(r)) - Worth(handovers, HandsOver(r))

LEMMA BalanceWorth ==
    ASSUME FieldTyped
    PROVE  \A r : /\ RiderCashBalance(r) = Carried(r)
                  /\ CashCollected(r) = Worth(drops, Collects(r, trips)) /\ RiderPaid(r) = Worth(expenses, Spends(r))
                  /\ HandedOver(r) = Worth(handovers, HandsOver(r))
<1> SUFFICES ASSUME NEW r
             PROVE  /\ RiderCashBalance(r) = Carried(r)
                    /\ CashCollected(r) = Worth(drops, Collects(r, trips)) /\ RiderPaid(r) = Worth(expenses, Spends(r))
                    /\ HandedOver(r) = Worth(handovers, HandsOver(r))
  OBVIOUS
<1>1. CashCollected(r) = Worth(drops, Collects(r, trips))
  BY CollectedWorth DEF FieldTyped, FileTables, CashCollected, DropCash, DropsOf, Live
<1>2. RiderPaid(r) = Worth(expenses, Spends(r))
  BY SpentWorth DEF FieldTyped, CashTables, RiderPaid, PaidBy, Live
<1>3. HandedOver(r) = Worth(handovers, HandsOver(r))
  BY HandedWorth DEF FieldTyped, CashTables, HandedOver, Handed, HandoversOf, Live
<1> QED
  BY <1>1, <1>2, <1>3 DEF RiderCashBalance, Carried

(* What a rider carries does not shrink, except for riders whose requests  *)
(* in progress are crossed by the step; nor does a live handover change    *)
(* under a request on it that is not crossed.                              *)
Carries(r) == Carried(r) \in Int /\ Carried(r)' \in Int
CrossedBy(row) == \A m \in Desks : row \in desk'[m].on => row \in crossed'
Steady ==
    /\ crossed \subseteq crossed'
    /\ \A r \in Riders : Carries(r) /\ (Carried(r)' >= Carried(r) \/ CrossedBy(Rider(r)))
    /\ \A h \in DOMAIN handovers : handovers'[h] = handovers[h] \/ ~handovers'[h].live \/ CrossedBy(Handover(h))

LEMMA RiderSums ==
    ASSUME FieldTyped, FieldTyped', NEW r
    PROVE  /\ Worth(drops, Collects(r, trips)) \in Int /\ Worth(drops', Collects(r, trips')) \in Int
           /\ Worth(expenses, Spends(r)) \in Int /\ Worth(expenses', Spends(r)) \in Int
           /\ Worth(handovers, HandsOver(r)) \in Int /\ Worth(handovers', HandsOver(r)) \in Int
           /\ Carries(r)
           /\ Carried(r) = Worth(drops, Collects(r, trips)) - Worth(expenses, Spends(r)) - Worth(handovers, HandsOver(r))
           /\ Carried(r)' = Worth(drops', Collects(r, trips')) - Worth(expenses', Spends(r)) - Worth(handovers', HandsOver(r))
<1>1. /\ drops \in Seq(DropRow) /\ drops' \in Seq(DropRow)
      /\ expenses \in Seq(ExpenseRow) /\ expenses' \in Seq(ExpenseRow)
      /\ handovers \in Seq(HandoverRow) /\ handovers' \in Seq(HandoverRow)
  <2>1. drops' \in Seq(DropRow)
    BY DEF FieldTyped, FileTables, DropRow
  <2>2. expenses' \in Seq(ExpenseRow)
    BY DEF FieldTyped, CashTables, ExpenseRow
  <2>3. handovers' \in Seq(HandoverRow)
    BY DEF FieldTyped, CashTables, HandoverRow
  <2> QED
    BY <2>1, <2>2, <2>3 DEF FieldTyped, FileTables, CashTables
<1>2. Worth(drops, Collects(r, trips)) \in Int /\ Worth(drops', Collects(r, trips')) \in Int
  BY <1>1, RiderWeights, WorthInt
<1>3. Worth(expenses, Spends(r)) \in Int /\ Worth(expenses', Spends(r)) \in Int
  BY <1>1, RiderWeights, WorthInt
<1>4. Worth(handovers, HandsOver(r)) \in Int /\ Worth(handovers', HandsOver(r)) \in Int
  BY <1>1, RiderWeights, WorthInt
<1>5. /\ Carried(r) = Worth(drops, Collects(r, trips)) - Worth(expenses, Spends(r)) - Worth(handovers, HandsOver(r))
      /\ Carried(r)' = Worth(drops', Collects(r, trips')) - Worth(expenses', Spends(r)) - Worth(handovers', HandsOver(r))
  BY DEF Carried, Worth, Collects, Spends, HandsOver, DropRow, ExpenseRow, HandoverRow
<1> QED
  BY <1>2, <1>3, <1>4, <1>5 DEF Carries

LEMMA FileSteady ==
    ASSUME Orderly, FieldTyped, FieldTyped', FileStep, UNCHANGED cashVars, crossed \subseteq crossed'
    PROVE  Steady
<1>0. /\ handovers' = handovers /\ expenses' = expenses /\ Exclusive
      /\ drops \in Seq(DropRow) /\ \A d \in DOMAIN drops : drops[d] \in DropRow /\ drops[d].trip \in DOMAIN trips
      /\ trips \in Seq(TripRow) /\ \A t \in DOMAIN trips : trips[t] \in TripRow
  BY SeqDomain DEF cashVars, FieldTyped, FileTables, Orderly
<1>00. /\ scene.who \subseteq Customers /\ scene.stops \subseteq Stop
  BY FieldInputs DEF Orderly, Exclusive
<1>1. ASSUME \A r \in Riders : \/ Worth(drops', Collects(r, trips')) >= Worth(drops, Collects(r, trips))
                               \/ CrossedBy(Rider(r))
      PROVE  Steady
  <2>1. ASSUME NEW r \in Riders PROVE Carries(r) /\ (Carried(r)' >= Carried(r) \/ CrossedBy(Rider(r)))
    <3> DEFINE c == Worth(drops, Collects(r, trips))
               cc == Worth(drops', Collects(r, trips'))
               e == Worth(expenses, Spends(r))
               h == Worth(handovers, HandsOver(r))
    <3>1. /\ c \in Int /\ cc \in Int /\ e \in Int /\ h \in Int /\ Carries(r)
          /\ Carried(r) = c - e - h /\ Carried(r)' = cc - e - h
      BY <1>0, RiderSums
    <3>2. cc >= c \/ CrossedBy(Rider(r))
      BY <1>1
    <3> HIDE DEF c, cc, e, h
    <3> QED
      BY <3>1, <3>2
  <2> QED
    BY <1>0, <2>1 DEF Steady
<1>2. ASSUME drops' = drops, \A t \in DOMAIN trips : t \in DOMAIN trips' /\ trips'[t].rider = trips[t].rider
      PROVE  Steady
  <2>1. ASSUME NEW r \in Riders PROVE Worth(drops', Collects(r, trips')) >= Worth(drops, Collects(r, trips))
    <3> DEFINE w == Collects(r, trips)
               v == Collects(r, trips')
    <3>1. \A d \in DOMAIN drops : w[drops[d]] = v[drops[d]]
      BY <1>0, <1>2 DEF Collects
    <3>2. Worth(drops, w) = Worth(drops', v)
      <4> HIDE DEF w, v
      <4> QED
        BY <1>2, <3>1, WorthSame
    <3>3. Worth(drops, w) \in Int
      BY RiderSums
    <3> QED
      BY <3>2, <3>3
  <2> QED
    BY <1>1, <2>1
<1>3. ASSUME UNCHANGED <<drops, trips>> PROVE Steady
  BY <1>2, <1>3
<1>4. ASSUME NEW c \in scene.who, NEW s \in scene.stops, NEW t \in DOMAIN trips, Deliver(t, c, s)
      PROVE  Steady
  <2> DEFINE row == [trip |-> t, who |-> c, out |-> s.out, back |-> s.back, sale |-> s.sale,
                     cash |-> s.cash, day |-> s.day, live |-> TRUE]
  <2>1. drops' = Append(drops, row) /\ trips' = trips
    BY <1>4 DEF Deliver
  <2>2. row \in DropRow
    <3>1. /\ c \in Customers /\ s.out \in Nat /\ s.back \in Nat /\ s.sale \in Nat /\ s.cash \in Nat
          /\ s.day \in Days /\ t \in Nat
      BY <1>0, <1>00, SeqDomain DEF Stop
    <3> QED
      BY <3>1 DEF DropRow
  <2>3. ASSUME NEW r \in Riders PROVE Worth(drops', Collects(r, trips')) >= Worth(drops, Collects(r, trips))
    <3> DEFINE w == Collects(r, trips)
    <3>1. w[row] \in Nat
      BY <2>2 DEF Collects, DropRow
    <3>2. w \in [DropRow -> Int]
      BY RiderWeights
    <3> HIDE DEF row, w
    <3>3. Worth(drops', w) = Worth(drops, w) + w[row] /\ Worth(drops, w) \in Int
      <4>1. Adds(DropRow, w, drops, row, drops')
        BY <1>0, <2>1, <2>2, <3>2 DEF Adds
      <4> QED
        BY <4>1, WorthAdd
    <3> QED
      BY <2>1, <3>1, <3>3 DEF w
  <2> QED
    BY <1>1, <2>3
<1>5. ASSUME NEW d \in DOMAIN drops, CancelDrop(d) PROVE Steady
  <2> DEFINE s == drops[d]
             row == [s EXCEPT !.live = FALSE]
             rider == trips[s.trip].rider
  <2>1. drops' = [drops EXCEPT ![d] = row] /\ trips' = trips /\ Touches({Customer(s.who), Rider(rider)}) /\ desk' = desk
    BY <1>5 DEF CancelDrop, Touches
  <2>2. s \in DropRow /\ row \in DropRow /\ ~row.live
    <3>1. s \in DropRow
      BY <1>0
    <3> HIDE DEF s
    <3> QED
      BY <3>1 DEF DropRow
  <2>3. ASSUME NEW r \in Riders
        PROVE  Worth(drops', Collects(r, trips')) >= Worth(drops, Collects(r, trips)) \/ CrossedBy(Rider(r))
    <3> DEFINE w == Collects(r, trips)
    <3>1. w[row] = 0 /\ w[s] \in Nat /\ (w[s] # 0 => rider = r)
      <4> HIDE DEF s, row
      <4> QED
        BY <2>2 DEF Collects, DropRow
    <3>2. w \in [DropRow -> Int]
      BY RiderWeights
    <3>3. Worth(drops', w) = Worth(drops, w) - w[s] + w[row] /\ Worth(drops, w) \in Int
      <4> HIDE DEF row, w
      <4>1. Puts(DropRow, w, drops, d, row, drops')
        BY <1>0, <2>1, <2>2, <3>2 DEF Puts
      <4> QED
        BY ONLY <4>1, WorthPut
    <3>4. CASE w[s] = 0
      <4> HIDE DEF row, w, s
      <4> QED
        BY <2>1, <3>1, <3>3, <3>4 DEF w
    <3>5. CASE rider = r
      <4>1. Rider(r) \in {Customer(s.who), Rider(rider)}
        BY <3>5
      <4> QED
        BY <2>1, <4>1, TouchedCross DEF CrossedBy
    <3> HIDE DEF w, row, s, rider
    <3> QED
      BY <3>1, <3>4, <3>5
  <2> QED
    BY <1>1, <2>3
<1>6. ASSUME NEW r, NEW filled, NEW empty, OpenTrip(r, filled, empty) PROVE Steady
  <2> DEFINE row == [rider |-> r, open |-> TRUE, filled |-> filled, empty |-> empty, counted |-> 0]
  <2>1. trips' = Append(trips, row) /\ drops' = drops
    BY <1>6 DEF OpenTrip
  <2>2. \A t \in DOMAIN trips : t \in DOMAIN trips' /\ trips'[t] = trips[t]
    <3> HIDE DEF row
    <3>1. DOMAIN trips = 1..Len(trips) /\ Len(trips) \in Nat
      BY <1>0
    <3> QED
      BY <1>0, <2>1, <3>1
  <2> QED
    BY <1>2, <2>1, <2>2
<1>7. ASSUME NEW t \in DOMAIN trips, NEW filled, NEW empty, ReloadTrip(t, filled, empty) PROVE Steady
  <2> DEFINE row == [trips[t] EXCEPT !.filled = filled, !.empty = empty]
  <2>1. trips' = [trips EXCEPT ![t].filled = filled, ![t].empty = empty] /\ drops' = drops
    BY <1>7 DEF ReloadTrip
  <2>2. trips' = [trips EXCEPT ![t] = row]
    BY <2>1, Zenon
  <2>3. row.rider = trips[t].rider
    OBVIOUS
  <2> HIDE DEF row
  <2>4. \A u \in DOMAIN trips : u \in DOMAIN trips' /\ trips'[u].rider = trips[u].rider
    BY <2>2, <2>3
  <2> QED
    BY <1>2, <2>1, <2>4
<1>8. ASSUME NEW t \in DOMAIN trips, NEW counted, CloseTrip(t, counted) PROVE Steady
  <2> DEFINE row == [trips[t] EXCEPT !.open = FALSE, !.counted = counted]
  <2>1. trips' = [trips EXCEPT ![t].open = FALSE, ![t].counted = counted] /\ drops' = drops
    BY <1>8 DEF CloseTrip
  <2>2. trips' = [trips EXCEPT ![t] = row]
    BY <2>1, Zenon
  <2>3. row.rider = trips[t].rider
    OBVIOUS
  <2> HIDE DEF row
  <2>4. \A u \in DOMAIN trips : u \in DOMAIN trips' /\ trips'[u].rider = trips[u].rider
    BY <2>2, <2>3
  <2> QED
    BY <1>2, <2>1, <2>4
<1>9. ASSUME NEW c, NEW opening, NEW holds, NEW status, CreateCustomer(c, opening, holds, status)
      PROVE  UNCHANGED <<drops, trips>>
  BY <1>9 DEF CreateCustomer
<1>10. ASSUME NEW k, NEW c, (\E put : BeginUpdateCustomer(k, c, put)) \/ BeginDeactivate(k, c)
       PROVE  UNCHANGED <<drops, trips>>
  BY <1>10 DEF BeginUpdateCustomer, BeginDeactivate, fileVars
<1>11. ASSUME NEW c, (\E delta : AdjustContainers(c, delta)) \/ \E s : HandOver(c, s)
       PROVE  UNCHANGED <<drops, trips>>
  BY <1>11 DEF AdjustContainers, HandOver
<1>12. ASSUME NEW type, NEW delta, AdjustOwned(type, delta) PROVE UNCHANGED <<drops, trips>>
  BY <1>12 DEF AdjustOwned
<1>13. ASSUME NEW k, (\E qty : BeginSetOpening(k, qty)) \/ CommitUpdateCustomer(k) \/ CommitSetOpening(k)
       PROVE  UNCHANGED <<drops, trips>>
  BY <1>13 DEF BeginSetOpening, CommitUpdateCustomer, CommitSetOpening, fileVars
<1> QED
  BY <1>3, <1>4, <1>5, <1>6, <1>7, <1>8, <1>9, <1>10, <1>11, <1>12, <1>13 DEF FileStep

LEMMA CashSteady ==
    ASSUME Orderly, FieldTyped, FieldTyped', CashStep, crossed \subseteq crossed'
    PROVE  Steady
<1>0. /\ Exclusive /\ \A k \in Desks : FieldFrame(desk[k])
      /\ handovers \in Seq(HandoverRow) /\ \A h \in DOMAIN handovers : handovers[h] \in HandoverRow
      /\ expenses \in Seq(ExpenseRow) /\ \A x \in DOMAIN expenses : expenses[x] \in ExpenseRow
  BY SeqDomain DEF FieldTyped, CashTables, Orderly
<1>00. /\ scene.amounts \subseteq Nat /\ scene.days \subseteq Days /\ \A put \in scene.edits : Gives(put, Columns(scene))
  BY FieldInputs DEF Orderly, Exclusive
<1>1. ASSUME UNCHANGED <<drops, trips>>,
             \A r \in Riders :
                \/ Worth(expenses', Spends(r)) <= Worth(expenses, Spends(r))
                   /\ Worth(handovers', HandsOver(r)) <= Worth(handovers, HandsOver(r))
                \/ CrossedBy(Rider(r)),
             \A h \in DOMAIN handovers : handovers'[h] = handovers[h] \/ ~handovers'[h].live \/ CrossedBy(Handover(h))
      PROVE  Steady
  <2>1. ASSUME NEW r \in Riders PROVE Carries(r) /\ (Carried(r)' >= Carried(r) \/ CrossedBy(Rider(r)))
    <3> DEFINE c == Worth(drops, Collects(r, trips))
               e == Worth(expenses, Spends(r))
               h == Worth(handovers, HandsOver(r))
               ee == Worth(expenses', Spends(r))
               hh == Worth(handovers', HandsOver(r))
    <3>1. /\ c \in Int /\ ee \in Int /\ hh \in Int /\ e \in Int /\ h \in Int /\ Carries(r)
          /\ Carried(r) = c - e - h /\ Carried(r)' = c - ee - hh
      BY <1>1, RiderSums
    <3>2. (ee <= e /\ hh <= h) \/ CrossedBy(Rider(r))
      BY <1>1
    <3> HIDE DEF c, e, h, ee, hh
    <3> QED
      BY <3>1, <3>2
  <2> QED
    BY <1>1, <2>1 DEF Steady
<1>2. ASSUME UNCHANGED <<drops, trips, handovers, expenses>> PROVE Steady
  <2>1. \A r \in Riders : Worth(expenses, Spends(r)) \in Int /\ Worth(handovers, HandsOver(r)) \in Int
    BY RiderSums
  <2> QED
    BY <1>1, <1>2, <2>1
<1>3. ASSUME NEW staff \in Riders \cup {Nobody}, NEW byRider \in BOOLEAN, NEW amount \in scene.amounts,
             NEW day \in scene.days, CreateExpense(staff, byRider, amount, day)
      PROVE  Steady
  <2> DEFINE row == [staff |-> staff, byRider |-> byRider, amount |-> amount, day |-> day, live |-> TRUE]
  <2>1. expenses' = Append(expenses, row) /\ UNCHANGED <<drops, trips, handovers>> /\ Touches({Rider(staff)}) /\ desk' = desk
    BY <1>3 DEF CreateExpense, Touches, fileVars
  <2>2. row \in ExpenseRow /\ row.staff = staff
    BY <1>00 DEF ExpenseRow
  <2>3. ASSUME NEW r \in Riders
        PROVE  \/ /\ Worth(expenses', Spends(r)) <= Worth(expenses, Spends(r))
                  /\ Worth(handovers', HandsOver(r)) <= Worth(handovers, HandsOver(r))
               \/ CrossedBy(Rider(r))
    <3>1. CASE r = staff
      BY <2>1, <3>1, TouchedCross DEF CrossedBy
    <3>2. CASE r # staff
      <4> DEFINE w == Spends(r)
      <4>1. w[row] = 0 /\ w \in [ExpenseRow -> Int]
        BY <2>2, <3>2, RiderWeights DEF Spends
      <4>2. Worth(handovers, HandsOver(r)) \in Int
        BY RiderSums
      <4>3. Worth(expenses', w) = Worth(expenses, w) + w[row] /\ Worth(expenses, w) \in Int
        <5> HIDE DEF w, row
        <5>1. Adds(ExpenseRow, w, expenses, row, expenses')
          BY <1>0, <2>1, <2>2, <4>1 DEF Adds
        <5> QED
          BY <5>1, WorthAdd
      <4> HIDE DEF row
      <4> QED
        BY <2>1, <4>1, <4>2, <4>3
    <3> QED
      BY <3>1, <3>2
  <2> QED
    BY <1>1, <2>1, <2>3
<1>4. ASSUME NEW k \in Desks, Ends(k) \/ \E rows : EndsTouching(k, rows)
      PROVE  \A row \in desk[k].on : CrossedBy(row)
  <2>1. desk'[k] = Idle /\ \A m \in Desks : m # k => desk'[m] = desk[m]
    BY <1>0, <1>4, EndsDesk
  <2> QED
    BY <1>0, <2>1 DEF CrossedBy, Exclusive, Idle
<1>5. ASSUME NEW k \in Desks, CommitCreateHandover(k) PROVE Steady
  <2> DEFINE row == desk[k].row
  <2>1. /\ NewHandoverFrame(desk[k]) /\ handovers' = Append(handovers, row) /\ Ends(k)
        /\ UNCHANGED <<drops, trips, expenses>>
    BY <1>0, <1>5 DEF CommitCreateHandover, Holds, FieldFrame, fileVars
  <2>2. row \in HandoverRow /\ desk[k].on = {Rider(row.rider)}
    BY <2>1 DEF NewHandoverFrame
  <2>3. \A h \in DOMAIN handovers : handovers'[h] = handovers[h]
    BY <1>0, <2>1, <2>2, Appended
  <2>4. ASSUME NEW r \in Riders
        PROVE  \/ /\ Worth(expenses', Spends(r)) <= Worth(expenses, Spends(r))
                  /\ Worth(handovers', HandsOver(r)) <= Worth(handovers, HandsOver(r))
               \/ CrossedBy(Rider(r))
    <3>1. CASE r = row.rider
      BY <1>4, <2>1, <2>2, <3>1
    <3>2. CASE r # row.rider
      <4> DEFINE w == HandsOver(r)
      <4>1. w[row] = 0 /\ w \in [HandoverRow -> Int]
        BY <2>2, <3>2, RiderWeights DEF HandsOver
      <4>2. Worth(expenses, Spends(r)) \in Int
        BY RiderSums
      <4>3. Worth(handovers', w) = Worth(handovers, w) + w[row] /\ Worth(handovers, w) \in Int
        <5> HIDE DEF w, row
        <5>1. Adds(HandoverRow, w, handovers, row, handovers')
          BY <1>0, <2>1, <2>2, <4>1 DEF Adds
        <5> QED
          BY <5>1, WorthAdd
      <4> HIDE DEF row
      <4> QED
        BY <2>1, <4>1, <4>2, <4>3
    <3> QED
      BY <3>1, <3>2
  <2> QED
    BY <1>1, <2>1, <2>3, <2>4
<1>6. ASSUME NEW k \in Desks, CommitUpdateHandover(k) PROVE Steady
  <2> DEFINE f == desk[k]
             h == f.id
             old == handovers[h]
             new == [Patched(old, f.put) EXCEPT !.rider = f.rider]
  <2>1. /\ HandoverFrame(f) /\ Ends(k) /\ UNCHANGED <<drops, trips, expenses>>
        /\ handovers' \in {handovers, [handovers EXCEPT ![h] = new]}
    BY <1>0, <1>6 DEF CommitUpdateHandover, Holds, FieldFrame, fileVars
  <2>2. /\ h \in DOMAIN handovers /\ old \in HandoverRow /\ Gives(f.put, Columns(scene)) /\ f.rider \in Riders
        /\ Handover(h) \in f.on /\ Rider(f.rider) \in f.on
    BY <1>0, <1>00, <2>1 DEF HandoverFrame
  <2>3. new \in HandoverRow /\ new.rider = f.rider
    <3> HIDE DEF f, old
    <3> QED
      BY <2>2, PatchedHandover
  <2>4. CASE handovers' = handovers
    BY <1>2, <2>1, <2>4
  <2>5. CASE handovers' = [handovers EXCEPT ![h] = new]
    <3>1. \A n \in DOMAIN handovers : handovers'[n] = handovers[n] \/ CrossedBy(Handover(n))
      <4>1. CrossedBy(Handover(h))
        BY <1>4, <2>1, <2>2
      <4> HIDE DEF new, h
      <4> QED
        BY <2>5, <4>1
    <3>2. ASSUME NEW r \in Riders
          PROVE  \/ /\ Worth(expenses', Spends(r)) <= Worth(expenses, Spends(r))
                    /\ Worth(handovers', HandsOver(r)) <= Worth(handovers, HandsOver(r))
                 \/ CrossedBy(Rider(r))
      <4>1. CASE r = f.rider
        BY <1>4, <2>1, <2>2, <4>1
      <4>2. CASE r # f.rider
        <5> DEFINE w == HandsOver(r)
        <5>1. w[new] = 0 /\ w[old] \in Nat /\ w \in [HandoverRow -> Int]
          <6> HIDE DEF old, new, f
          <6> QED
            BY <2>2, <2>3, <4>2, RiderWeights DEF HandsOver, HandoverRow
        <5>2. Worth(expenses, Spends(r)) \in Int
          BY RiderSums
        <5>3. Worth(handovers', w) = Worth(handovers, w) - w[old] + w[new] /\ Worth(handovers, w) \in Int
          <6> HIDE DEF w, new, h
          <6>1. Puts(HandoverRow, w, handovers, h, new, handovers')
            BY <1>0, <2>2, <2>3, <2>5, <5>1 DEF Puts
          <6> QED
            BY ONLY <6>1, WorthPut
        <5> HIDE DEF new, old, f
        <5> QED
          BY <2>1, <5>1, <5>2, <5>3
      <4> QED
        BY <4>1, <4>2
    <3> HIDE DEF f, h, new
    <3> QED
      BY <1>1, <2>1, <3>1, <3>2
  <2> QED
    BY <2>1, <2>4, <2>5
<1>7. ASSUME NEW h \in DOMAIN handovers, RemoveHandover(h) PROVE Steady
  <2> DEFINE old == handovers[h]
             new == [old EXCEPT !.live = FALSE]
  <2>1. handovers' = [handovers EXCEPT ![h] = new] /\ UNCHANGED <<drops, trips, expenses>>
    BY <1>7 DEF RemoveHandover, Without, fileVars
  <2>2. old \in HandoverRow /\ new \in HandoverRow /\ ~new.live
    <3>1. old \in HandoverRow
      BY <1>0
    <3> HIDE DEF old
    <3> QED
      BY <3>1 DEF HandoverRow
  <2>3. \A n \in DOMAIN handovers : handovers'[n] = handovers[n] \/ ~handovers'[n].live
    <3> HIDE DEF new
    <3> QED
      BY <2>1, <2>2
  <2>4. ASSUME NEW r \in Riders
        PROVE  /\ Worth(expenses', Spends(r)) <= Worth(expenses, Spends(r))
               /\ Worth(handovers', HandsOver(r)) <= Worth(handovers, HandsOver(r))
    <3> DEFINE w == HandsOver(r)
    <3>1. w[new] = 0 /\ w[old] \in Nat /\ w \in [HandoverRow -> Int]
      <4> HIDE DEF old, new
      <4> QED
        BY <2>2, RiderWeights DEF HandsOver, HandoverRow
    <3>2. Worth(expenses, Spends(r)) \in Int
      BY RiderSums
    <3>3. Worth(handovers', w) = Worth(handovers, w) - w[old] + w[new] /\ Worth(handovers, w) \in Int
      <4> HIDE DEF w, new
      <4>1. Puts(HandoverRow, w, handovers, h, new, handovers')
        BY <1>0, <2>1, <2>2, <3>1 DEF Puts
      <4> QED
        BY ONLY <4>1, WorthPut
    <3> HIDE DEF new, old
    <3> QED
      BY <2>1, <3>1, <3>2, <3>3
  <2> QED
    BY <1>1, <2>1, <2>3, <2>4
<1>8. ASSUME NEW k \in Desks, CommitUpdateExpense(k) PROVE Steady
  <2> DEFINE f == desk[k]
             x == f.id
             old == expenses[x]
             new == Patched(old, f.put)
  <2>1. /\ ExpenseFrame(f) /\ EndsTouching(k, {Rider(old.staff)}) /\ UNCHANGED <<drops, trips, handovers>>
        /\ expenses' \in {expenses, [expenses EXCEPT ![x] = new]}
    BY <1>0, <1>8 DEF CommitUpdateExpense, Holds, FieldFrame, fileVars
  <2>2. /\ x \in DOMAIN expenses /\ old \in ExpenseRow /\ Gives(f.put, Columns(scene))
        /\ "staff" \in DOMAIN f.put => Rider(f.put.staff) \in f.on
    BY <1>0, <1>00, <2>1 DEF ExpenseFrame
  <2>3. /\ new \in ExpenseRow /\ new.staff = IF "staff" \in DOMAIN f.put THEN f.put.staff ELSE old.staff
    <3> DEFINE put == f.put
    <3>1. old \in ExpenseRow /\ Gives(put, Columns(scene)) /\ new = Patched(old, put)
      BY <2>2
    <3> HIDE DEF old, put, f, new
    <3>2. new \in ExpenseRow /\ new.staff = IF "staff" \in DOMAIN put THEN put.staff ELSE old.staff
      BY <3>1, PatchedExpense
    <3> QED
      BY <3>2 DEF put
  <2>4. CrossedBy(Rider(new.staff))
    <3>1. CASE "staff" \in DOMAIN f.put
      BY <1>4, <2>1, <2>2, <2>3, <3>1
    <3>2. CASE "staff" \notin DOMAIN f.put
      <4>1. \A m \in Desks : m # k => {Rider(old.staff)} \cap desk[m].on \subseteq crossed'
        BY <2>1 DEF EndsTouching
      <4>2. desk'[k] = Idle /\ \A m \in Desks : m # k => desk'[m] = desk[m]
        BY <1>0, <2>1, EndsDesk
      <4>3. new.staff = old.staff
        BY <2>3, <3>2
      <4> HIDE DEF new, old, f
      <4> QED
        BY <4>1, <4>2, <4>3 DEF CrossedBy, Idle
    <3> QED
      BY <3>1, <3>2
  <2>5. CASE expenses' = expenses
    BY <1>2, <2>1, <2>5
  <2>6. CASE expenses' = [expenses EXCEPT ![x] = new]
    <3>1. ASSUME NEW r \in Riders
          PROVE  \/ /\ Worth(expenses', Spends(r)) <= Worth(expenses, Spends(r))
                    /\ Worth(handovers', HandsOver(r)) <= Worth(handovers, HandsOver(r))
                 \/ CrossedBy(Rider(r))
      <4>1. CASE r = new.staff
        BY <2>4, <4>1
      <4>2. CASE r # new.staff
        <5> DEFINE w == Spends(r)
        <5>1. w[new] = 0 /\ w[old] \in Nat /\ w \in [ExpenseRow -> Int]
          <6> HIDE DEF old, new
          <6> QED
            BY <2>2, <2>3, <4>2, RiderWeights DEF Spends, ExpenseRow
        <5>2. Worth(handovers, HandsOver(r)) \in Int
          BY RiderSums
        <5>3. Worth(expenses', w) = Worth(expenses, w) - w[old] + w[new] /\ Worth(expenses, w) \in Int
          <6> HIDE DEF w, new, x
          <6>1. Puts(ExpenseRow, w, expenses, x, new, expenses')
            BY <1>0, <2>2, <2>3, <2>6, <5>1 DEF Puts
          <6> QED
            BY ONLY <6>1, WorthPut
        <5> HIDE DEF new, old
        <5> QED
          BY <2>1, <5>1, <5>2, <5>3
      <4> QED
        BY <4>1, <4>2
    <3> HIDE DEF f, x, old, new
    <3> QED
      BY <1>1, <2>1, <3>1
  <2> QED
    BY <2>1, <2>5, <2>6
<1>9. ASSUME NEW x \in DOMAIN expenses, RemoveExpense(x) PROVE Steady
  <2> DEFINE old == expenses[x]
             new == [old EXCEPT !.live = FALSE]
  <2>1. expenses' = [expenses EXCEPT ![x] = new] /\ UNCHANGED <<drops, trips, handovers>>
    BY <1>9 DEF RemoveExpense, Without, fileVars
  <2>2. old \in ExpenseRow /\ new \in ExpenseRow /\ ~new.live
    <3>1. old \in ExpenseRow
      BY <1>0
    <3> HIDE DEF old
    <3> QED
      BY <3>1 DEF ExpenseRow
  <2>3. ASSUME NEW r \in Riders
        PROVE  /\ Worth(expenses', Spends(r)) <= Worth(expenses, Spends(r))
               /\ Worth(handovers', HandsOver(r)) <= Worth(handovers, HandsOver(r))
    <3> DEFINE w == Spends(r)
    <3>1. w[new] = 0 /\ w[old] \in Nat /\ w \in [ExpenseRow -> Int]
      <4> HIDE DEF old, new
      <4> QED
        BY <2>2, RiderWeights DEF Spends, ExpenseRow
    <3>2. Worth(handovers, HandsOver(r)) \in Int
      BY RiderSums
    <3>3. Worth(expenses', w) = Worth(expenses, w) - w[old] + w[new] /\ Worth(expenses, w) \in Int
      <4> HIDE DEF w, new
      <4>1. Puts(ExpenseRow, w, expenses, x, new, expenses')
        BY <1>0, <2>1, <2>2, <3>1 DEF Puts
      <4> QED
        BY ONLY <4>1, WorthPut
    <3> HIDE DEF new, old
    <3> QED
      BY <2>1, <3>1, <3>2, <3>3
  <2> QED
    BY <1>1, <2>1, <2>3
<1>10. ASSUME NEW k, NEW r, NEW amount, NEW day, BeginCreateHandover(k, r, amount, day)
       PROVE  UNCHANGED <<drops, trips, handovers, expenses>>
  BY <1>10 DEF BeginCreateHandover, fileVars, cashVars
<1>11. ASSUME NEW k, NEW c, NEW r, NEW outcome, NEW amount, NEW day, BeginVisit(k, c, r, outcome, amount, day)
       PROVE  UNCHANGED <<drops, trips, handovers, expenses>>
  BY <1>11 DEF BeginVisit, fileVars, cashVars
<1>12. ASSUME NEW k, NEW i, NEW put, BeginUpdateHandover(k, i, put) \/ BeginUpdateExpense(k, i, put)
       PROVE  UNCHANGED <<drops, trips, handovers, expenses>>
  BY <1>12 DEF BeginUpdateHandover, BeginUpdateExpense, fileVars, cashVars
<1>13. ASSUME NEW k, VisitPays(k) \/ VisitPromises(k) \/ VisitRecords(k)
       PROVE  UNCHANGED <<drops, trips, handovers, expenses>>
  BY <1>13 DEF VisitPays, VisitPromises, VisitRecords, fileVars, cashVars
<1>14. ASSUME NEW p, RemovePayment(p) PROVE UNCHANGED <<drops, trips, handovers, expenses>>
  BY <1>14 DEF RemovePayment
<1> QED
  BY <1>2, <1>3, <1>5, <1>6, <1>7, <1>8, <1>9, <1>10, <1>11, <1>12, <1>13, <1>14 DEF CashStep

(* The handover that a request is about to write is covered, unless the    *)
(* request is crossed or the handover gone.                                *)
Freed(f) == IF f.rider = handovers[f.id].rider THEN handovers[f.id].amount ELSE 0
NewCovered(f) == Apart(Rider(f.row.rider)) => f.row.amount <= Carried(f.row.rider)
ChangeCovered(f) ==
    Apart(Rider(f.rider)) /\ Apart(Handover(f.id)) /\ handovers[f.id].live
    => Patched(handovers[f.id], f.put).amount <= Carried(f.rider) + Freed(f)
FrameCovered(f) == (f.op = "newHandover" => NewCovered(f)) /\ (f.op = "handover" => ChangeCovered(f))
Covered == \A k \in Desks : FrameCovered(desk[k])

LEMMA CoveredLasts ==
    ASSUME Orderly, FieldTyped, Steady, NEW m \in Desks, FrameCovered(desk[m]), desk'[m] = desk[m]
    PROVE  FrameCovered(desk[m])'
<1>0. FieldFrame(desk[m])
  BY DEF FieldTyped
<1>1. ASSUME desk[m].op = "newHandover", NewCovered(desk[m]) PROVE NewCovered(desk[m])'
  <2> DEFINE r == desk[m].row.rider
             amount == desk[m].row.amount
  <2>1. r \in Riders /\ Rider(r) \in desk[m].on /\ amount \in Nat
    BY <1>0, <1>1 DEF FieldFrame, NewHandoverFrame, HandoverRow
  <2>2. SUFFICES ASSUME Rider(r) \notin crossed' PROVE amount <= Carried(r)'
    BY DEF NewCovered, Apart, Rider
  <2>3. Carries(r) /\ (Carried(r)' >= Carried(r) \/ CrossedBy(Rider(r))) /\ Rider(r) \notin crossed
    BY <2>1, <2>2 DEF Steady
  <2>4. ~CrossedBy(Rider(r))
    BY <2>1, <2>2 DEF CrossedBy
  <2>5. amount <= Carried(r)
    BY <1>1, <2>3 DEF NewCovered, Apart
  <2> HIDE DEF r, amount
  <2> QED
    BY <2>1, <2>3, <2>4, <2>5 DEF Carries
<1>2. ASSUME desk[m].op = "handover", ChangeCovered(desk[m]) PROVE ChangeCovered(desk[m])'
  <2> DEFINE f == desk[m]
             h == f.id
             r == f.rider
             amount == Patched(handovers[h], f.put).amount
  <2>1. r \in Riders /\ h \in DOMAIN handovers /\ Handover(h) \in f.on /\ Rider(r) \in f.on /\ Gives(f.put, Columns(scene))
    <3>1. HandoverFrame(f) /\ scene \in Scenes
      BY <1>0, <1>2 DEF FieldFrame, Orderly, Exclusive
    <3> QED
      BY <3>1, FieldInputs DEF HandoverFrame
  <2>2. CASE ~(Apart(Rider(r))' /\ Apart(Handover(h))' /\ handovers'[h].live)
    BY <2>2 DEF ChangeCovered, Rider, Handover
  <2>3. CASE Apart(Rider(r))' /\ Apart(Handover(h))' /\ handovers'[h].live
    <3>1. Rider(r) \notin crossed' /\ Handover(h) \notin crossed'
      BY <2>3 DEF Apart, Rider, Handover
    <3>2. handovers'[h] = handovers[h]
      BY <2>1, <2>3, <3>1 DEF Steady, CrossedBy
    <3>3. Carries(r) /\ Carried(r)' >= Carried(r) /\ Apart(Rider(r)) /\ Apart(Handover(h))
      BY <2>1, <3>1 DEF Steady, CrossedBy, Apart
    <3>4. amount <= Carried(r) + Freed(f)
      BY <1>2, <2>3, <3>2, <3>3 DEF ChangeCovered
    <3>5. amount \in Nat /\ Freed(f) \in Nat
      <4>1. handovers[h] \in HandoverRow
        BY <2>1, SeqDomain DEF FieldTyped, CashTables
      <4>2. handovers[h].amount \in Nat
        BY <4>1 DEF HandoverRow
      <4>3. amount \in Nat
        <5> DEFINE old == handovers[h]
                   put == f.put
                   new == Patched(old, put)
        <5>1. "amount" \in DOMAIN old
          BY <4>1 DEF HandoverRow
        <5>2. "amount" \in DOMAIN put => put.amount \in Nat
          BY <2>1 DEF Gives, Columns
        <5>3. new.amount = IF "amount" \in DOMAIN put THEN put.amount ELSE old.amount
          <6> HIDE DEF old, put
          <6> QED
            BY <5>1 DEF Patched
        <5> QED
          BY <4>2, <5>2, <5>3
      <4> QED
        BY <4>2, <4>3 DEF Freed
    <3>6. Freed(f)' = Freed(f) /\ amount' = amount
      BY <3>2 DEF Freed, Patched
    <3>7. amount' <= Carried(r)' + Freed(f)'
      <4> HIDE DEF amount, f, r
      <4> QED
        BY <3>3, <3>4, <3>5, <3>6 DEF Carries
    <3> QED
      BY <3>7 DEF ChangeCovered
  <2> QED
    BY <2>2, <2>3
<1> QED
  BY <1>1, <1>2 DEF FrameCovered

(* A new or changed handover is covered when it is read, and when it is    *)
(* written.                                                                *)
Balanced == \A r : RiderCashBalance(r) = Carried(r)

LEMMA BalancedAlways == Spec => []Balanced
<1>1. FieldTyped => Balanced
  BY BalanceWorth DEF Balanced
<1> QED
  BY <1>1, FieldTypedAlways, PTL

LEMMA FieldSteady ==
    ASSUME Orderly, FieldTyped, FieldTyped', [Next]_vars
    PROVE  Steady
<1>1. ASSUME UNCHANGED <<drops, trips, expenses, handovers>>, crossed \subseteq crossed' PROVE Steady
  <2>1. ASSUME NEW r PROVE Carries(r) /\ Carried(r)' >= Carried(r)
    <3>1. Carries(r)
      BY RiderSums
    <3>2. Carried(r)' = Carried(r)
      BY <1>1 DEF Carried
    <3> QED
      BY <3>1, <3>2 DEF Carries
  <2> QED
    BY <1>1, <2>1 DEF Steady
<1>2. CASE UNCHANGED vars
  BY <1>1, <1>2 DEF vars, fileVars, cashVars, requestVars
<1>3. CASE Next
  <2>1. /\ crossed \subseteq crossed'
        /\ \/ FileStep /\ UNCHANGED cashVars
           \/ CashStep
           \/ UNCHANGED <<fileVars, cashVars>>
    BY <1>3, StepOrderly
  <2>2. UNCHANGED <<fileVars, cashVars>> => UNCHANGED <<drops, trips, expenses, handovers>>
    BY DEF fileVars, cashVars
  <2> QED
    BY <1>1, <2>1, <2>2, FileSteady, CashSteady
<1> QED
  BY <1>2, <1>3

LEMMA CoveredStep ==
    ASSUME Orderly, FieldTyped, FieldTyped', Balanced, Covered, [Next]_vars
    PROVE  Covered'
<1>0. Steady
  BY FieldSteady
<1>1. ASSUME \A m \in Desks : desk'[m] = desk[m] \/ FrameCovered(desk[m])' PROVE Covered'
  BY <1>0, <1>1, CoveredLasts DEF Covered
<1>2. ASSUME \A m \in Desks : desk'[m] = desk[m] \/ desk'[m].op \notin {"newHandover", "handover"} PROVE Covered'
  BY <1>1, <1>2 DEF FrameCovered
<1>3. ASSUME NEW k \in Desks, NEW r \in Riders, NEW amount, NEW day, BeginCreateHandover(k, r, amount, day)
      PROVE  Covered'
  <2> DEFINE frame == [op |-> "newHandover", on |-> {Rider(r)},
                       row |-> [rider |-> r, amount |-> amount, day |-> day, live |-> TRUE]]
  <2>1. Starts(k, frame) /\ UNCHANGED <<fileVars, cashVars>> /\ amount <= Carried(r)
    BY <1>3 DEF BeginCreateHandover, Balanced
  <2>2. frame.op = "newHandover" /\ frame.row.rider = r /\ frame.row.amount = amount
    OBVIOUS
  <2> HIDE DEF frame
  <2>3. desk'[k] = frame /\ \A m \in Desks : m # k => desk'[m] = desk[m]
    BY <2>1, StartsDesk DEF Orderly
  <2>4. Carried(r)' = Carried(r)
    BY <2>1 DEF Carried, fileVars, cashVars
  <2>5. FrameCovered(desk[k])'
    BY <2>1, <2>2, <2>3, <2>4 DEF FrameCovered, NewCovered
  <2> QED
    BY <1>1, <2>3, <2>5
<1>4. ASSUME NEW k \in Desks, NEW h, NEW put, BeginUpdateHandover(k, h, put)
      PROVE  Covered'
  <2> DEFINE old == handovers[h]
             new == Patched(old, put)
             frame == [op |-> "handover", on |-> {Handover(h), Rider(old.rider), Rider(new.rider)},
                       id |-> h, put |-> put, rider |-> new.rider]
  <2>1. /\ Starts(k, frame) /\ UNCHANGED <<fileVars, cashVars>>
        /\ new.amount <= Carried(new.rider) + (IF new.rider = old.rider THEN old.amount ELSE 0)
    BY <1>4 DEF BeginUpdateHandover, Balanced
  <2>2. frame.op = "handover" /\ frame.id = h /\ frame.rider = new.rider /\ frame.put = put
    OBVIOUS
  <2>3. desk'[k] = frame /\ \A m \in Desks : m # k => desk'[m] = desk[m]
    <3> HIDE DEF frame
    <3> QED
      BY <2>1, StartsDesk DEF Orderly
  <2>4. Carried(new.rider)' = Carried(new.rider) /\ handovers' = handovers
    BY <2>1 DEF Carried, fileVars, cashVars
  <2>5. FrameCovered(desk[k])'
    <3> HIDE DEF frame
    <3>1. ChangeCovered(desk[k])'
      BY <2>1, <2>2, <2>3, <2>4 DEF ChangeCovered, Freed
    <3> QED
      BY <2>2, <2>3, <3>1 DEF FrameCovered
  <2> HIDE DEF frame, old, new
  <2> QED
    BY <1>1, <2>3, <2>5
<1>5. ASSUME NEW k \in Desks, Ends(k) \/ (\E rows : EndsTouching(k, rows)) PROVE Covered'
  <2>1. desk'[k] = Idle /\ \A m \in Desks : m # k => desk'[m] = desk[m]
    BY <1>5, EndsDesk DEF Orderly
  <2> QED
    BY <1>2, <2>1 DEF Idle
<1>6. ASSUME NEW k \in Desks, NEW frame, Starts(k, frame), frame.op \notin {"newHandover", "handover"} PROVE Covered'
  <2>1. desk'[k] = frame /\ \A m \in Desks : m # k => desk'[m] = desk[m]
    BY <1>6, StartsDesk DEF Orderly
  <2> QED
    BY <1>2, <1>6, <2>1
<1>7. ASSUME NEW k \in Desks, NEW c, NEW r, NEW outcome, NEW amount, NEW day,
             BeginVisit(k, c, r, outcome, amount, day)
      PROVE  Covered'
  <2> DEFINE frame == [op |-> "visit", on |-> {Customer(c)}, at |-> "pay",
                       row |-> [who |-> c, collector |-> r, outcome |-> outcome,
                                amount |-> amount, receipt |-> 0, day |-> day]]
  <2>1. Starts(k, frame) /\ frame.op \notin {"newHandover", "handover"}
    BY <1>7 DEF BeginVisit
  <2> HIDE DEF frame
  <2> QED
    BY <1>6, <2>1
<1>8. ASSUME NEW k \in Desks, NEW x, NEW put, BeginUpdateExpense(k, x, put) PROVE Covered'
  <2> DEFINE frame == [op |-> "expense", id |-> x, put |-> put,
                       on |-> {Expense(x), Rider(expenses[x].staff), Rider(Patched(expenses[x], put).staff)}]
  <2>1. Starts(k, frame) /\ frame.op \notin {"newHandover", "handover"}
    BY <1>8 DEF BeginUpdateExpense
  <2> HIDE DEF frame
  <2> QED
    BY <1>6, <2>1
<1>9. ASSUME NEW k \in Desks, CommitCreateHandover(k) \/ CommitUpdateHandover(k) \/ VisitRecords(k)
      PROVE  Covered'
  BY <1>5, <1>9 DEF CommitCreateHandover, CommitUpdateHandover, VisitRecords
<1>10. ASSUME NEW k \in Desks, CommitUpdateExpense(k) PROVE Covered'
  <2>1. EndsTouching(k, {Rider(expenses[desk[k].id].staff)})
    BY <1>10 DEF CommitUpdateExpense
  <2> QED
    BY <1>5, <2>1
<1>11. ASSUME NEW k \in Desks, VisitPays(k) \/ VisitPromises(k) PROVE Covered'
  <2>1. VisitFrame(desk[k])
    BY <1>11 DEF VisitPays, VisitPromises, Holds, FieldTyped, FieldFrame
  <2>2. PICK frame : desk' = [desk EXCEPT ![k] = frame] /\ frame.op = "visit"
    <3>1. CASE VisitPromises(k)
      <4> DEFINE frame == [desk[k] EXCEPT !.at = "record"]
      <4>1. desk' = [desk EXCEPT ![k] = frame] /\ desk[k].op = "visit"
        BY <3>1 DEF VisitPromises, Holds
      <4>2. frame.op = desk[k].op
        OBVIOUS
      <4> QED
        BY <4>1, <4>2
    <3>2. CASE VisitPays(k)
      <4> DEFINE paid == IF desk[k].row.amount > 0 THEN Len(receipts) + 1 ELSE 0
                 frame == [desk[k] EXCEPT !.at = "promise", !.row.receipt = paid]
      <4>1. desk' = [desk EXCEPT ![k] = frame] /\ desk[k].op = "visit"
        BY <3>2 DEF VisitPays, Holds
      <4>2. frame.op = desk[k].op
        OBVIOUS
      <4> QED
        BY <4>1, <4>2
    <3> QED
      BY <1>11, <3>1, <3>2
  <2>3. \A m \in Desks : desk'[m] = desk[m] \/ desk'[m].op = "visit"
    BY <2>2 DEF Orderly, Exclusive
  <2> QED
    BY <1>2, <2>3
<1>12. ASSUME \E rows : Touches(rows) PROVE Covered'
  BY <1>2, <1>12 DEF Touches
<1>13. ASSUME NEW staff, NEW byRider, NEW amount, NEW day, CreateExpense(staff, byRider, amount, day) PROVE Covered'
  BY <1>12, <1>13 DEF CreateExpense
<1>14. ASSUME NEW i, RemoveHandover(i) \/ RemoveExpense(i) \/ RemovePayment(i) PROVE Covered'
  BY <1>12, <1>14 DEF RemoveHandover, RemoveExpense, RemovePayment
<1>15. CASE CashStep
  BY <1>3, <1>4, <1>7, <1>8, <1>9, <1>10, <1>11, <1>13, <1>14, <1>15 DEF CashStep
<1>16. ASSUME NEW ops \in {FactoryOps, FileOps, CatalogOps, {}}, Own(ops) PROVE Covered'
  BY <1>2, <1>16 DEF Own, FactoryOps, FileOps, CatalogOps
<1>17. CASE Next
  <2>1. CashStep \/ \E ops \in {FactoryOps, FileOps, CatalogOps, {}} : Own(ops)
    BY <1>17, StepOrderly
  <2> QED
    BY <1>15, <1>16, <2>1
<1>18. CASE UNCHANGED vars
  BY <1>2, <1>18 DEF vars, requestVars
<1> QED
  BY <1>17, <1>18

LEMMA CoveredAlways == Spec => []Covered
<1>1. Init => Covered
  BY DEF Init, Covered, FrameCovered, Idle
<1>2. Orderly /\ FieldTyped /\ FieldTyped' /\ Balanced /\ Covered /\ [Next]_vars => Covered'
  BY CoveredStep
<1> QED
  BY <1>1, <1>2, OrderlyAlways, FieldTypedAlways, BalancedAlways, PTL DEF Spec

LEMMA CoveredWhenWritten ==
    ASSUME Orderly, FieldTyped, FieldTyped', Covered, CashStep, crossed \subseteq crossed',
           NEW r \in Riders, Rider(r) \notin crossed', NEW h \in Live(handovers'), handovers'[h].rider = r,
           Handover(h) \notin crossed', h \in DOMAIN handovers => handovers'[h] # handovers[h]
    PROVE  Carried(r)' >= 0
<1>0. /\ Exclusive /\ (\A k \in Desks : FieldFrame(desk[k]) /\ FrameCovered(desk[k]))
      /\ handovers \in Seq(HandoverRow) /\ (\A n \in DOMAIN handovers : handovers[n] \in HandoverRow)
      /\ h \in DOMAIN handovers' /\ handovers'[h].live
  BY SeqDomain DEF FieldTyped, CashTables, Orderly, Live, Covered
<1>00. \A put \in scene.edits : Gives(put, Columns(scene))
  BY FieldInputs DEF Orderly, Exclusive
<1>1. handovers' = handovers => FALSE
  BY <1>0
<1>2. ASSUME UNCHANGED <<drops, trips, expenses>>, NEW d \in Int, Carried(r) >= d,
             Worth(handovers', HandsOver(r)) = Worth(handovers, HandsOver(r)) + d
      PROVE  Carried(r)' >= 0
  <2> DEFINE c == Worth(drops, Collects(r, trips))
             e == Worth(expenses, Spends(r))
             g == Worth(handovers, HandsOver(r))
             gg == Worth(handovers', HandsOver(r))
  <2>1. c \in Int /\ e \in Int /\ g \in Int /\ gg \in Int /\ Carried(r) = c - e - g /\ Carried(r)' = c - e - gg
    BY <1>2, RiderSums
  <2>2. gg = g + d /\ Carried(r) >= d
    BY <1>2
  <2> HIDE DEF c, e, g, gg
  <2> QED
    BY <1>2, <2>1, <2>2
<1>3. ASSUME NEW k \in Desks, CommitCreateHandover(k) PROVE Carried(r)' >= 0
  <2> DEFINE row == desk[k].row
             w == HandsOver(r)
  <2>1. /\ NewHandoverFrame(desk[k]) /\ NewCovered(desk[k]) /\ handovers' = Append(handovers, row)
        /\ UNCHANGED <<drops, trips, expenses>>
    BY <1>0, <1>3 DEF CommitCreateHandover, Holds, FieldFrame, FrameCovered, fileVars
  <2>2. row \in HandoverRow /\ row.live
    BY <2>1 DEF NewHandoverFrame
  <2>3. h = Len(handovers) + 1 /\ handovers'[h] = row
    <3> HIDE DEF row
    <3> QED
      BY <1>0, <2>1, <2>2, Appended
  <2>4. row.rider = r /\ row.amount \in Int
    BY <1>0, <2>2, <2>3 DEF HandoverRow
  <2>5. row.amount <= Carried(r)
    BY <2>1, <2>4 DEF NewCovered, Apart
  <2>6. w[row] = row.amount /\ w \in [HandoverRow -> Int]
    BY <2>2, <2>4, RiderWeights DEF HandsOver
  <2>7. Worth(handovers', w) = Worth(handovers, w) + w[row]
    <3> HIDE DEF w, row
    <3>1. Adds(HandoverRow, w, handovers, row, handovers')
      BY <1>0, <2>1, <2>2, <2>6 DEF Adds
    <3> QED
      BY <3>1, WorthAdd
  <2>8. Carried(r) \in Int
    BY RiderSums DEF Carries
  <2> HIDE DEF row
  <2> QED
    BY <1>2, <2>1, <2>4, <2>5, <2>6, <2>7, <2>8
<1>4. ASSUME NEW k \in Desks, CommitUpdateHandover(k) PROVE Carried(r)' >= 0
  <2> DEFINE f == desk[k]
             i == f.id
             old == handovers[i]
             mid == Patched(old, f.put)
             new == [mid EXCEPT !.rider = f.rider]
             w == HandsOver(r)
  <2>1. /\ HandoverFrame(f) /\ ChangeCovered(f) /\ UNCHANGED <<drops, trips, expenses>>
        /\ handovers' \in {handovers, [handovers EXCEPT ![i] = new]}
    BY <1>0, <1>4 DEF CommitUpdateHandover, Holds, FieldFrame, FrameCovered, fileVars
  <2>2. /\ i \in DOMAIN handovers /\ old \in HandoverRow /\ Gives(f.put, Columns(scene)) /\ f.rider \in Riders
    BY <1>0, <1>00, <2>1 DEF HandoverFrame
  <2>3. new \in HandoverRow /\ new.rider = f.rider /\ new.amount = mid.amount /\ (new.live <=> old.live)
    <3> HIDE DEF f, old
    <3> QED
      BY <2>2, PatchedHandover
  <2>4. Puts(HandoverRow, w, handovers, i, new, handovers') /\ h = i /\ handovers'[i] = new
    <3>1. w \in [HandoverRow -> Int]
      BY RiderWeights
    <3>2. handovers' = [handovers EXCEPT ![i] = new]
      BY <1>1, <2>1
    <3> HIDE DEF w, new, i
    <3> QED
      BY <1>0, <2>2, <2>3, <3>1, <3>2 DEF Puts
  <2>5. f.rider = r /\ old.live /\ new.live
    BY <1>0, <2>3, <2>4
  <2>6. Apart(Rider(r)) /\ Apart(Handover(i))
    BY <2>4 DEF Apart
  <2>7. mid.amount <= Carried(r) + Freed(f)
    BY <2>1, <2>5, <2>6 DEF ChangeCovered
  <2>8. w[old] = Freed(f) /\ w[new] = mid.amount /\ w[old] \in Int /\ w[new] \in Int
    <3>1. Freed(f) = IF r = old.rider THEN old.amount ELSE 0
      BY <2>5 DEF Freed
    <3> HIDE DEF f, mid, new, old
    <3> QED
      BY <2>2, <2>3, <2>5, <3>1 DEF HandsOver, HandoverRow
  <2>9. Worth(handovers', w) = Worth(handovers, w) - w[old] + w[new] /\ Worth(handovers, w) \in Int
    <3> HIDE DEF w, new, i
    <3> QED
      BY <2>4, WorthPut
  <2>10. Carried(r) \in Int
    BY RiderSums DEF Carries
  <2> DEFINE d == w[new] - w[old]
  <2>11. d \in Int /\ Carried(r) >= d /\ Worth(handovers', w) = Worth(handovers, w) + d
    <3> HIDE DEF w, new, old, mid, f
    <3> QED
      BY <2>7, <2>8, <2>9, <2>10
  <2> HIDE DEF d
  <2> QED
    BY <1>2, <2>1, <2>11
<1>5. ASSUME NEW i \in DOMAIN handovers, RemoveHandover(i) PROVE FALSE
  <2> DEFINE new == [handovers[i] EXCEPT !.live = FALSE]
  <2>1. handovers' = [handovers EXCEPT ![i] = new]
    BY <1>5 DEF RemoveHandover, Without
  <2>2. ~new.live
    BY <1>0 DEF HandoverRow
  <2> HIDE DEF new
  <2> QED
    BY <1>0, <2>1, <2>2
<1>6. ASSUME NEW k, NEW c, NEW amount, NEW day,
             BeginCreateHandover(k, c, amount, day) \/ \E r1, outcome : BeginVisit(k, c, r1, outcome, amount, day)
      PROVE  FALSE
  BY <1>1, <1>6 DEF BeginCreateHandover, BeginVisit, cashVars
<1>7. ASSUME NEW k, NEW i, NEW put, BeginUpdateHandover(k, i, put) \/ BeginUpdateExpense(k, i, put) PROVE FALSE
  BY <1>1, <1>7 DEF BeginUpdateHandover, BeginUpdateExpense, cashVars
<1>8. ASSUME NEW k, VisitPays(k) \/ VisitPromises(k) \/ VisitRecords(k) \/ CommitUpdateExpense(k) PROVE FALSE
  BY <1>1, <1>8 DEF VisitPays, VisitPromises, VisitRecords, CommitUpdateExpense, cashVars
<1>9. ASSUME NEW staff, NEW byRider, NEW amount, NEW day, CreateExpense(staff, byRider, amount, day) PROVE FALSE
  BY <1>1, <1>9 DEF CreateExpense
<1>10. ASSUME NEW i, RemoveExpense(i) \/ RemovePayment(i) PROVE FALSE
  BY <1>1, <1>10 DEF RemoveExpense, RemovePayment
<1> QED
  BY <1>3, <1>4, <1>5, <1>6, <1>7, <1>8, <1>9, <1>10 DEF CashStep

(* Handovers are covered: of a rider whose cash, and of a handover, that   *)
(* no two requests handled at once, no new or changed handover takes more  *)
(* than the rider carries (cash-handovers.service.ts create, update).      *)
THEOREM CashCovered == Spec => HandoverCovered
<1> DEFINE A == \A r \in Riders :
                   /\ \E h \in Live(handovers') : handovers'[h].rider = r /\ Handover(h) \notin crossed'
                                                  /\ (h \in DOMAIN handovers => handovers'[h] # handovers[h])
                   /\ Rider(r) \notin crossed'
                   => RiderCashBalance(r)' >= 0
<1>1. Orderly /\ FieldTyped /\ FieldTyped' /\ Balanced' /\ Covered /\ [Next]_vars => [A]_vars
  <2> SUFFICES ASSUME Orderly, FieldTyped, FieldTyped', Balanced', Covered, Next,
                      NEW r \in Riders, Rider(r) \notin crossed', NEW h \in Live(handovers'), handovers'[h].rider = r,
                      Handover(h) \notin crossed', h \in DOMAIN handovers => handovers'[h] # handovers[h]
               PROVE  RiderCashBalance(r)' >= 0
    OBVIOUS
  <2>1. RiderCashBalance(r)' = Carried(r)'
    BY DEF Balanced
  <2>2. crossed \subseteq crossed' /\ (CashStep \/ UNCHANGED cashVars)
    BY StepOrderly
  <2>3. CASE CashStep
    BY <2>1, <2>2, <2>3, CoveredWhenWritten
  <2>4. CASE UNCHANGED cashVars
    BY <2>4 DEF cashVars, Live
  <2> QED
    BY <2>2, <2>3, <2>4
<1>2. HandoverCovered <=> [][A]_vars
  BY DEF HandoverCovered
<1> HIDE DEF A
<1> QED
  BY <1>1, <1>2, OrderlyAlways, FieldTypedAlways, BalancedAlways, CoveredAlways, PTL DEF Spec

-----------------------------------------------------------------------------
(* Ledgers: what is added for one customer leaves the rows of the others,  *)
(* and what is not an opening leaves the openings.                         *)
RowsOf(table, c) == {i \in DOMAIN table : table[i].who = c}
SameRows(table, new, c) == RowsOf(new, c) = RowsOf(table, c) /\ \A i \in RowsOf(table, c) : new[i] = table[i]
OpenRows(table, c) == {i \in RowsOf(table, c) : table[i].type = "OPENING_BALANCE"}
SameOpen(table, new, c) == OpenRows(new, c) = OpenRows(table, c) /\ \A i \in OpenRows(table, c) : new[i] = table[i]
SameOwners(table, new) == \A i \in DOMAIN table : i \in DOMAIN new /\ new[i].who = table[i].who
Ledger(table, new, d) ==
    /\ new \in Seq(EntryRow) /\ SameOwners(table, new)
    /\ \A c : SameOpen(table, new, c) /\ (c # d => SameRows(table, new, c))

FleetRows(table) == {i \in DOMAIN table : table[i].type = "OPENING_ON_HAND"}
Shelf(table, new, d) ==
    /\ new \in Seq(CanRow) /\ FleetRows(new) = FleetRows(table)
    /\ \A c : c # d => SameRows(table, new, c)

LEMMA SameLedger ==
    ASSUME NEW table \in Seq(EntryRow), NEW d
    PROVE  Ledger(table, table, d)
BY DEF Ledger, SameOwners, SameOpen, SameRows

LEMMA SameShelf ==
    ASSUME NEW table \in Seq(CanRow), NEW d
    PROVE  Shelf(table, table, d)
BY DEF Shelf, SameRows

LEMMA LedgerEntry ==
    ASSUME NEW table \in Seq(EntryRow), NEW d \in Customers, NEW amount \in Int, NEW type \in EntryTypes,
           type # "OPENING_BALANCE", NEW new, new = table \o Entry(d, type, amount)
    PROVE  Ledger(table, new, d)
<1>1. CASE amount = 0
  <2>1. new = table
    BY <1>1 DEF Entry
  <2> QED
    BY <2>1, SameLedger
<1>2. CASE amount # 0
  <2> DEFINE row == [who |-> d, type |-> type, amount |-> amount]
             n == Len(table) + 1
  <2>1. row \in EntryRow /\ row.who = d /\ row.type = type
    BY DEF EntryRow
  <2>2. new = Append(table, row)
    BY <1>2, <2>1 DEF Entry
  <2>3. /\ new \in Seq(EntryRow) /\ DOMAIN new = DOMAIN table \cup {n} /\ n \notin DOMAIN table
        /\ new[n] = row /\ \A i \in DOMAIN table : new[i] = table[i]
    <3> HIDE DEF row
    <3> QED
      BY <2>1, <2>2, Appended
  <2> HIDE DEF row, n
  <2>4. SameOwners(table, new)
    BY <2>3 DEF SameOwners
  <2>5. \A c : SameOpen(table, new, c)
    BY <2>1, <2>3 DEF SameOpen, OpenRows, RowsOf
  <2>6. \A c : c # d => SameRows(table, new, c)
    BY <2>1, <2>3 DEF SameRows, RowsOf
  <2> QED
    BY <2>3, <2>4, <2>5, <2>6 DEF Ledger
<1> QED
  BY <1>1, <1>2

LEMMA ShelfCans ==
    ASSUME NEW table \in Seq(CanRow), NEW d \in Customers \cup {Nobody}, NEW qty \in Int, NEW type \in CanTypes,
           type # "OPENING_ON_HAND", NEW new, new = table \o Cans(d, type, qty)
    PROVE  Shelf(table, new, d)
<1>1. CASE qty = 0
  <2>1. new = table
    BY <1>1 DEF Cans
  <2> QED
    BY <2>1, SameShelf
<1>2. CASE qty # 0
  <2> DEFINE row == [who |-> d, type |-> type, qty |-> qty]
             n == Len(table) + 1
  <2>1. row \in CanRow /\ row.who = d /\ row.type = type
    BY DEF CanRow
  <2>2. new = Append(table, row)
    BY <1>2, <2>1 DEF Cans
  <2>3. /\ new \in Seq(CanRow) /\ DOMAIN new = DOMAIN table \cup {n} /\ n \notin DOMAIN table
        /\ new[n] = row /\ \A i \in DOMAIN table : new[i] = table[i]
    <3> HIDE DEF row
    <3> QED
      BY <2>1, <2>2, Appended
  <2> HIDE DEF row, n
  <2>4. FleetRows(new) = FleetRows(table)
    BY <2>1, <2>3 DEF FleetRows
  <2>5. \A c : c # d => SameRows(table, new, c)
    BY <2>1, <2>3 DEF SameRows, RowsOf
  <2> QED
    BY <2>3, <2>4, <2>5 DEF Shelf
<1> QED
  BY <1>1, <1>2

LEMMA LedgerTwice ==
    ASSUME NEW a, NEW b, NEW e, NEW d, Ledger(a, b, d), Ledger(b, e, d)
    PROVE  Ledger(a, e, d)
<1>1. \A c : SameOpen(a, e, c)
  BY DEF Ledger, SameOpen
<1>2. \A c : c # d => SameRows(a, e, c)
  BY DEF Ledger, SameRows
<1>3. SameOwners(a, e)
  BY DEF Ledger, SameOwners
<1> QED
  BY <1>1, <1>2, <1>3 DEF Ledger

LEMMA ShelfTwice ==
    ASSUME NEW a, NEW b, NEW e, NEW d, Shelf(a, b, d), Shelf(b, e, d)
    PROVE  Shelf(a, e, d)
BY DEF Shelf, SameRows

(* What follows from the rows of a customer is not disturbed while they    *)
(* are the same.                                                           *)
LEMMA SameAccount ==
    ASSUME NEW c, SameRows(entries, entries', c), SameRows(cans, cans', c)
    PROVE  /\ CanDeactivate(c)' <=> CanDeactivate(c)
           /\ Openings(c)' = Openings(c)
<1>1. EntriesOf(c) = RowsOf(entries, c) /\ EntriesOf(c)' = RowsOf(entries', c)
  BY DEF EntriesOf, RowsOf
<1>2. EntriesOf(c)' = EntriesOf(c) /\ \A i \in EntriesOf(c) : entries'[i] = entries[i]
  BY <1>1 DEF SameRows
<1>3. CansOf(c)' = CansOf(c) /\ \A i \in CansOf(c) : cans'[i] = cans[i]
  BY DEF SameRows, RowsOf, CansOf
<1>4. Openings(c)' = Openings(c)
  BY <1>2 DEF Openings
<1>5. Balance(c)' = Balance(c)
  <2> DEFINE T == {i \in EntriesOf(c) : entries[i].type # "deleted"}
             TT == {i \in EntriesOf(c)' : entries'[i].type # "deleted"}
  <2>1. TT = T /\ \A i \in T : entries'[i].amount = entries[i].amount
    BY <1>2
  <2>2. [i \in TT |-> entries'[i].amount] = [i \in T |-> entries[i].amount]
    <3> HIDE DEF T, TT
    <3> QED
      BY <2>1
  <2>3. Balance(c)' = SumFunction([i \in TT |-> entries'[i].amount])
    BY DEF Balance, Amount
  <2>4. Balance(c) = SumFunction([i \in T |-> entries[i].amount])
    BY DEF Balance, Amount
  <2> QED
    BY <2>2, <2>3, <2>4
<1>6. ContainerBalance(c)' = ContainerBalance(c)
  <2>1. [i \in CansOf(c)' |-> WithCustomer(cans'[i])] = [i \in CansOf(c) |-> WithCustomer(cans[i])]
    BY <1>3
  <2> QED
    BY <2>1 DEF ContainerBalance, WithCustomer
<1> QED
  BY <1>4, <1>5, <1>6 DEF CanDeactivate

-----------------------------------------------------------------------------
(* What a step does to the customers' files: nothing but to add rows to    *)
(* one account that no uncrossed request has looked at, unless it is one   *)
(* of five.                                                                *)
CrossedFor(c) == \A m \in Desks : desk'[m].op = "customer" /\ Customer(c) \in desk'[m].on => Customer(c) \in crossed'
Routine(d) ==
    /\ Ledger(entries, entries', d) /\ Shelf(cans, cans', d)
    /\ \A c \in Customers : files'[c].status = files[c].status /\ files'[c].opening = files[c].opening
Quiet == crossed \subseteq crossed' /\ \A m \in Desks : desk'[m] = desk[m] \/ desk'[m].op \notin FileOps
Posts == \E d \in Customers \cup {Nobody} : Routine(d) /\ (d \in Customers => CrossedFor(d))

LEMMA RoutineSame ==
    ASSUME FieldTyped, UNCHANGED <<files, entries, cans>>
    PROVE  Posts
<1>1. Ledger(entries, entries', Nobody) /\ Shelf(cans, cans', Nobody)
  BY SameLedger, SameShelf DEF FieldTyped, FileTables
<1>2. Nobody \notin Customers
  BY OfficeAssumption
<1> QED
  BY <1>1, <1>2 DEF Posts, Routine

LEMMA TouchedFor ==
    ASSUME NEW rows, Touches(rows), NEW c, Customer(c) \in rows
    PROVE  CrossedFor(c)
BY DEF Touches, CrossedFor

LEMMA FileRoutine ==
    ASSUME Orderly, FieldTyped, FieldTyped', FileStep, crossed \subseteq crossed'
    PROVE  \/ Quiet /\ Posts
           \/ \E k \in Desks, c \in scene.who :
                  (\E put \in scene.puts : BeginUpdateCustomer(k, c, put)) \/ BeginDeactivate(k, c)
           \/ \E k \in Desks, qty \in scene.loads : BeginSetOpening(k, qty)
           \/ \E k \in Desks : CommitUpdateCustomer(k) \/ CommitSetOpening(k)
           \/ \E c \in scene.who, opening \in scene.amounts, holds \in scene.loads, status \in {"ACTIVE", "INACTIVE"} :
                  CreateCustomer(c, opening, holds, status)
<1>0. /\ Exclusive /\ entries \in Seq(EntryRow) /\ cans \in Seq(CanRow)
      /\ \A d \in DOMAIN drops : drops[d] \in DropRow
      /\ Nobody \notin Customers
  BY SeqDomain, OfficeAssumption DEF FieldTyped, FileTables, Orderly
<1>00. /\ scene.who \subseteq Customers /\ scene.stops \subseteq Stop /\ scene.deltas \subseteq Int
  BY <1>0, FieldInputs DEF Exclusive
<1>1. ASSUME \/ \E rows : Touches(rows) \/ UNCHANGED requestVars PROVE Quiet
  BY <1>0, <1>1, TouchesDesk DEF Quiet
<1>2. ASSUME NEW c \in scene.who, NEW s \in scene.stops, NEW t \in DOMAIN trips, Deliver(t, c, s)
      PROVE  Quiet /\ Posts
  <2> DEFINE mid == entries \o Entry(c, "DELIVERY_SALE", s.sale)
             half == cans \o Cans(c, "DELIVERED_TO_CUSTOMER", s.out)
  <2>1. /\ entries' = mid \o Entry(c, "PAYMENT", -s.cash)
        /\ cans' = half \o Cans(c, "RETURNED_FROM_CUSTOMER", s.back)
        /\ Touches({Customer(c), Rider(trips[t].rider)}) /\ files' = files
    BY <1>2 DEF Deliver
  <2>2. c \in Customers /\ s.out \in Int /\ s.back \in Int /\ s.sale \in Int /\ -s.cash \in Int
    BY <1>00 DEF Stop
  <2>3. Ledger(entries, mid, c)
    <3>1. "DELIVERY_SALE" \in EntryTypes /\ "DELIVERY_SALE" # "OPENING_BALANCE"
      BY DEF EntryTypes
    <3> QED
      BY <1>0, <2>2, <3>1, LedgerEntry
  <2>4. Ledger(mid, entries', c)
    <3>1. "PAYMENT" \in EntryTypes /\ "PAYMENT" # "OPENING_BALANCE"
      BY DEF EntryTypes
    <3>2. mid \in Seq(EntryRow)
      BY <2>3 DEF Ledger
    <3> HIDE DEF mid
    <3> QED
      BY <2>1, <2>2, <3>1, <3>2, LedgerEntry
  <2>5. Shelf(cans, half, c)
    <3>1. "DELIVERED_TO_CUSTOMER" \in CanTypes /\ "DELIVERED_TO_CUSTOMER" # "OPENING_ON_HAND"
      BY DEF CanTypes
    <3> QED
      BY <1>0, <2>2, <3>1, ShelfCans
  <2>6. Shelf(half, cans', c)
    <3>1. "RETURNED_FROM_CUSTOMER" \in CanTypes /\ "RETURNED_FROM_CUSTOMER" # "OPENING_ON_HAND"
      BY DEF CanTypes
    <3>2. half \in Seq(CanRow)
      BY <2>5 DEF Shelf
    <3> HIDE DEF half
    <3> QED
      BY <2>1, <2>2, <3>1, <3>2, ShelfCans
  <2> HIDE DEF mid, half
  <2>7. Ledger(entries, entries', c) /\ Shelf(cans, cans', c)
    BY <2>3, <2>4, <2>5, <2>6, LedgerTwice, ShelfTwice
  <2>8. CrossedFor(c) /\ Quiet
    <3>1. Customer(c) \in {Customer(c), Rider(trips[t].rider)}
      OBVIOUS
    <3> QED
      BY <1>1, <2>1, <3>1, TouchedFor
  <2> QED
    BY <2>1, <2>2, <2>7, <2>8 DEF Posts, Routine
<1>3. ASSUME NEW d \in DOMAIN drops, CancelDrop(d) PROVE Quiet /\ Posts
  <2> DEFINE s == drops[d]
             c == s.who
             mid == entries \o Entry(c, "ADJUSTMENT", -s.sale)
             half == cans \o Cans(c, "ADJUSTMENT", -s.out)
  <2>1. /\ entries' = mid \o Entry(c, "ADJUSTMENT", s.cash)
        /\ cans' = half \o Cans(c, "ADJUSTMENT", -s.back)
        /\ Touches({Customer(c), Rider(trips[s.trip].rider)}) /\ files' = files
    BY <1>3 DEF CancelDrop
  <2>2. c \in Customers /\ -s.out \in Int /\ -s.back \in Int /\ -s.sale \in Int /\ s.cash \in Int
    <3>1. s \in DropRow
      BY <1>0
    <3> QED
      BY <3>1 DEF DropRow
  <2>3. /\ "ADJUSTMENT" \in EntryTypes /\ "ADJUSTMENT" # "OPENING_BALANCE"
        /\ "ADJUSTMENT" \in CanTypes /\ "ADJUSTMENT" # "OPENING_ON_HAND"
    BY DEF EntryTypes, CanTypes
  <2> HIDE DEF s, c
  <2>4. Ledger(entries, mid, c)
    BY <1>0, <2>2, <2>3, LedgerEntry
  <2>5. Ledger(mid, entries', c)
    <3>2. mid \in Seq(EntryRow)
      BY <2>4 DEF Ledger
    <3> HIDE DEF mid
    <3> QED
      BY <2>1, <2>2, <2>3, <3>2, LedgerEntry
  <2>6. Shelf(cans, half, c)
    BY <1>0, <2>2, <2>3, ShelfCans
  <2>7. Shelf(half, cans', c)
    <3>2. half \in Seq(CanRow)
      BY <2>6 DEF Shelf
    <3> HIDE DEF half
    <3> QED
      BY <2>1, <2>2, <2>3, <3>2, ShelfCans
  <2> HIDE DEF mid, half
  <2>8. Ledger(entries, entries', c) /\ Shelf(cans, cans', c)
    BY <2>4, <2>5, <2>6, <2>7, LedgerTwice, ShelfTwice
  <2>9. CrossedFor(c) /\ Quiet
    <3>1. Customer(c) \in {Customer(c), Rider(trips[s.trip].rider)}
      OBVIOUS
    <3> QED
      BY <1>1, <2>1, <3>1, TouchedFor
  <2> QED
    BY <2>1, <2>2, <2>8, <2>9 DEF Posts, Routine
<1>4. ASSUME NEW c \in scene.who, NEW delta \in scene.deltas, AdjustContainers(c, delta) PROVE Quiet /\ Posts
  <2>1. cans' = cans \o Cans(c, "ADJUSTMENT", delta) /\ Touches({Customer(c)}) /\ UNCHANGED <<files, entries>>
    BY <1>4 DEF AdjustContainers
  <2>2. Shelf(cans, cans', c)
    <3>1. "ADJUSTMENT" \in CanTypes /\ "ADJUSTMENT" # "OPENING_ON_HAND" /\ delta \in Int /\ c \in Customers
      BY <1>00 DEF CanTypes
    <3> QED
      BY <1>0, <2>1, <3>1, ShelfCans
  <2>3. Ledger(entries, entries', c)
    BY <1>0, <2>1, SameLedger
  <2>4. CrossedFor(c) /\ Quiet
    BY <1>1, <2>1, TouchedFor
  <2> QED
    BY <1>00, <2>1, <2>2, <2>3, <2>4 DEF Posts, Routine
<1>5. ASSUME NEW c \in scene.who, NEW s \in scene.stops, HandOver(c, s) PROVE Quiet /\ Posts
  <2> DEFINE half == cans \o Cans(c, "DELIVERED_TO_CUSTOMER", s.out)
  <2>1. /\ cans' = half \o Cans(c, "RETURNED_FROM_CUSTOMER", s.back)
        /\ Touches({Customer(c)}) /\ UNCHANGED <<files, entries>>
    BY <1>5 DEF HandOver
  <2>2. c \in Customers /\ s.out \in Int /\ s.back \in Int
    BY <1>00 DEF Stop
  <2>5. Shelf(cans, half, c)
    <3>1. "DELIVERED_TO_CUSTOMER" \in CanTypes /\ "DELIVERED_TO_CUSTOMER" # "OPENING_ON_HAND"
      BY DEF CanTypes
    <3> QED
      BY <1>0, <2>2, <3>1, ShelfCans
  <2>6. Shelf(half, cans', c)
    <3>1. "RETURNED_FROM_CUSTOMER" \in CanTypes /\ "RETURNED_FROM_CUSTOMER" # "OPENING_ON_HAND"
      BY DEF CanTypes
    <3>2. half \in Seq(CanRow)
      BY <2>5 DEF Shelf
    <3> HIDE DEF half
    <3> QED
      BY <2>1, <2>2, <3>1, <3>2, ShelfCans
  <2> HIDE DEF half
  <2>7. Ledger(entries, entries', c) /\ Shelf(cans, cans', c)
    BY <1>0, <2>1, <2>5, <2>6, SameLedger, ShelfTwice
  <2>8. CrossedFor(c) /\ Quiet
    BY <1>1, <2>1, TouchedFor
  <2> QED
    BY <2>1, <2>2, <2>7, <2>8 DEF Posts, Routine
<1>6. ASSUME NEW type \in {"ADJUSTMENT", "LOST", "DAMAGED"}, NEW delta \in scene.deltas, AdjustOwned(type, delta)
      PROVE  Quiet /\ Posts
  <2>1. cans' = cans \o Cans(Nobody, type, delta) /\ UNCHANGED requestVars /\ UNCHANGED <<files, entries>>
    BY <1>6 DEF AdjustOwned
  <2>2. Shelf(cans, cans', Nobody)
    <3>1. type \in CanTypes /\ type # "OPENING_ON_HAND" /\ delta \in Int
      BY <1>00 DEF CanTypes
    <3> QED
      BY <1>0, <2>1, <3>1, ShelfCans
  <2>3. Ledger(entries, entries', Nobody)
    BY <1>0, <2>1, SameLedger
  <2> QED
    BY <1>0, <1>1, <2>1, <2>2, <2>3 DEF Posts, Routine
<1>7. ASSUME NEW r, NEW filled, NEW empty, OpenTrip(r, filled, empty) PROVE Quiet /\ Posts
  BY <1>1, <1>7, RoutineSame DEF OpenTrip
<1>8. ASSUME NEW t, NEW filled, NEW empty, ReloadTrip(t, filled, empty) PROVE Quiet /\ Posts
  BY <1>1, <1>8, RoutineSame DEF ReloadTrip
<1>9. ASSUME NEW t, NEW counted, CloseTrip(t, counted) PROVE Quiet /\ Posts
  BY <1>1, <1>9, RoutineSame DEF CloseTrip
<1> QED
  BY <1>2, <1>3, <1>4, <1>5, <1>6, <1>7, <1>8, <1>9 DEF FileStep

LEMMA CashRoutine ==
    ASSUME Orderly, FieldTyped, FieldTyped', CashStep
    PROVE  Posts
<1>0. /\ Exclusive /\ entries \in Seq(EntryRow) /\ cans \in Seq(CanRow)
      /\ files \in [Customers -> FileRow]
      /\ \A p \in DOMAIN receipts : receipts[p] \in ReceiptRow
      /\ \A k \in Desks : FieldFrame(desk[k])
  BY SeqDomain DEF FieldTyped, FileTables, CashTables, Orderly
<1>1. ASSUME NEW c \in Customers, NEW type \in EntryTypes, type # "OPENING_BALANCE", NEW amount \in Int,
             entries' = entries \o Entry(c, type, amount), cans' = cans, CrossedFor(c),
             \A d \in Customers : files'[d].status = files[d].status /\ files'[d].opening = files[d].opening
      PROVE  Posts
  <2>1. Ledger(entries, entries', c)
    BY <1>0, <1>1, LedgerEntry
  <2>2. Shelf(cans, cans', c)
    BY <1>0, <1>1, SameShelf
  <2> QED
    BY <1>1, <2>1, <2>2 DEF Posts, Routine
<1>2. ASSUME NEW c \in Customers, NEW put, files' = [files EXCEPT ![c].promised = put]
      PROVE  \A d \in Customers : files'[d].status = files[d].status /\ files'[d].opening = files[d].opening
  <2> DEFINE row == [files[c] EXCEPT !.promised = put]
  <2>1. files' = [files EXCEPT ![c] = row]
    BY <1>2
  <2>2. row.status = files[c].status /\ row.opening = files[c].opening
    OBVIOUS
  <2> HIDE DEF row
  <2> QED
    BY <1>0, <2>1, <2>2
<1>3. ASSUME NEW p \in DOMAIN receipts, RemovePayment(p) PROVE Posts
  <2>1. /\ entries' = entries \o Entry(receipts[p].who, "ADJUSTMENT", receipts[p].amount)
        /\ Touches({Customer(receipts[p].who)}) /\ UNCHANGED <<files, cans>>
    BY <1>3 DEF RemovePayment
  <2>2. receipts[p].who \in Customers /\ receipts[p].amount \in Int
    BY <1>0 DEF ReceiptRow
  <2>3. "ADJUSTMENT" \in EntryTypes /\ "ADJUSTMENT" # "OPENING_BALANCE"
    BY DEF EntryTypes
  <2>4. CrossedFor(receipts[p].who)
    BY <2>1, TouchedFor
  <2> QED
    BY <1>1, <2>1, <2>2, <2>3, <2>4
<1>4. ASSUME NEW k \in Desks, VisitPromises(k) PROVE Posts
  <2>1. VisitFrame(desk[k])
    BY <1>0, <1>4 DEF VisitPromises, Holds, FieldFrame
  <2>2. desk[k].row.who \in Customers
    BY <2>1 DEF VisitFrame, VisitRow
  <2>3. UNCHANGED <<entries, cans>>
    BY <1>4 DEF VisitPromises
  <2>4. \A d \in Customers : files'[d].status = files[d].status /\ files'[d].opening = files[d].opening
    BY <1>2, <1>4, <2>2 DEF VisitPromises
  <2>5. Ledger(entries, entries', Nobody) /\ Shelf(cans, cans', Nobody) /\ Nobody \notin Customers
    BY <1>0, <2>3, SameLedger, SameShelf, OfficeAssumption
  <2> QED
    BY <2>4, <2>5 DEF Posts, Routine
<1>5. ASSUME NEW k \in Desks, VisitPays(k) PROVE Posts
  <2> DEFINE row == desk[k].row
             c == row.who
             paid == IF desk[k].row.amount > 0 THEN Len(receipts) + 1 ELSE 0
             frame == [desk[k] EXCEPT !.at = "promise", !.row.receipt = paid]
  <2>1. VisitFrame(desk[k]) /\ desk[k].op = "visit" /\ desk' = [desk EXCEPT ![k] = frame] /\ crossed' = crossed
    <3>1. desk[k].op = "visit" /\ crossed' = crossed
      BY <1>5 DEF VisitPays, Holds
    <3>2. desk' = [desk EXCEPT ![k] = frame]
      BY <1>5 DEF VisitPays, Holds
    <3>3. VisitFrame(desk[k])
      BY <1>0, <3>1 DEF FieldFrame
    <3> QED
      BY <3>1, <3>2, <3>3
  <2>2. c \in Customers /\ row.amount \in Nat /\ desk[k].on = {Customer(c)}
    BY <2>1 DEF VisitFrame, VisitRow
  <2>3. frame.op = "visit"
    <3>1. frame.op = desk[k].op
      OBVIOUS
    <3> QED
      BY <2>1, <3>1
  <2>4. CrossedFor(c)
    <3> HIDE DEF frame, c
    <3>1. \A m \in Desks : m # k => desk'[m] = desk[m]
      BY <1>0, <2>1 DEF Exclusive
    <3>2. desk'[k].op = "visit"
      BY <1>0, <2>1, <2>3 DEF Exclusive
    <3>3. ASSUME NEW m \in Desks, desk'[m].op = "customer", Customer(c) \in desk'[m].on PROVE Customer(c) \in crossed'
      <4>1. m # k
        BY <3>2, <3>3
      <4>2. Customer(c) \in desk[k].on \cap desk[m].on
        BY <2>2, <3>1, <3>3, <4>1
      <4> QED
        BY <1>0, <2>1, <4>1, <4>2 DEF Exclusive
    <3> QED
      BY <3>3 DEF CrossedFor
  <2>5. CASE row.amount = 0
    <3>1. UNCHANGED <<files, entries, cans>>
      BY <1>5, <2>5 DEF VisitPays
    <3> QED
      BY <3>1, RoutineSame
  <2>6. CASE row.amount # 0
    <3>1. /\ entries' = entries \o Entry(c, "PAYMENT", -row.amount) /\ cans' = cans
          /\ \E kept \in BOOLEAN : files' = [files EXCEPT ![c].promised = @ /\ kept]
      BY <1>5, <2>6 DEF VisitPays
    <3>2. \A d \in Customers : files'[d].status = files[d].status /\ files'[d].opening = files[d].opening
      <4>1. PICK kept \in BOOLEAN : files' = [files EXCEPT ![c].promised = @ /\ kept]
        BY <3>1
      <4>2. files' = [files EXCEPT ![c].promised = files[c].promised /\ kept]
        BY <4>1
      <4> HIDE DEF c
      <4> QED
        BY <1>2, <2>2, <4>2
    <3>3. "PAYMENT" \in EntryTypes /\ "PAYMENT" # "OPENING_BALANCE" /\ -row.amount \in Int
      BY <2>2 DEF EntryTypes
    <3> QED
      BY <1>1, <2>2, <2>4, <3>1, <3>2, <3>3
  <2> QED
    BY <2>5, <2>6
<1>6. ASSUME NEW k, CommitCreateHandover(k) \/ CommitUpdateHandover(k) \/ CommitUpdateExpense(k) \/ VisitRecords(k)
      PROVE  Posts
  BY <1>6, RoutineSame DEF CommitCreateHandover, CommitUpdateHandover, CommitUpdateExpense, VisitRecords, fileVars
<1>7. ASSUME NEW k, NEW i, NEW put, BeginUpdateHandover(k, i, put) \/ BeginUpdateExpense(k, i, put) PROVE Posts
  BY <1>7, RoutineSame DEF BeginUpdateHandover, BeginUpdateExpense, fileVars
<1>8. ASSUME NEW i, RemoveHandover(i) \/ RemoveExpense(i) PROVE Posts
  BY <1>8, RoutineSame DEF RemoveHandover, RemoveExpense, fileVars
<1>9. ASSUME NEW staff, NEW byRider, NEW amount, NEW day, CreateExpense(staff, byRider, amount, day) PROVE Posts
  BY <1>9, RoutineSame DEF CreateExpense, fileVars
<1>10. ASSUME NEW k, NEW r, NEW amount, NEW day, BeginCreateHandover(k, r, amount, day) PROVE Posts
  BY <1>10, RoutineSame DEF BeginCreateHandover, fileVars
<1>11. ASSUME NEW k, NEW c, NEW r, NEW outcome, NEW amount, NEW day, BeginVisit(k, c, r, outcome, amount, day) PROVE Posts
  BY <1>11, RoutineSame DEF BeginVisit, fileVars
<1> QED
  BY <1>3, <1>4, <1>5, <1>6, <1>7, <1>8, <1>9, <1>10, <1>11 DEF CashStep

(* Every step, then. *)
LEMMA FileCases ==
    ASSUME Orderly, FieldTyped, FieldTyped', [Next]_vars
    PROVE  \/ Quiet /\ Posts
           \/ \E k \in Desks, c \in scene.who :
                  (\E put \in scene.puts : BeginUpdateCustomer(k, c, put)) \/ BeginDeactivate(k, c)
           \/ \E k \in Desks, qty \in scene.loads : BeginSetOpening(k, qty)
           \/ \E k \in Desks : CommitUpdateCustomer(k) \/ CommitSetOpening(k)
           \/ \E c \in scene.who, opening \in scene.amounts, holds \in scene.loads, status \in {"ACTIVE", "INACTIVE"} :
                  CreateCustomer(c, opening, holds, status)
<1>1. ASSUME NEW ops \in {FactoryOps, CashOps, CatalogOps, {}}, Own(ops) PROVE Quiet
  BY <1>1 DEF Own, Quiet, FactoryOps, FileOps, CashOps, CatalogOps
<1>2. CASE UNCHANGED vars
  <2>1. Quiet
    BY <1>2 DEF vars, requestVars, Quiet
  <2> QED
    BY <1>2, <2>1, RoutineSame DEF vars, fileVars
<1>3. CASE Next
  <2>1. /\ crossed \subseteq crossed'
        /\ \/ FileStep
           \/ CashStep /\ Own(CashOps)
           \/ UNCHANGED fileVars /\ \E ops \in {FactoryOps, CatalogOps, {}} : Own(ops)
    BY <1>3, StepOrderly
  <2>2. CASE FileStep
    BY <2>1, <2>2, FileRoutine
  <2>3. CASE CashStep /\ Own(CashOps)
    BY <1>1, <2>3, CashRoutine
  <2>4. CASE UNCHANGED fileVars /\ \E ops \in {FactoryOps, CatalogOps, {}} : Own(ops)
    BY <1>1, <2>4, RoutineSame DEF fileVars
  <2> QED
    BY <2>1, <2>2, <2>3, <2>4
<1> QED
  BY <1>2, <1>3

(* A customer's file agrees with his opening entry, of which there is at   *)
(* most one, unless two requests handled him at once; and a request that   *)
(* has looked at him still finds what it saw.                              *)
Settled(table, rows, c) ==
    /\ \A i, j \in OpenRows(table, c) : i = j
    /\ \A i \in OpenRows(table, c) : table[i].amount = rows[c].opening
    /\ OpenRows(table, c) = {} => rows[c].opening = 0
Filed(c) ==
    /\ files[c].status = "none" => OpenRows(entries, c) = {} /\ files[c].opening = 0
    /\ Apart(Customer(c)) => Settled(entries, files, c)
Fleet == <<"fleet", "opening">>

MayLeave(f) ==
    Apart(Customer(f.who)) /\ "status" \in DOMAIN f.put /\ f.put.status = "INACTIVE"
    => files[f.who].status = "INACTIVE" \/ CanDeactivate(f.who)
SeesOpening(f) ==
    Apart(Customer(f.who)) /\ "opening" \in DOMAIN f.put
    => IF f.seen = NoEntry THEN OpenRows(entries, f.who) = {} ELSE f.seen \in OpenRows(entries, f.who)
SeesFile(f) ==
    /\ files[f.who].status # "none"
    /\ f.seen # NoEntry => entries[f.seen].who = f.who
    /\ MayLeave(f) /\ SeesOpening(f)
SeesFleet == Apart(Fleet) => FleetRows(cans) = {}
FileFrame(f) == (f.op = "customer" => SeesFile(f)) /\ (f.op = "fleet" => SeesFleet)

FleetOnce == Apart(Fleet) => \A i, j \in FleetRows(cans) : i = j
Files == (\A k \in Desks : FileFrame(desk[k])) /\ (\A c \in Customers : Filed(c)) /\ FleetOnce

(* A customer whose rows a step leaves alone. *)
Unmoved(c) ==
    /\ SameRows(entries, entries', c) /\ SameRows(cans, cans', c)
    /\ files'[c].status = files[c].status

LEMMA SeesFileLasts ==
    ASSUME FieldTyped, NEW m \in Desks, desk'[m] = desk[m], desk[m].op = "customer", FileFrame(desk[m]),
           SameOwners(entries, entries'), crossed \subseteq crossed',
           files'[desk[m].who].status # "none",
           Unmoved(desk[m].who) \/ Customer(desk[m].who) \in crossed'
    PROVE  FileFrame(desk[m])'
<1> DEFINE f == desk[m]
           w == f.who
<1>1. SeesFile(f) /\ CustomerFrame(f)
  BY DEF FileFrame, FieldTyped, FieldFrame
<1>2. w \in Customers /\ (f.seen = NoEntry \/ f.seen \in DOMAIN entries)
  BY <1>1 DEF CustomerFrame
<1>3. f.seen # NoEntry => entries'[f.seen].who = w
  BY <1>1, <1>2 DEF SeesFile, SameOwners
<1>4. CASE Customer(w) \in crossed'
  <2>1. MayLeave(desk[m])' /\ SeesOpening(desk[m])'
    BY <1>4 DEF MayLeave, SeesOpening, Apart, Customer
  <2>2. SeesFile(desk[m])'
    BY <1>3, <2>1 DEF SeesFile
  <2> QED
    BY <2>2 DEF FileFrame
<1>5. CASE Unmoved(w) /\ Customer(w) \notin crossed'
  <2>1. (CanDeactivate(w)' <=> CanDeactivate(w)) /\ files'[w].status = files[w].status
    BY <1>5, SameAccount DEF Unmoved
  <2>2. OpenRows(entries', w) = OpenRows(entries, w)
    BY <1>5 DEF Unmoved, SameRows, OpenRows
  <2>3. Apart(Customer(w))
    BY <1>5 DEF Apart
  <2>4. MayLeave(f) /\ SeesOpening(f)
    BY <1>1 DEF SeesFile
  <2>5. MayLeave(desk[m])'
    <3>1. "status" \in DOMAIN f.put /\ f.put.status = "INACTIVE" => files[w].status = "INACTIVE" \/ CanDeactivate(w)
      BY <2>3, <2>4 DEF MayLeave
    <3>2. "status" \in DOMAIN f.put /\ f.put.status = "INACTIVE" => files'[w].status = "INACTIVE" \/ CanDeactivate(w)'
      BY <2>1, <3>1
    <3> QED
      BY <3>2 DEF MayLeave
  <2>6. SeesOpening(desk[m])'
    <3>1. "opening" \in DOMAIN f.put
          => IF f.seen = NoEntry THEN OpenRows(entries, w) = {} ELSE f.seen \in OpenRows(entries, w)
      BY <2>3, <2>4 DEF SeesOpening
    <3>2. "opening" \in DOMAIN f.put
          => IF f.seen = NoEntry THEN OpenRows(entries', w) = {} ELSE f.seen \in OpenRows(entries', w)
      BY <2>2, <3>1
    <3> QED
      BY <3>2 DEF SeesOpening
  <2>7. SeesFile(desk[m])'
    BY <1>3, <2>5, <2>6 DEF SeesFile
  <2> QED
    BY <2>7 DEF FileFrame
<1> QED
  BY <1>4, <1>5

LEMMA SeesFleetLasts ==
    ASSUME NEW m \in Desks, desk'[m] = desk[m], desk[m].op = "fleet", FileFrame(desk[m]),
           crossed \subseteq crossed', FleetRows(cans') = FleetRows(cans) \/ Fleet \in crossed'
    PROVE  FileFrame(desk[m])'
<1>1. SeesFleet
  BY DEF FileFrame
<1>2. SeesFleet'
  BY <1>1 DEF SeesFleet, Apart, Fleet, FleetRows
<1> QED
  BY <1>2 DEF FileFrame

(* No request of the files starts: those that go on still see what they    *)
(* saw.                                                                    *)
LEMMA FramesLast ==
    ASSUME FieldTyped, \A m \in Desks : FileFrame(desk[m]), Quiet, SameOwners(entries, entries'),
           FleetRows(cans') = FleetRows(cans) \/ \A m \in Desks : desk'[m].op = "fleet" => Fleet \in crossed',
           \A c \in Customers : files[c].status # "none" => files'[c].status # "none",
           \A c \in Customers : Unmoved(c) \/ CrossedFor(c) \/ files[c].status = "none"
    PROVE  \A m \in Desks : FileFrame(desk[m])'
<1> SUFFICES ASSUME NEW m \in Desks PROVE FileFrame(desk[m])'
  OBVIOUS
<1>1. CASE desk'[m].op \notin FileOps
  BY <1>1 DEF FileFrame, FileOps
<1>2. CASE desk'[m] = desk[m] /\ desk[m].op = "customer"
  <2> DEFINE w == desk[m].who
  <2>1. w \in Customers /\ Customer(w) \in desk[m].on
    BY <1>2 DEF FieldTyped, FieldFrame, CustomerFrame
  <2>2. files[w].status # "none"
    BY <1>2 DEF FileFrame, SeesFile
  <2>3. files'[w].status # "none" /\ (Unmoved(w) \/ CrossedFor(w))
    BY <2>1, <2>2
  <2>4. Unmoved(w) \/ Customer(w) \in crossed'
    BY <1>2, <2>1, <2>3 DEF CrossedFor
  <2>5. FileFrame(desk[m]) /\ crossed \subseteq crossed'
    BY DEF Quiet
  <2> QED
    BY <1>2, <2>3, <2>4, <2>5, SeesFileLasts
<1>3. CASE desk'[m] = desk[m] /\ desk[m].op = "fleet"
  BY <1>3, SeesFleetLasts DEF Quiet
<1>4. CASE desk'[m] = desk[m] /\ desk[m].op \notin FileOps
  BY <1>4 DEF FileFrame, FileOps
<1> QED
  BY <1>1, <1>2, <1>3, <1>4 DEF Quiet, FileOps

LEMMA FiledLasts ==
    ASSUME NEW c, Filed(c), SameOpen(entries, entries', c), crossed \subseteq crossed',
           files'[c].opening = files[c].opening, files'[c].status = "none" => files[c].status = "none"
    PROVE  Filed(c)'
<1>1. OpenRows(entries', c) = OpenRows(entries, c) /\ \A i \in OpenRows(entries, c) : entries'[i] = entries[i]
  BY DEF SameOpen
<1>2. Settled(entries, files, c) => Settled(entries', files', c)
  BY <1>1 DEF Settled
<1>3. Apart(Customer(c))' => Apart(Customer(c))
  BY DEF Apart, Customer
<1>4. files'[c].status = "none" => OpenRows(entries', c) = {} /\ files'[c].opening = 0
  BY <1>1 DEF Filed
<1>5. Apart(Customer(c))' => Settled(entries', files', c)
  BY <1>2, <1>3 DEF Filed
<1> QED
  BY <1>4, <1>5 DEF Filed

(* A step that posts to one account at most. *)
LEMMA FilesPosted ==
    ASSUME FieldTyped, Files, Quiet, Posts
    PROVE  Files'
<1>1. PICK d \in Customers \cup {Nobody} : Routine(d) /\ (d \in Customers => CrossedFor(d))
  BY DEF Posts
<1>2. /\ Ledger(entries, entries', d) /\ Shelf(cans, cans', d) /\ crossed \subseteq crossed'
      /\ \A c \in Customers : files'[c].status = files[c].status /\ files'[c].opening = files[c].opening
  BY <1>1 DEF Routine, Quiet
<1>3. ASSUME NEW c \in Customers PROVE Unmoved(c) \/ CrossedFor(c)
  BY <1>1, <1>2, <1>3 DEF Unmoved, Ledger, Shelf
<1>4. \A m \in Desks : FileFrame(desk[m])'
  BY <1>2, <1>3, FramesLast DEF Files, Ledger, Shelf
<1>5. ASSUME NEW c \in Customers PROVE Filed(c)'
  BY <1>2, FiledLasts DEF Files, Ledger
<1>6. FleetOnce'
  BY <1>2 DEF Files, FleetOnce, Shelf, Apart, Fleet, FleetRows
<1> QED
  BY <1>4, <1>5, <1>6 DEF Files

(* The steps that handle an opening: a customer is created or changed, and *)
(* the fleet is opened.                                                    *)
Others(table, new, c) ==
    SameOwners(table, new) /\ \A d : d # c => SameRows(table, new, d) /\ SameOpen(table, new, d)

Opens(table, c, opening, new) ==
    /\ table \in Seq(EntryRow) /\ c \in Customers /\ opening \in Nat
    /\ new = table \o Entry(c, "OPENING_BALANCE", opening)
Changes(table, i, x, new) ==
    table \in Seq(EntryRow) /\ i \in DOMAIN table /\ x.who = table[i].who /\ new = [table EXCEPT ![i] = x]

LEMMA OpeningAdded ==
    ASSUME NEW table, NEW c, NEW opening, NEW new, Opens(table, c, opening, new)
    PROVE  /\ Others(table, new, c)
           /\ opening = 0 => OpenRows(new, c) = OpenRows(table, c) /\ new = table
           /\ OpenRows(table, c) = {} /\ opening # 0 =>
                  /\ \A i, j \in OpenRows(new, c) : i = j
                  /\ \A i \in OpenRows(new, c) : new[i].amount = opening
                  /\ OpenRows(new, c) # {}
<1> USE DEF Opens
<1>1. CASE opening = 0
  <2>1. new = table
    BY <1>1 DEF Entry
  <2> QED
    BY <1>1, <2>1 DEF Others, SameOwners, SameRows, SameOpen
<1>2. CASE opening # 0
  <2> DEFINE row == [who |-> c, type |-> "OPENING_BALANCE", amount |-> opening]
             n == Len(table) + 1
  <2>1. row \in EntryRow /\ row.who = c /\ row.type = "OPENING_BALANCE" /\ row.amount = opening
    BY DEF EntryRow, EntryTypes
  <2>2. new = Append(table, row)
    BY <1>2, <2>1 DEF Entry
  <2>3. /\ DOMAIN new = DOMAIN table \cup {n} /\ n \notin DOMAIN table
        /\ new[n] = row /\ \A i \in DOMAIN table : new[i] = table[i]
    <3> HIDE DEF row
    <3> QED
      BY <2>1, <2>2, Appended
  <2> HIDE DEF row, n
  <2>4. Others(table, new, c)
    BY <2>1, <2>3 DEF Others, SameOwners, SameRows, SameOpen, OpenRows, RowsOf
  <2>5. OpenRows(new, c) = OpenRows(table, c) \cup {n}
    BY <2>1, <2>3 DEF OpenRows, RowsOf
  <2> QED
    BY <1>2, <2>1, <2>3, <2>4, <2>5
<1> QED
  BY <1>1, <1>2

LEMMA EntryChanged ==
    ASSUME NEW table, NEW i, NEW x, NEW new, Changes(table, i, x, new)
    PROVE  /\ Others(table, new, table[i].who)
           /\ DOMAIN new = DOMAIN table /\ new[i] = x /\ \A j \in DOMAIN table : j # i => new[j] = table[j]
<1>1. DOMAIN new = DOMAIN table /\ new[i] = x /\ \A j \in DOMAIN table : j # i => new[j] = table[j]
  BY DEF Changes
<1>2. SameOwners(table, new)
  BY <1>1 DEF SameOwners, Changes
<1>3. ASSUME NEW d, d # table[i].who PROVE SameRows(table, new, d) /\ SameOpen(table, new, d)
  BY <1>1, <1>3 DEF Changes, SameRows, SameOpen, OpenRows, RowsOf
<1> QED
  BY <1>1, <1>2, <1>3 DEF Others

(* What a step may do to the entries of one customer, whose requests in    *)
(* progress are crossed by it.                                             *)
LEMMA FilesWritten ==
    ASSUME FieldTyped, Files, Quiet, NEW c \in Customers, Others(entries, entries', c), Shelf(cans, cans', c),
           CrossedFor(c) \/ files[c].status = "none",
           \A d \in Customers : d # c => files'[d] = files[d],
           files'[c].status # "none" \/ files[c].status = "none", Filed(c)'
    PROVE  Files'
<1>1. ASSUME NEW d \in Customers PROVE Unmoved(d) \/ CrossedFor(d) \/ files[d].status = "none"
  BY <1>1 DEF Unmoved, Others, Shelf
<1>2. \A m \in Desks : FileFrame(desk[m])'
  <2>1. FleetRows(cans') = FleetRows(cans) /\ SameOwners(entries, entries')
    BY DEF Shelf, Others
  <2>2. \A d \in Customers : files[d].status # "none" => files'[d].status # "none"
    OBVIOUS
  <2> QED
    BY <1>1, <2>1, <2>2, FramesLast DEF Files
<1>3. ASSUME NEW d \in Customers PROVE Filed(d)'
  <2>1. CASE d # c
    <3>1. Filed(d) /\ SameOpen(entries, entries', d) /\ crossed \subseteq crossed' /\ files'[d] = files[d]
      BY <2>1 DEF Files, Others, Quiet
    <3> QED
      BY <3>1, FiledLasts
  <2> QED
    BY <2>1
<1>4. FleetOnce'
  BY DEF Files, FleetOnce, Shelf, Apart, Fleet, FleetRows, Quiet
<1> QED
  BY <1>2, <1>3, <1>4 DEF Files

LEMMA FileCreated ==
    ASSUME Orderly, FieldTyped, Files, NEW c \in Customers, NEW opening \in Nat, NEW holds \in Nat,
           NEW status \in {"ACTIVE", "INACTIVE"}, CreateCustomer(c, opening, holds, status)
    PROVE  Files'
<1> DEFINE row == [files[c] EXCEPT !.status = status, !.opening = opening]
<1>1. /\ files[c].status = "none" /\ entries' = entries \o Entry(c, "OPENING_BALANCE", opening)
      /\ cans' = cans \o Cans(c, "OPENING_WITH_CUSTOMER", holds) /\ UNCHANGED requestVars
  BY DEF CreateCustomer
<1>2. files' = [files EXCEPT ![c] = row]
  <2>1. files' = [files EXCEPT ![c].status = status, ![c].opening = opening]
    BY DEF CreateCustomer
  <2> QED
    BY <2>1, Zenon
<1>3. entries \in Seq(EntryRow) /\ cans \in Seq(CanRow) /\ files \in [Customers -> FileRow] /\ files[c] \in FileRow
  BY DEF FieldTyped, FileTables
<1>4. row.status = status /\ row.opening = opening
  BY <1>3 DEF FileRow
<1> HIDE DEF row
<1>5. files'[c].status = status /\ files'[c].opening = opening /\ \A d \in Customers : d # c => files'[d] = files[d]
  BY <1>2, <1>3, <1>4
<1>0. Opens(entries, c, opening, entries')
  BY <1>1, <1>3 DEF Opens
<1>6. Others(entries, entries', c)
  BY <1>0, OpeningAdded
<1>7. Shelf(cans, cans', c)
  <2>1. "OPENING_WITH_CUSTOMER" \in CanTypes /\ "OPENING_WITH_CUSTOMER" # "OPENING_ON_HAND" /\ holds \in Int
    BY DEF CanTypes
  <2> QED
    BY <1>1, <1>3, <2>1, ShelfCans
<1>8. OpenRows(entries, c) = {}
  BY <1>1 DEF Files, Filed
<1>9. Settled(entries', files', c)
  <2>1. CASE opening = 0
    <3>1. OpenRows(entries', c) = {}
      BY <1>0, <1>8, <2>1, OpeningAdded
    <3> QED
      BY <1>5, <2>1, <3>1 DEF Settled
  <2>2. CASE opening # 0
    <3>1. /\ \A i, j \in OpenRows(entries', c) : i = j
          /\ \A i \in OpenRows(entries', c) : entries'[i].amount = opening
          /\ OpenRows(entries', c) # {}
      BY <1>0, <1>8, <2>2, OpeningAdded
    <3> QED
      BY <1>5, <3>1 DEF Settled
  <2> QED
    BY <2>1, <2>2
<1>10. Filed(c)'
  <2>1. files'[c].status # "none"
    BY <1>5
  <2> QED
    BY <1>9, <2>1 DEF Filed
<1>11. Quiet
  BY <1>1 DEF requestVars, Quiet
<1> QED
  BY <1>1, <1>5, <1>6, <1>7, <1>10, <1>11, FilesWritten

(* A request that has ended is the only one that was not crossed. *)
LEMMA EndedFor ==
    ASSUME Exclusive, NEW k \in Desks, Ends(k), NEW c, Customer(c) \in desk[k].on
    PROVE  CrossedFor(c) /\ Quiet
<1>1. desk'[k] = Idle /\ (\A m \in Desks : m # k => desk'[m] = desk[m]) /\ crossed' = crossed
  BY EndsDesk DEF Ends
<1>2. Quiet
  BY <1>1 DEF Quiet, Idle, FileOps
<1>3. ASSUME NEW m \in Desks, desk'[m].op = "customer", Customer(c) \in desk'[m].on PROVE Customer(c) \in crossed'
  <2>1. m # k
    BY <1>1, <1>3 DEF Idle
  <2>2. Customer(c) \in desk[k].on \cap desk[m].on
    BY <1>1, <1>3, <2>1
  <2> QED
    BY <1>1, <2>1, <2>2 DEF Exclusive
<1> QED
  BY <1>2, <1>3 DEF CrossedFor

LEMMA FileChanged ==
    ASSUME Orderly, FieldTyped, Files, NEW k \in Desks, CommitUpdateCustomer(k), NEW c, c = desk[k].who
    PROVE  Files'
<1> DEFINE f == desk[k]
           gone == f.seen # NoEntry /\ entries[f.seen].type = "deleted"
           row == Patched(files[c], f.put)
<1>0. entries \in Seq(EntryRow) /\ cans \in Seq(CanRow) /\ files \in [Customers -> FileRow] /\ Exclusive
  BY DEF FieldTyped, FileTables, Orderly
<1>1. f.op = "customer" /\ Ends(k) /\ cans' = cans
  BY DEF CommitUpdateCustomer, Holds
<1>2. CustomerFrame(f) /\ SeesFile(f)
  BY <1>1 DEF FieldTyped, FieldFrame, Files, FileFrame
<1>3. /\ c \in Customers /\ Gives(f.put, FileColumns) /\ Customer(c) \in f.on
      /\ f.seen # NoEntry => f.seen \in DOMAIN entries /\ entries[f.seen].who = c
      /\ files[c].status # "none" /\ SeesOpening(f)
  BY <1>2 DEF CustomerFrame, SeesFile
<1>4. CrossedFor(c) /\ Quiet
  BY <1>0, <1>1, <1>3, EndedFor
<1>5. /\ row.status # "none"
      /\ "opening" \in DOMAIN f.put => row.opening = f.put.opening /\ f.put.opening \in Nat
      /\ "opening" \notin DOMAIN f.put => row.opening = files[c].opening
  <2>1. files[c] \in FileRow
    BY <1>0, <1>3
  <2>2. /\ row.status = IF "status" \in DOMAIN f.put THEN f.put.status ELSE files[c].status
        /\ row.opening = IF "opening" \in DOMAIN f.put THEN f.put.opening ELSE files[c].opening
        /\ "status" \in DOMAIN f.put => f.put.status \in {"ACTIVE", "INACTIVE"}
        /\ "opening" \in DOMAIN f.put => f.put.opening \in Nat
    BY <1>3, <2>1, PatchedFile
  <2> HIDE DEF f, row
  <2> QED
    BY <1>3, <2>2
<1>6. Shelf(cans, cans', c)
  BY <1>0, <1>1, SameShelf
<1>7. ASSUME files' = [files EXCEPT ![c] = row], Others(entries, entries', c), Filed(c)' PROVE Files'
  <2>1. files'[c] = row /\ \A d \in Customers : d # c => files'[d] = files[d]
    BY <1>0, <1>3, <1>7
  <2>2. files'[c].status # "none"
    BY <1>5, <2>1
  <2> HIDE DEF row
  <2> QED
    BY <1>3, <1>4, <1>6, <1>7, <2>1, <2>2, FilesWritten
<1>8. ASSUME files' = [files EXCEPT ![c] = row], Apart(Customer(c)) => Settled(entries', files', c) PROVE Filed(c)'
  <2>1. files'[c] = row /\ files'[c].status # "none"
    BY <1>0, <1>3, <1>5, <1>8
  <2>2. Apart(Customer(c))' => Apart(Customer(c))
    BY <1>4 DEF Quiet, Apart, Customer
  <2> QED
    BY <1>8, <2>1, <2>2 DEF Filed
<1>9. CASE "opening" \notin DOMAIN f.put
  <2>1. files' = [files EXCEPT ![c] = row] /\ entries' = entries
    BY <1>9 DEF CommitUpdateCustomer
  <2>2. Others(entries, entries', c)
    BY <2>1 DEF Others, SameOwners, SameRows, SameOpen
  <2>3. files'[c].opening = files[c].opening
    BY <1>0, <1>3, <1>5, <1>9, <2>1
  <2>4. Apart(Customer(c)) => Settled(entries', files', c)
    BY <1>3, <2>1, <2>3 DEF Files, Filed, Settled
  <2> QED
    BY <1>7, <1>8, <2>1, <2>2, <2>4
<1>10. CASE "opening" \in DOMAIN f.put /\ gone
  <2>1. files' = files /\ entries' = entries
    BY <1>10 DEF CommitUpdateCustomer
  <2>2. Posts
    BY <1>1, <2>1, RoutineSame
  <2> QED
    BY <1>4, <2>2, FilesPosted
<1>11. CASE "opening" \in DOMAIN f.put /\ ~gone
  <2> DEFINE opening == f.put.opening
  <2>1. files' = [files EXCEPT ![c] = row] /\ SetOpeningEntry(c, f.seen, opening)
    BY <1>11 DEF CommitUpdateCustomer
  <2>2. opening \in Nat /\ files'[c].opening = opening
    BY <1>0, <1>3, <1>5, <1>11, <2>1
  <2>3. CASE f.seen = NoEntry
    <3>1. entries' = entries \o Entry(c, "OPENING_BALANCE", opening)
      BY <2>1, <2>3 DEF SetOpeningEntry
    <3>0. Opens(entries, c, opening, entries')
      BY <1>0, <1>3, <2>2, <3>1 DEF Opens
    <3>2. Others(entries, entries', c)
      BY <3>0, OpeningAdded
    <3>3. ASSUME Apart(Customer(c)) PROVE Settled(entries', files', c)
      <4>1. OpenRows(entries, c) = {}
        BY <1>3, <1>11, <2>3, <3>3 DEF SeesOpening
      <4>2. CASE opening = 0
        <5>1. OpenRows(entries', c) = {}
          BY <3>0, <4>1, <4>2, OpeningAdded
        <5> QED
          BY <2>2, <4>2, <5>1 DEF Settled
      <4>3. CASE opening # 0
        <5>1. /\ \A i, j \in OpenRows(entries', c) : i = j
              /\ \A i \in OpenRows(entries', c) : entries'[i].amount = opening
              /\ OpenRows(entries', c) # {}
          BY <3>0, <4>1, <4>3, OpeningAdded
        <5> HIDE DEF opening
        <5> QED
          BY <2>2, <5>1 DEF Settled
      <4> QED
        BY <4>2, <4>3
    <3> QED
      BY <1>7, <1>8, <2>1, <3>2, <3>3
  <2>4. CASE f.seen # NoEntry
    <3> DEFINE i == f.seen
               old == entries[i]
               x == IF opening = 0 THEN [old EXCEPT !.type = "deleted"] ELSE [old EXCEPT !.amount = opening]
    <3>1. i \in DOMAIN entries /\ old.who = c /\ old \in EntryRow
      BY <1>0, <1>3, <2>4, SeqDomain
    <3>2. entries' = [entries EXCEPT ![i] = x]
      BY <2>1, <2>4 DEF SetOpeningEntry
    <3>3. /\ x.who = c
          /\ opening = 0 => x.type = "deleted"
          /\ opening # 0 => x.type = old.type /\ x.amount = opening
      <4> HIDE DEF old, opening
      <4> QED
        BY <3>1 DEF EntryRow
    <3> HIDE DEF x
    <3>6. Changes(entries, i, x, entries')
      BY <1>0, <3>1, <3>2, <3>3 DEF Changes
    <3>4. /\ Others(entries, entries', c)
          /\ DOMAIN entries' = DOMAIN entries /\ entries'[i] = x
          /\ \A j \in DOMAIN entries : j # i => entries'[j] = entries[j]
      BY <3>1, <3>6, EntryChanged
    <3>5. ASSUME Apart(Customer(c)) PROVE Settled(entries', files', c)
      <4>1. i \in OpenRows(entries, c)
        BY <1>3, <1>11, <2>4, <3>5 DEF SeesOpening
      <4>2. \A j \in OpenRows(entries, c) : j = i
        BY <1>3, <3>5, <4>1 DEF Files, Filed, Settled
      <4>3. old.type = "OPENING_BALANCE"
        BY <4>1 DEF OpenRows
      <4> HIDE DEF i, opening
      <4>4. \A j \in OpenRows(entries', c) : j = i /\ opening # 0
        <5> SUFFICES ASSUME NEW j \in OpenRows(entries', c) PROVE j = i /\ opening # 0
          OBVIOUS
        <5>1. j \in DOMAIN entries /\ entries'[j].who = c /\ entries'[j].type = "OPENING_BALANCE"
          BY <3>4 DEF OpenRows, RowsOf
        <5>2. CASE j # i
          <6>1. entries'[j] = entries[j]
            BY <3>4, <5>1, <5>2
          <6>2. j \in OpenRows(entries, c)
            BY <5>1, <6>1 DEF OpenRows, RowsOf
          <6> QED
            BY <4>2, <5>2, <6>2
        <5>3. CASE j = i
          BY <3>3, <3>4, <5>1, <5>3
        <5> QED
          BY <5>2, <5>3
      <4>5. CASE opening = 0
        <5>1. OpenRows(entries', c) = {}
          BY <4>4, <4>5
        <5> QED
          BY <2>2, <4>5, <5>1 DEF Settled
      <4>6. CASE opening # 0
        <5>1. i \in OpenRows(entries', c)
          BY <3>1, <3>3, <3>4, <4>3, <4>6 DEF OpenRows, RowsOf
        <5>2. entries'[i].amount = opening
          BY <3>3, <3>4, <4>6
        <5> QED
          BY <2>2, <4>4, <5>1, <5>2 DEF Settled
      <4> QED
        BY <4>5, <4>6
    <3> QED
      BY <1>7, <1>8, <2>1, <3>4, <3>5
  <2> QED
    BY <2>3, <2>4
<1> QED
  BY <1>9, <1>10, <1>11

LEMMA FleetOpened ==
    ASSUME Orderly, FieldTyped, Files, NEW k \in Desks, CommitSetOpening(k)
    PROVE  Files'
<1>0. cans \in Seq(CanRow) /\ Exclusive /\ entries \in Seq(EntryRow)
  BY DEF FieldTyped, FileTables, Orderly
<1>1. /\ desk[k].op = "fleet" /\ Ends(k) /\ UNCHANGED <<files, entries>>
      /\ cans' = cans \o Cans(Nobody, "OPENING_ON_HAND", desk[k].qty)
  BY DEF CommitSetOpening, Holds
<1>2. desk[k].qty \in Nat /\ Fleet \in desk[k].on /\ SeesFleet
  BY <1>1 DEF FieldTyped, FieldFrame, FleetFrame, Files, FileFrame, Fleet
<1>3. /\ desk'[k] = Idle /\ (\A m \in Desks : m # k => desk'[m] = desk[m]) /\ crossed' = crossed
  BY <1>0, <1>1, EndsDesk DEF Ends
<1>4. Quiet
  BY <1>3 DEF Quiet, Idle, FileOps
<1>5. ASSUME NEW m \in Desks, desk'[m].op = "fleet" PROVE Fleet \in crossed'
  <2>1. m # k /\ desk[m].op = "fleet"
    BY <1>3, <1>5 DEF Idle
  <2>2. Fleet \in desk[k].on \cap desk[m].on
    BY <1>2, <2>1 DEF FieldTyped, FieldFrame, FleetFrame, Fleet
  <2> QED
    BY <1>0, <1>3, <2>1, <2>2 DEF Exclusive
<1>6. /\ \A c \in Customers : SameRows(cans, cans', c)
      /\ \A i, j \in FleetRows(cans') : i = j \/ i \in FleetRows(cans) \/ j \in FleetRows(cans)
  <2>1. CASE desk[k].qty = 0
    <3>1. cans' = cans
      BY <1>0, <1>1, <2>1 DEF Cans
    <3> QED
      BY <3>1 DEF SameRows
  <2>2. CASE desk[k].qty # 0
    <3> DEFINE row == [who |-> Nobody, type |-> "OPENING_ON_HAND", qty |-> desk[k].qty]
               n == Len(cans) + 1
    <3>1. row \in CanRow /\ row.who = Nobody
      BY <1>2 DEF CanRow, CanTypes
    <3>2. cans' = Append(cans, row)
      BY <1>1, <2>2, <3>1 DEF Cans
    <3>3. /\ DOMAIN cans' = DOMAIN cans \cup {n} /\ n \notin DOMAIN cans
          /\ cans'[n] = row /\ \A i \in DOMAIN cans : cans'[i] = cans[i]
      <4> HIDE DEF row
      <4> QED
        BY <1>0, <3>1, <3>2, Appended
    <3> HIDE DEF row, n
    <3>4. Nobody \notin Customers
      BY OfficeAssumption
    <3> QED
      BY <3>1, <3>3, <3>4 DEF SameRows, RowsOf, FleetRows
  <2> QED
    BY <2>1, <2>2
<1>7. ASSUME NEW c \in Customers PROVE Unmoved(c)
  BY <1>1, <1>6 DEF Unmoved, SameRows
<1>8. \A m \in Desks : FileFrame(desk[m])'
  <2>1. SameOwners(entries, entries')
    BY <1>1 DEF SameOwners
  <2> QED
    BY <1>1, <1>4, <1>5, <1>7, <2>1, FramesLast DEF Files
<1>9. ASSUME NEW c \in Customers PROVE Filed(c)'
  <2>1. Filed(c) /\ SameOpen(entries, entries', c) /\ crossed \subseteq crossed' /\ files' = files
    BY <1>1, <1>3 DEF Files, SameOpen
  <2> QED
    BY <2>1, FiledLasts
<1>10. FleetOnce'
  <2> SUFFICES ASSUME Fleet \notin crossed', NEW i \in FleetRows(cans'), NEW j \in FleetRows(cans') PROVE i = j
    BY DEF FleetOnce, Apart, Fleet, FleetRows
  <2>1. FleetRows(cans) = {}
    BY <1>2, <1>3 DEF SeesFleet, Apart
  <2> QED
    BY <1>6, <2>1
<1> QED
  BY <1>8, <1>9, <1>10 DEF Files

(* A request on a file starts. *)
LEMMA FilesLookedAt ==
    ASSUME Orderly, FieldTyped, Files, UNCHANGED fileVars, NEW k \in Desks, NEW frame, Starts(k, frame),
           desk'[k] = frame => FileFrame(desk[k])'
    PROVE  Files'
<1>1. /\ desk'[k] = frame /\ (\A m \in Desks : m # k => desk'[m] = desk[m])
      /\ crossed \subseteq crossed' /\ UNCHANGED <<files, entries, cans>>
  BY StartsDesk DEF Orderly, Starts, fileVars
<1>2. SameOwners(entries, entries') /\ \A c : SameOpen(entries, entries', c) /\ Unmoved(c)
  BY <1>1 DEF SameOwners, SameOpen, SameRows, Unmoved
<1>3. ASSUME NEW m \in Desks, m # k PROVE FileFrame(desk[m])'
  <2>1. desk'[m] = desk[m] /\ FileFrame(desk[m])
    BY <1>1, <1>3 DEF Files
  <2>2. CASE desk[m].op = "customer"
    <3>1. files'[desk[m].who].status # "none"
      BY <1>1, <2>1, <2>2 DEF FileFrame, SeesFile
    <3> QED
      BY <1>1, <1>2, <2>1, <2>2, <3>1, SeesFileLasts
  <2>3. CASE desk[m].op = "fleet"
    BY <1>1, <2>1, <2>3, SeesFleetLasts
  <2>4. CASE desk[m].op \notin {"customer", "fleet"}
    BY <2>1, <2>4 DEF FileFrame
  <2> QED
    BY <2>2, <2>3, <2>4
<1>4. \A c \in Customers : Filed(c)'
  BY <1>1, <1>2, FiledLasts DEF Files
<1>5. FleetOnce'
  BY <1>1 DEF Files, FleetOnce, Apart, Fleet, FleetRows
<1> QED
  BY <1>1, <1>3, <1>4, <1>5 DEF Files

LEMMA FilesStep ==
    ASSUME Orderly, FieldTyped, FieldTyped', Files, [Next]_vars
    PROVE  Files'
<1>0. /\ scene.who \subseteq Customers /\ scene.amounts \subseteq Nat /\ scene.loads \subseteq Nat
      /\ entries \in Seq(EntryRow)
  BY FieldInputs DEF Orderly, Exclusive, FieldTyped, FileTables
<1>1. ASSUME NEW k \in Desks, NEW c \in scene.who, NEW put, NEW seen,
             files[c].status # "none", UNCHANGED fileVars,
             Starts(k, [op |-> "customer", on |-> {Customer(c)}, who |-> c, put |-> put, seen |-> seen]),
             "status" \in DOMAIN put /\ put.status = "INACTIVE" => files[c].status = "INACTIVE" \/ CanDeactivate(c),
             seen = FirstOpening(c) \/ (seen = NoEntry /\ "opening" \notin DOMAIN put)
      PROVE  Files'
  <2> DEFINE frame == [op |-> "customer", on |-> {Customer(c)}, who |-> c, put |-> put, seen |-> seen]
  <2>1. frame.op = "customer" /\ frame.who = c /\ frame.put = put /\ frame.seen = seen
    OBVIOUS
  <2>2. Starts(k, frame)
    BY <1>1
  <2> HIDE DEF frame
  <2>3. UNCHANGED <<files, entries, cans>>
    BY <1>1 DEF fileVars
  <2>4. Openings(c) = OpenRows(entries, c) /\ Openings(c) \subseteq DOMAIN entries
    BY DEF Openings, EntriesOf, OpenRows, RowsOf
  <2>5. CASE seen = FirstOpening(c) /\ Openings(c) # {}
    <3>1. Openings(c) \in SUBSET Int /\ IsFiniteSet(Openings(c)) /\ 0 \notin Openings(c)
      <4>1. DOMAIN entries = 1..Len(entries) /\ Len(entries) \in Nat /\ IsFiniteSet(DOMAIN entries)
        BY <1>0, SeqDomain
      <4>2. DOMAIN entries \in SUBSET Int /\ 0 \notin DOMAIN entries
        BY <4>1
      <4> QED
        BY <2>4, <4>1, <4>2, FS_Subset
    <3>2. seen \in OpenRows(entries, c)
      BY <2>4, <2>5, <3>1, MinIs DEF FirstOpening
    <3>3. seen # NoEntry /\ entries[seen].who = c
      BY <2>4, <3>1, <3>2 DEF NoEntry, OpenRows, RowsOf
    <3>4. ASSUME desk'[k] = frame PROVE FileFrame(desk[k])'
      <4>1. CanDeactivate(c)' <=> CanDeactivate(c)
        <5>1. SameRows(entries, entries', c) /\ SameRows(cans, cans', c)
          BY <2>3 DEF SameRows
        <5> QED
          BY <5>1, SameAccount
      <4>2. MayLeave(desk[k])'
        BY <1>1, <2>1, <2>3, <3>4, <4>1 DEF MayLeave
      <4>3. SeesOpening(desk[k])'
        BY <2>1, <2>3, <3>2, <3>3, <3>4 DEF SeesOpening
      <4>4. SeesFile(desk[k])'
        BY <1>1, <2>1, <2>3, <3>3, <3>4, <4>2, <4>3 DEF SeesFile
      <4> QED
        BY <2>1, <3>4, <4>4 DEF FileFrame
    <3> QED
      BY <1>1, <2>2, <3>4, FilesLookedAt
  <2>6. CASE ~(seen = FirstOpening(c) /\ Openings(c) # {})
    <3>1. seen = NoEntry /\ ("opening" \in DOMAIN put => OpenRows(entries, c) = {})
      BY <1>1, <2>4, <2>6 DEF FirstOpening
    <3>4. ASSUME desk'[k] = frame PROVE FileFrame(desk[k])'
      <4>1. CanDeactivate(c)' <=> CanDeactivate(c)
        <5>1. SameRows(entries, entries', c) /\ SameRows(cans, cans', c)
          BY <2>3 DEF SameRows
        <5> QED
          BY <5>1, SameAccount
      <4>2. MayLeave(desk[k])'
        BY <1>1, <2>1, <2>3, <3>4, <4>1 DEF MayLeave
      <4>3. SeesOpening(desk[k])'
        BY <2>1, <2>3, <3>1, <3>4 DEF SeesOpening
      <4>4. SeesFile(desk[k])'
        BY <1>1, <2>1, <2>3, <3>1, <3>4, <4>2, <4>3 DEF SeesFile
      <4> QED
        BY <2>1, <3>4, <4>4 DEF FileFrame
    <3> QED
      BY <1>1, <2>2, <3>4, FilesLookedAt
  <2> QED
    BY <2>5, <2>6
<1>2. ASSUME NEW k \in Desks, NEW c \in scene.who, NEW put, BeginUpdateCustomer(k, c, put) PROVE Files'
  <2>1. /\ files[c].status # "none" /\ UNCHANGED fileVars
        /\ Starts(k, [op |-> "customer", on |-> {Customer(c)}, who |-> c, put |-> put, seen |-> FirstOpening(c)])
        /\ "status" \in DOMAIN put /\ put.status = "INACTIVE" => files[c].status = "INACTIVE" \/ CanDeactivate(c)
    BY <1>2 DEF BeginUpdateCustomer
  <2> QED
    BY <1>1, <2>1
<1>3. ASSUME NEW k \in Desks, NEW c \in scene.who, BeginDeactivate(k, c) PROVE Files'
  <2> DEFINE put == [status |-> "INACTIVE"]
  <2>1. /\ files[c].status # "none" /\ UNCHANGED fileVars /\ CanDeactivate(c)
        /\ Starts(k, [op |-> "customer", on |-> {Customer(c)}, who |-> c, put |-> put, seen |-> NoEntry])
    BY <1>3 DEF BeginDeactivate
  <2>2. "opening" \notin DOMAIN put
    OBVIOUS
  <2> HIDE DEF put
  <2> QED
    BY <1>1, <2>1, <2>2
<1>4. ASSUME NEW k \in Desks, NEW qty, BeginSetOpening(k, qty) PROVE Files'
  <2> DEFINE frame == [op |-> "fleet", on |-> {<<"fleet", "opening">>}, qty |-> qty]
  <2>1. Starts(k, frame) /\ UNCHANGED fileVars /\ FleetRows(cans) = {}
    BY <1>4 DEF BeginSetOpening, FleetRows
  <2>2. frame.op = "fleet"
    OBVIOUS
  <2> HIDE DEF frame
  <2>3. FleetRows(cans') = {}
    BY <2>1 DEF fileVars
  <2>4. desk'[k] = frame => FileFrame(desk[k])'
    BY <2>2, <2>3 DEF FileFrame, SeesFleet, FleetRows
  <2> QED
    BY <2>1, <2>4, FilesLookedAt
<1>5. ASSUME NEW k \in Desks, CommitUpdateCustomer(k) PROVE Files'
  <2>1. PICK c : c = desk[k].who
    OBVIOUS
  <2> QED
    BY <1>5, <2>1, FileChanged
<1>6. ASSUME NEW k \in Desks, CommitSetOpening(k) PROVE Files'
  BY <1>6, FleetOpened
<1>7. ASSUME NEW c \in scene.who, NEW opening \in scene.amounts, NEW holds \in scene.loads,
             NEW status \in {"ACTIVE", "INACTIVE"}, CreateCustomer(c, opening, holds, status)
      PROVE  Files'
  BY <1>0, <1>7, FileCreated
<1>8. CASE Quiet /\ Posts
  BY <1>8, FilesPosted
<1> QED
  BY <1>2, <1>3, <1>4, <1>5, <1>6, <1>7, <1>8, FileCases

LEMMA FilesAlways == Spec => []Files
<1>1. Init => Files
  <2> SUFFICES ASSUME Init PROVE Files
    OBVIOUS
  <2>1. \A c \in Customers : files[c].opening = 0 /\ OpenRows(entries, c) = {} /\ FleetRows(cans) = {}
    BY DEF Init, OpenRows, RowsOf, FleetRows
  <2>2. \A k \in Desks : FileFrame(desk[k])
    BY DEF Init, Idle, FileFrame
  <2>3. FleetOnce
    BY DEF Init, FleetOnce, FleetRows
  <2>4. \A c \in Customers : Filed(c)
    BY <2>1 DEF Filed, Settled
  <2> QED
    BY <2>2, <2>3, <2>4 DEF Files
<1>2. Orderly /\ FieldTyped /\ FieldTyped' /\ Files /\ [Next]_vars => Files'
  BY FilesStep
<1> QED
  BY <1>1, <1>2, OrderlyAlways, FieldTypedAlways, PTL DEF Spec

(* The file of a customer agrees with his ledger on what he owed at the    *)
(* start, of which there is one entry at most, and the fleet of cans was   *)
(* opened once, unless two requests handled the same customer or opened    *)
(* the fleet at once (customers.service.ts, container-inventory.service.ts).*)
THEOREM OneOpeningEach == Spec => []FilesStand
<1>1. ASSUME FieldTyped, Files PROVE FilesStand
  <2>1. ASSUME NEW c \in Customers, Apart(Customer(c))
        PROVE  Cardinality(Openings(c)) <= 1 /\ Amount(Openings(c)) = files[c].opening
    <3>1. Openings(c) = OpenRows(entries, c) /\ Openings(c) \subseteq DOMAIN entries /\ Settled(entries, files, c)
      BY <1>1, <2>1 DEF Files, Filed, Openings, EntriesOf, OpenRows, RowsOf
    <3>2. Cardinality(Openings(c)) <= 1
      BY <3>1, AtMostOne DEF Settled
    <3>3. CASE Openings(c) = {}
      <4> DEFINE g == [i \in Openings(c) |-> entries[i].amount]
      <4>1. SumFunction(g) = 0
        BY <3>3, TotalEmpty
      <4> QED
        BY <3>1, <3>2, <3>3, <4>1 DEF Settled, Amount
    <3>4. CASE Openings(c) # {}
      <4> DEFINE f == [i \in {} |-> 0]
                 g == [i \in Openings(c) |-> entries[i].amount]
      <4>1. PICK i \in Openings(c) : TRUE
        BY <3>4
      <4>2. Openings(c) = {i} /\ entries[i].amount = files[c].opening
        BY <3>1, <4>1 DEF Settled
      <4>3. files[c].opening \in Nat
        BY <1>1, <2>1 DEF FieldTyped, FileTables, FileRow
      <4>4. SumFunction(g) = SumFunction(f) + g[i] /\ SumFunction(f) = 0
        <5>1. /\ IsFiniteSet(DOMAIN f) /\ DOMAIN f = {} /\ i \notin DOMAIN f /\ DOMAIN g = DOMAIN f \cup {i}
              /\ g[i] \in Int
          BY <4>1, <4>2, <4>3, FS_EmptySet
        <5>2. SumFunction(f) = 0
          BY <5>1, TotalEmpty
        <5> HIDE DEF f, g
        <5>3. \A y \in DOMAIN f : g[y] = f[y] /\ f[y] \in Int
          BY <5>1
        <5> QED
          BY <5>1, <5>2, <5>3, TotalAdd
      <4>5. g[i] = files[c].opening
        BY <4>1, <4>2
      <4>6. Amount(Openings(c)) = SumFunction(g)
        BY DEF Amount
      <4> HIDE DEF f, g
      <4> QED
        BY <3>2, <4>3, <4>4, <4>5, <4>6
    <3> QED
      BY <3>3, <3>4
  <2>2. ASSUME Apart(<<"fleet", "opening">>)
        PROVE  Cardinality({i \in DOMAIN cans : cans[i].type = "OPENING_ON_HAND"}) <= 1
    <3>1. \A i, j \in FleetRows(cans) : i = j
      BY <1>1, <2>2 DEF Files, FleetOnce, Fleet
    <3>2. Cardinality(FleetRows(cans)) <= 1
      BY <3>1, AtMostOne
    <3> QED
      BY <3>2 DEF FleetRows
  <2> QED
    BY <2>1, <2>2 DEF FilesStand
<1> QED
  BY <1>1, FieldTypedAlways, FilesAlways, PTL

(* Nobody who owes money or holds cans is taken off the active customers,  *)
(* by softDelete or by an update, unless two requests handled him at once: *)
(* what was checked before the transaction still holds when it writes      *)
(* (assertCanDeactivate of customers.service.ts).                          *)
THEOREM LeavesWithNothing == Spec => DeactivationChecked
<1> DEFINE A == \A c \in Customers :
                   /\ files[c].status = "ACTIVE" /\ files'[c].status = "INACTIVE"
                   /\ files'[c].opening = files[c].opening
                   /\ Apart(Customer(c))
                   => CanDeactivate(c)
<1>1. Orderly /\ FieldTyped /\ FieldTyped' /\ Files /\ [Next]_vars => [A]_vars
  <2> SUFFICES ASSUME Orderly, FieldTyped, FieldTyped', Files, [Next]_vars, NEW c \in Customers,
                      files[c].status = "ACTIVE", files'[c].status = "INACTIVE", Apart(Customer(c))
               PROVE  CanDeactivate(c)
    OBVIOUS
  <2>0. files \in [Customers -> FileRow] /\ files' # files
    BY DEF FieldTyped, FileTables
  <2>1. ASSUME Posts PROVE FALSE
    BY <2>1 DEF Posts, Routine
  <2>2. ASSUME NEW k, NEW d, (\E put : BeginUpdateCustomer(k, d, put)) \/ BeginDeactivate(k, d) PROVE FALSE
    BY <2>0, <2>2 DEF BeginUpdateCustomer, BeginDeactivate, fileVars
  <2>3. ASSUME NEW k, (\E qty : BeginSetOpening(k, qty)) \/ CommitSetOpening(k) PROVE FALSE
    BY <2>0, <2>3 DEF BeginSetOpening, CommitSetOpening, fileVars
  <2>4. ASSUME NEW d, NEW opening, NEW holds, NEW status, CreateCustomer(d, opening, holds, status) PROVE FALSE
    <3> DEFINE new == [files[d] EXCEPT !.status = status, !.opening = opening]
    <3>1. files' = [files EXCEPT ![d].status = status, ![d].opening = opening] /\ files[d].status = "none"
      BY <2>4 DEF CreateCustomer
    <3>2. files' = [files EXCEPT ![d] = new]
      BY <3>1, Zenon
    <3>3. c # d
      BY <3>1
    <3> HIDE DEF new
    <3> QED
      BY <2>0, <3>2, <3>3
  <2>5. ASSUME NEW k \in Desks, CommitUpdateCustomer(k) PROVE CanDeactivate(c)
    <3> DEFINE f == desk[k]
               new == Patched(files[f.who], f.put)
    <3>1. files' = [files EXCEPT ![f.who] = new]
      BY <2>0, <2>5 DEF CommitUpdateCustomer
    <3>2. c = f.who
      BY <2>0, <3>1
    <3>3. f.op = "customer" /\ CustomerFrame(f) /\ MayLeave(f)
      BY <2>5 DEF CommitUpdateCustomer, Holds, FieldTyped, FieldFrame, Files, FileFrame, SeesFile
    <3>4. new.status = "INACTIVE"
      BY <2>0, <3>1, <3>2
    <3>5. new.status = IF "status" \in DOMAIN f.put THEN f.put.status ELSE files[c].status
      <4>1. files[c] \in FileRow /\ Gives(f.put, FileColumns)
        BY <2>0, <3>3 DEF CustomerFrame
      <4> QED
        BY <3>2, <4>1, PatchedFile
    <3>6. "status" \in DOMAIN f.put /\ f.put.status = "INACTIVE"
      BY <3>4, <3>5
    <3> QED
      BY <3>2, <3>3, <3>6 DEF MayLeave
  <2> QED
    BY <2>1, <2>2, <2>3, <2>4, <2>5, FileCases
<1>2. DeactivationChecked <=> [][A]_vars
  BY DEF DeactivationChecked
<1> HIDE DEF A
<1> QED
  BY <1>1, <1>2, OrderlyAlways, FieldTypedAlways, FilesAlways, PTL DEF Spec

-----------------------------------------------------------------------------
(* Cans.  What a movement takes from the customers or adds to the fleet,   *)
(* what a trip holds that is not counted yet, and what a delivery leaves   *)
(* with a customer; a cancelled delivery has taken the empties twice.      *)
Effect == [row \in CanRow |-> IF row.who = Nobody THEN InFleet(row) ELSE 0 - WithCustomer(row)]
Loaded == [row \in TripRow |-> row.filled + row.empty - (IF row.open THEN 0 ELSE row.counted)]
Left == [row \in DropRow |-> IF row.live THEN row.out - row.back ELSE 0 - (row.back + row.back)]

(* Every can is somewhere. *)
EveryCan == Worth(cans, Effect) = yard + Worth(trips, Loaded) - Worth(drops, Left)

LEMMA CanWeights ==
    Effect \in [CanRow -> Int] /\ Loaded \in [TripRow -> Int] /\ Left \in [DropRow -> Int]
<1>1. Effect \in [CanRow -> Int]
  BY DEF Effect, CanRow, InFleet, WithCustomer
<1>2. Loaded \in [TripRow -> Int]
  BY DEF Loaded, TripRow
<1>3. Left \in [DropRow -> Int]
  BY DEF Left, DropRow
<1> QED
  BY <1>1, <1>2, <1>3

LEMMA CanSums ==
    ASSUME FieldTyped, FieldTyped'
    PROVE  /\ cans \in Seq(CanRow) /\ trips \in Seq(TripRow) /\ drops \in Seq(DropRow)
           /\ Worth(cans, Effect) \in Int /\ Worth(trips, Loaded) \in Int /\ Worth(drops, Left) \in Int
           /\ yard \in Int /\ yard' \in Int
<1>1. cans \in Seq(CanRow) /\ trips \in Seq(TripRow) /\ drops \in Seq(DropRow) /\ yard \in Int
  BY DEF FieldTyped, FileTables
<1>2. yard' \in Int
  BY DEF FieldTyped, FileTables
<1> QED
  BY <1>1, <1>2, CanWeights, WorthInt

(* A movement of cans is added. *)
Takes(d, type, qty) ==
    IF d = Nobody
    THEN IF type \in {"OPENING_ON_HAND", "ADJUSTMENT"} THEN qty ELSE IF type \in {"LOST", "DAMAGED"} THEN -qty ELSE 0
    ELSE IF type \in {"OPENING_WITH_CUSTOMER", "DELIVERED_TO_CUSTOMER", "ADJUSTMENT"} THEN -qty
         ELSE IF type = "RETURNED_FROM_CUSTOMER" THEN qty ELSE 0
Stores(table, d, type, qty, new) ==
    /\ table \in Seq(CanRow) /\ d \in Customers \cup {Nobody} /\ type \in CanTypes /\ qty \in Int
    /\ new = table \o Cans(d, type, qty)

LEMMA WorthCans ==
    ASSUME NEW table, NEW d, NEW type, NEW qty, NEW new, Stores(table, d, type, qty, new)
    PROVE  /\ new \in Seq(CanRow)
           /\ Worth(new, Effect) = Worth(table, Effect) + Takes(d, type, qty)
           /\ Worth(table, Effect) \in Int /\ Takes(d, type, qty) \in Int
<1>0. table \in Seq(CanRow) /\ d \in Customers \cup {Nobody} /\ type \in CanTypes /\ qty \in Int
  BY DEF Stores
<1>1. Worth(table, Effect) \in Int
  BY <1>0, CanWeights, WorthInt
<1>2. Takes(d, type, qty) \in Int /\ (qty = 0 => Takes(d, type, qty) = 0)
  BY <1>0 DEF Takes
<1>3. CASE qty = 0
  <2>1. new = table
    BY <1>0, <1>3 DEF Stores, Cans
  <2> QED
    BY <1>0, <1>1, <1>2, <1>3, <2>1
<1>4. CASE qty # 0
  <2> DEFINE row == [who |-> d, type |-> type, qty |-> qty]
  <2>1. row \in CanRow /\ row.who = d /\ row.type = type /\ row.qty = qty
    BY <1>0 DEF CanRow
  <2>2. new = Append(table, row)
    BY <1>0, <1>4, <2>1 DEF Stores, Cans
  <2> HIDE DEF row
  <2>3. Effect[row] = Takes(d, type, qty)
    <3>1. Effect[row] = IF row.who = Nobody THEN InFleet(row) ELSE 0 - WithCustomer(row)
      BY <2>1 DEF Effect
    <3>2. /\ InFleet(row) = IF type \in {"OPENING_ON_HAND", "ADJUSTMENT"} THEN qty
                            ELSE IF type \in {"LOST", "DAMAGED"} THEN -qty ELSE 0
          /\ WithCustomer(row) = IF type \in {"OPENING_WITH_CUSTOMER", "DELIVERED_TO_CUSTOMER", "ADJUSTMENT"} THEN qty
                                 ELSE IF type = "RETURNED_FROM_CUSTOMER" THEN -qty ELSE 0
      BY <2>1 DEF InFleet, WithCustomer
    <3>3. 0 - (-qty) = qty /\ 0 - qty = -qty /\ 0 - 0 = 0
      BY <1>0
    <3> QED
      BY <2>1, <3>1, <3>2, <3>3 DEF Takes
  <2>4. Adds(CanRow, Effect, table, row, new)
    BY <1>0, <2>1, <2>2, CanWeights DEF Adds
  <2>5. Worth(new, Effect) = Worth(table, Effect) + Effect[row]
    BY <2>4, WorthAdd
  <2>6. new \in Seq(CanRow)
    BY <1>0, <2>1, <2>2, Appended
  <2> QED
    BY <1>1, <1>2, <2>3, <2>5, <2>6
<1> QED
  BY <1>3, <1>4

(* What a request does to the cans, told by the changes of the four sums.  *)
LEMMA CansMove ==
    ASSUME FieldTyped, FieldTyped', EveryCan, NEW a \in Int, NEW b \in Int, NEW e \in Int,
           Worth(cans', Effect) = Worth(cans, Effect) + a,
           Worth(trips', Loaded) = Worth(trips, Loaded) + b,
           Worth(drops', Left) = Worth(drops, Left) + e,
           yard' = yard + a - b + e
    PROVE  EveryCan'
<1> DEFINE c == Worth(cans, Effect)
           t == Worth(trips, Loaded)
           d == Worth(drops, Left)
<1>1. c \in Int /\ t \in Int /\ d \in Int /\ yard \in Int /\ c = yard + t - d
  BY CanSums DEF EveryCan
<1>2. EveryCan' <=> Worth(cans', Effect) = yard' + Worth(trips', Loaded) - Worth(drops', Left)
  BY DEF EveryCan, Worth, Effect, Loaded, Left, CanRow, TripRow, DropRow, InFleet, WithCustomer
<1>3. c + a = yard + a - b + e + (t + b) - (d + e)
  <2> HIDE DEF c, t, d
  <2> QED
    BY <1>1
<1> QED
  BY <1>2, <1>3

LEMMA CansStep ==
    ASSUME Orderly, FieldTyped, FieldTyped', EveryCan, FileStep
    PROVE  EveryCan'
<1>0. /\ cans \in Seq(CanRow) /\ trips \in Seq(TripRow) /\ drops \in Seq(DropRow) /\ yard \in Int
      /\ Worth(cans, Effect) \in Int /\ Worth(trips, Loaded) \in Int /\ Worth(drops, Left) \in Int
      /\ \A t \in DOMAIN trips : trips[t] \in TripRow
      /\ \A d \in DOMAIN drops : drops[d] \in DropRow
      /\ Nobody \notin Customers
      /\ \A k \in Desks : FieldFrame(desk[k])
  BY CanSums, SeqDomain, OfficeAssumption DEF FieldTyped
<1>00. /\ scene.who \subseteq Customers /\ scene.stops \subseteq Stop /\ scene.loads \subseteq Nat /\ scene.deltas \subseteq Int
  BY FieldInputs DEF Orderly, Exclusive
<1>000. /\ "OPENING_WITH_CUSTOMER" \in CanTypes /\ "DELIVERED_TO_CUSTOMER" \in CanTypes
        /\ "RETURNED_FROM_CUSTOMER" \in CanTypes /\ "ADJUSTMENT" \in CanTypes
        /\ "OPENING_ON_HAND" \in CanTypes /\ "LOST" \in CanTypes /\ "DAMAGED" \in CanTypes
  BY DEF CanTypes
<1>1. ASSUME UNCHANGED <<cans, trips, drops, yard>> PROVE EveryCan'
  BY <1>1 DEF EveryCan, Worth, Effect, Loaded, Left, CanRow, TripRow, DropRow, InFleet, WithCustomer
<1>2. ASSUME UNCHANGED <<trips, drops>>, NEW a \in Int, Worth(cans', Effect) = Worth(cans, Effect) + a, yard' = yard + a
      PROVE  EveryCan'
  <2>1. Worth(trips', Loaded) = Worth(trips, Loaded) + 0 /\ Worth(drops', Left) = Worth(drops, Left) + 0
    BY <1>0, <1>2
  <2>2. yard' = yard + a - 0 + 0
    BY <1>0, <1>2
  <2> QED
    BY <1>2, <2>1, <2>2, CansMove
<1>3. ASSUME NEW c \in scene.who, NEW opening, NEW holds \in scene.loads, NEW status,
             CreateCustomer(c, opening, holds, status)
      PROVE  EveryCan'
  <2>1. Stores(cans, c, "OPENING_WITH_CUSTOMER", holds, cans') /\ yard' = yard - holds /\ UNCHANGED <<trips, drops>>
    BY <1>0, <1>00, <1>000, <1>3 DEF CreateCustomer, Stores
  <2>2. Takes(c, "OPENING_WITH_CUSTOMER", holds) = -holds /\ holds \in Int
    BY <1>0, <1>00 DEF Takes
  <2>3. Worth(cans', Effect) = Worth(cans, Effect) + (-holds)
    BY <2>1, <2>2, WorthCans
  <2> QED
    BY <1>0, <1>2, <2>1, <2>2, <2>3
<1>4. ASSUME NEW c \in scene.who, NEW delta \in scene.deltas, AdjustContainers(c, delta) PROVE EveryCan'
  <2>1. Stores(cans, c, "ADJUSTMENT", delta, cans') /\ yard' = yard - delta /\ UNCHANGED <<trips, drops>>
    BY <1>0, <1>00, <1>000, <1>4 DEF AdjustContainers, Stores
  <2>2. Takes(c, "ADJUSTMENT", delta) = -delta /\ delta \in Int
    BY <1>0, <1>00 DEF Takes
  <2>3. Worth(cans', Effect) = Worth(cans, Effect) + (-delta)
    BY <2>1, <2>2, WorthCans
  <2> QED
    BY <1>0, <1>2, <2>1, <2>2, <2>3
<1>5. ASSUME NEW k \in Desks, CommitSetOpening(k) PROVE EveryCan'
  <2> DEFINE qty == desk[k].qty
  <2>1. qty \in Int
    BY <1>0, <1>5 DEF CommitSetOpening, Holds, FieldFrame, FleetFrame
  <2>2. Stores(cans, Nobody, "OPENING_ON_HAND", qty, cans') /\ yard' = yard + qty /\ UNCHANGED <<trips, drops>>
    BY <1>0, <1>000, <1>5, <2>1 DEF CommitSetOpening, Stores
  <2>3. Takes(Nobody, "OPENING_ON_HAND", qty) = qty
    BY DEF Takes
  <2>4. Worth(cans', Effect) = Worth(cans, Effect) + qty
    BY <2>2, <2>3, WorthCans
  <2> HIDE DEF qty
  <2> QED
    BY <1>2, <2>1, <2>2, <2>4
<1>6. ASSUME NEW type \in {"ADJUSTMENT", "LOST", "DAMAGED"}, NEW delta \in scene.deltas, AdjustOwned(type, delta)
      PROVE  EveryCan'
  <2> DEFINE row == [who |-> Nobody, type |-> type, qty |-> delta]
             a == Takes(Nobody, type, delta)
  <2>1. Stores(cans, Nobody, type, delta, cans') /\ UNCHANGED <<trips, drops>>
    BY <1>0, <1>00, <1>000, <1>6 DEF AdjustOwned, Stores
  <2>2. yard' = yard + InFleet(Cans(Nobody, type, delta)[1]) /\ delta # 0
    BY <1>6 DEF AdjustOwned
  <2>3. Cans(Nobody, type, delta)[1] = row
    BY <2>2 DEF Cans
  <2>4. InFleet(row) = a
    <3>1. row.type = type /\ row.qty = delta
      OBVIOUS
    <3> HIDE DEF row
    <3> QED
      BY <3>1 DEF InFleet, Takes
  <2>5. a \in Int /\ Worth(cans', Effect) = Worth(cans, Effect) + a
    BY <2>1, WorthCans
  <2>6. yard' = yard + a
    BY <2>2, <2>3, <2>4
  <2> HIDE DEF a
  <2> QED
    BY <1>2, <2>1, <2>5, <2>6
<1>7. ASSUME NEW c \in scene.who, NEW s \in scene.stops, HandOver(c, s) PROVE EveryCan'
  <2> DEFINE half == cans \o Cans(c, "DELIVERED_TO_CUSTOMER", s.out)
  <2>1. s.out \in Int /\ s.back \in Int /\ c \in Customers
    BY <1>00 DEF Stop
  <2>2. Stores(cans, c, "DELIVERED_TO_CUSTOMER", s.out, half)
    BY <1>0, <1>000, <2>1 DEF Stores
  <2>3. /\ cans' = half \o Cans(c, "RETURNED_FROM_CUSTOMER", s.back)
        /\ yard' = yard - s.out + s.back /\ UNCHANGED <<trips, drops>>
    BY <1>7 DEF HandOver
  <2> HIDE DEF half
  <2>4. half \in Seq(CanRow) /\ Worth(half, Effect) = Worth(cans, Effect) + Takes(c, "DELIVERED_TO_CUSTOMER", s.out)
    BY <2>2, WorthCans
  <2>5. Stores(half, c, "RETURNED_FROM_CUSTOMER", s.back, cans')
    BY <1>000, <2>1, <2>3, <2>4 DEF Stores
  <2>6. Worth(cans', Effect) = Worth(half, Effect) + Takes(c, "RETURNED_FROM_CUSTOMER", s.back)
    BY <2>5, WorthCans
  <2>7. Takes(c, "DELIVERED_TO_CUSTOMER", s.out) = -s.out /\ Takes(c, "RETURNED_FROM_CUSTOMER", s.back) = s.back
    BY <1>0, <2>1 DEF Takes
  <2>8. Worth(cans', Effect) = Worth(cans, Effect) + (s.back - s.out) /\ yard' = yard + (s.back - s.out)
    BY <1>0, <2>1, <2>3, <2>4, <2>6, <2>7
  <2> QED
    BY <1>2, <2>1, <2>3, <2>8
<1>8. ASSUME NEW c \in scene.who, NEW s \in scene.stops, NEW t \in DOMAIN trips, Deliver(t, c, s) PROVE EveryCan'
  <2> DEFINE half == cans \o Cans(c, "DELIVERED_TO_CUSTOMER", s.out)
             row == [trip |-> t, who |-> c, out |-> s.out, back |-> s.back, sale |-> s.sale,
                     cash |-> s.cash, day |-> s.day, live |-> TRUE]
  <2>1. s.out \in Int /\ s.back \in Int /\ c \in Customers
    BY <1>00 DEF Stop
  <2>2. Stores(cans, c, "DELIVERED_TO_CUSTOMER", s.out, half)
    BY <1>0, <1>000, <2>1 DEF Stores
  <2>3. /\ cans' = half \o Cans(c, "RETURNED_FROM_CUSTOMER", s.back)
        /\ drops' = Append(drops, row) /\ trips' = trips /\ yard' = yard
    BY <1>8 DEF Deliver
  <2> HIDE DEF half
  <2>4. half \in Seq(CanRow) /\ Worth(half, Effect) = Worth(cans, Effect) + Takes(c, "DELIVERED_TO_CUSTOMER", s.out)
    BY <2>2, WorthCans
  <2>5. Stores(half, c, "RETURNED_FROM_CUSTOMER", s.back, cans')
    BY <1>000, <2>1, <2>3, <2>4 DEF Stores
  <2>6. Worth(cans', Effect) = Worth(half, Effect) + Takes(c, "RETURNED_FROM_CUSTOMER", s.back)
    BY <2>5, WorthCans
  <2>7. Takes(c, "DELIVERED_TO_CUSTOMER", s.out) = -s.out /\ Takes(c, "RETURNED_FROM_CUSTOMER", s.back) = s.back
    BY <1>0, <2>1 DEF Takes
  <2>8. Worth(cans', Effect) = Worth(cans, Effect) + (s.back - s.out)
    BY <1>0, <2>1, <2>4, <2>6, <2>7
  <2>9. row \in DropRow /\ Left[row] = s.out - s.back
    <3>1. /\ s.out \in Nat /\ s.back \in Nat /\ s.sale \in Nat /\ s.cash \in Nat /\ s.day \in Days /\ t \in Nat
      BY <1>0, <1>00, SeqDomain DEF Stop
    <3>2. row \in DropRow /\ row.live /\ row.out = s.out /\ row.back = s.back
      BY <2>1, <3>1 DEF DropRow
    <3> HIDE DEF row
    <3> QED
      BY <3>2 DEF Left
  <2> HIDE DEF row
  <2>10. Worth(drops', Left) = Worth(drops, Left) + (s.out - s.back)
    <3>1. Adds(DropRow, Left, drops, row, drops')
      BY <1>0, <2>3, <2>9, CanWeights DEF Adds
    <3> QED
      BY <2>9, <3>1, WorthAdd
  <2>11. Worth(trips', Loaded) = Worth(trips, Loaded) + 0
    BY <1>0, <2>3
  <2>12. s.back - s.out \in Int /\ s.out - s.back \in Int /\ yard' = yard + (s.back - s.out) - 0 + (s.out - s.back)
    <3>1. \A y, o, b \in Int : y = y + (b - o) - 0 + (o - b) /\ b - o \in Int /\ o - b \in Int
      OBVIOUS
    <3> QED
      BY <1>0, <2>1, <2>3, <3>1, SMTT(30)
  <2> QED
    BY <2>8, <2>10, <2>11, <2>12, CansMove
<1>9. ASSUME NEW d \in DOMAIN drops, CancelDrop(d) PROVE EveryCan'
  <2> DEFINE s == drops[d]
             half == cans \o Cans(s.who, "ADJUSTMENT", -s.out)
             row == [s EXCEPT !.live = FALSE]
  <2>1. s \in DropRow
    BY <1>0
  <2>2. /\ cans' = half \o Cans(s.who, "ADJUSTMENT", -s.back) /\ s.live
        /\ drops' = [drops EXCEPT ![d] = row] /\ trips' = trips /\ yard' = yard
    BY <1>9 DEF CancelDrop
  <2> HIDE DEF s
  <2>3. s.out \in Int /\ s.back \in Int /\ s.who \in Customers /\ -s.out \in Int /\ -s.back \in Int
    BY <2>1 DEF DropRow
  <2>4. row \in DropRow /\ Left[row] = 0 - (s.back + s.back) /\ Left[s] = s.out - s.back
    <3>1. row \in DropRow /\ ~row.live /\ row.out = s.out /\ row.back = s.back
      BY <2>1 DEF DropRow
    <3> HIDE DEF row
    <3> QED
      BY <2>1, <2>2, <3>1 DEF Left
  <2>5. Stores(cans, s.who, "ADJUSTMENT", -s.out, half)
    BY <1>0, <1>000, <2>3 DEF Stores
  <2> HIDE DEF half
  <2>6. half \in Seq(CanRow) /\ Worth(half, Effect) = Worth(cans, Effect) + Takes(s.who, "ADJUSTMENT", -s.out)
    BY <2>5, WorthCans
  <2>7. Stores(half, s.who, "ADJUSTMENT", -s.back, cans')
    BY <1>000, <2>2, <2>3, <2>6 DEF Stores
  <2>8. Worth(cans', Effect) = Worth(half, Effect) + Takes(s.who, "ADJUSTMENT", -s.back)
    BY <2>7, WorthCans
  <2>9. Takes(s.who, "ADJUSTMENT", -s.out) = s.out /\ Takes(s.who, "ADJUSTMENT", -s.back) = s.back
    BY <1>0, <2>3 DEF Takes
  <2>10. Worth(cans', Effect) = Worth(cans, Effect) + (s.out + s.back)
    BY <1>0, <2>3, <2>6, <2>8, <2>9
  <2> HIDE DEF row
  <2>11. Worth(drops', Left) = Worth(drops, Left) + (-(s.out + s.back))
    <3>1. Puts(DropRow, Left, drops, d, row, drops')
      BY <1>0, <2>2, <2>4, CanWeights DEF Puts
    <3>2. Worth(drops', Left) = Worth(drops, Left) - Left[drops[d]] + Left[row]
      BY <3>1, WorthPut
    <3>3. Left[drops[d]] = s.out - s.back
      BY <2>4 DEF s
    <3> QED
      BY <1>0, <2>3, <2>4, <3>2, <3>3, SMTT(30)
  <2>12. Worth(trips', Loaded) = Worth(trips, Loaded) + 0
    BY <1>0, <2>2
  <2>13. s.out + s.back \in Int /\ -(s.out + s.back) \in Int /\ yard' = yard + (s.out + s.back) - 0 + (-(s.out + s.back))
    <3>1. \A y, o, b \in Int : y = y + (o + b) - 0 + (-(o + b)) /\ o + b \in Int /\ -(o + b) \in Int
      OBVIOUS
    <3>2. yard' = yard /\ yard \in Int /\ s.out \in Int /\ s.back \in Int
      BY <1>0, <2>2, <2>3
    <3> QED
      BY <3>1, <3>2
  <2> QED
    BY <2>10, <2>11, <2>12, <2>13, CansMove
<1>10. ASSUME UNCHANGED <<cans, drops>>, NEW b \in Int, Worth(trips', Loaded) = Worth(trips, Loaded) + b, yard' = yard - b
       PROVE  EveryCan'
  <2>1. Worth(cans', Effect) = Worth(cans, Effect) + 0 /\ Worth(drops', Left) = Worth(drops, Left) + 0
    BY <1>0, <1>10
  <2>2. yard' = yard + 0 - b + 0
    BY <1>0, <1>10
  <2> QED
    BY <1>10, <2>1, <2>2, CansMove
<1>11. ASSUME NEW r \in Riders, NEW filled \in scene.loads, NEW empty \in scene.loads, OpenTrip(r, filled, empty) PROVE EveryCan'
  <2> DEFINE row == [rider |-> r, open |-> TRUE, filled |-> filled, empty |-> empty, counted |-> 0]
  <2>1. filled \in Nat /\ empty \in Nat
    BY <1>00
  <2>2. row \in TripRow /\ Loaded[row] = filled + empty
    <3>1. row \in TripRow /\ row.open /\ row.filled = filled /\ row.empty = empty
      BY <2>1 DEF TripRow
    <3> HIDE DEF row
    <3> QED
      BY <2>1, <3>1 DEF Loaded
  <2>3. trips' = Append(trips, row) /\ yard' = yard - filled - empty /\ UNCHANGED <<cans, drops>>
    BY <1>11 DEF OpenTrip
  <2> HIDE DEF row
  <2>4. Adds(TripRow, Loaded, trips, row, trips')
    BY <1>0, <2>2, <2>3, CanWeights DEF Adds
  <2>5. Worth(trips', Loaded) = Worth(trips, Loaded) + (filled + empty)
    BY <2>2, <2>4, WorthAdd
  <2>6. filled + empty \in Int /\ yard' = yard - (filled + empty)
    BY <1>0, <2>1, <2>3
  <2> QED
    BY <1>10, <2>3, <2>5, <2>6
<1>12. ASSUME NEW t \in DOMAIN trips, NEW row \in TripRow, trips' = [trips EXCEPT ![t] = row],
              yard' = yard + Loaded[trips[t]] - Loaded[row], UNCHANGED <<cans, drops>>
       PROVE  EveryCan'
  <2> DEFINE x == Loaded[trips[t]]
             y == Loaded[row]
  <2>1. Puts(TripRow, Loaded, trips, t, row, trips')
    BY <1>0, <1>12, CanWeights DEF Puts
  <2>2. Worth(trips', Loaded) = Worth(trips, Loaded) - x + y
    BY <2>1, WorthPut
  <2>3. x \in Int /\ y \in Int
    BY <1>0, <1>12, CanWeights
  <2>4. yard' = yard + x - y
    BY <1>12
  <2> HIDE DEF x, y
  <2>5. Worth(trips', Loaded) = Worth(trips, Loaded) + (y - x) /\ yard' = yard - (y - x) /\ y - x \in Int
    BY <1>0, <2>2, <2>3, <2>4
  <2> QED
    BY <1>10, <1>12, <2>5
<1>13. ASSUME NEW t \in DOMAIN trips, NEW filled \in scene.loads, NEW empty \in scene.loads, ReloadTrip(t, filled, empty)
       PROVE  EveryCan'
  <2> DEFINE old == trips[t]
             row == [old EXCEPT !.filled = filled, !.empty = empty]
  <2>1. /\ trips' = [trips EXCEPT ![t].filled = filled, ![t].empty = empty] /\ old.open
        /\ yard' = yard + (old.filled + old.empty) - (filled + empty) /\ UNCHANGED <<cans, drops>>
    BY <1>13 DEF ReloadTrip
  <2>2. trips' = [trips EXCEPT ![t] = row]
    BY <2>1, Zenon
  <2>3. old \in TripRow /\ filled \in Nat /\ empty \in Nat
    BY <1>0, <1>00
  <2> HIDE DEF old
  <2>4. row \in TripRow /\ row.filled = filled /\ row.empty = empty /\ row.open
    BY <2>1, <2>3 DEF TripRow
  <2> HIDE DEF row
  <2>5. Loaded[row] = filled + empty /\ Loaded[old] = old.filled + old.empty /\ old.filled \in Nat /\ old.empty \in Nat
    <3>1. old.filled \in Nat /\ old.empty \in Nat
      BY <2>3 DEF TripRow
    <3> QED
      BY <2>1, <2>3, <2>4, <3>1 DEF Loaded
  <2>6. yard' = yard + Loaded[trips[t]] - Loaded[row]
    BY <2>1, <2>5 DEF old
  <2> QED
    BY <1>12, <2>1, <2>2, <2>4, <2>6
<1>14. ASSUME NEW t \in DOMAIN trips, NEW counted \in scene.loads, CloseTrip(t, counted) PROVE EveryCan'
  <2> DEFINE old == trips[t]
             row == [old EXCEPT !.open = FALSE, !.counted = counted]
  <2>1. /\ trips' = [trips EXCEPT ![t].open = FALSE, ![t].counted = counted] /\ old.open
        /\ yard' = yard + counted /\ UNCHANGED <<cans, drops>>
    BY <1>14 DEF CloseTrip
  <2>2. trips' = [trips EXCEPT ![t] = row]
    BY <2>1, Zenon
  <2>3. old \in TripRow /\ counted \in Nat
    BY <1>0, <1>00
  <2> HIDE DEF old
  <2>4. row \in TripRow /\ row.filled = old.filled /\ row.empty = old.empty /\ ~row.open /\ row.counted = counted
    BY <2>1, <2>3 DEF TripRow
  <2> HIDE DEF row
  <2>5. /\ Loaded[row] = old.filled + old.empty - counted /\ Loaded[old] = old.filled + old.empty
        /\ old.filled \in Nat /\ old.empty \in Nat
    <3>1. old.filled \in Nat /\ old.empty \in Nat
      BY <2>3 DEF TripRow
    <3> QED
      BY <2>1, <2>3, <2>4, <3>1 DEF Loaded
  <2>6. yard' = yard + Loaded[old] - Loaded[row]
    BY <1>0, <2>1, <2>3, <2>5
  <2>7. yard' = yard + Loaded[trips[t]] - Loaded[row]
    BY <2>6 DEF old
  <2> QED
    BY <1>12, <2>1, <2>2, <2>4, <2>7
<1>15. ASSUME NEW k, (\E c, put : BeginUpdateCustomer(k, c, put)) \/ (\E c : BeginDeactivate(k, c))
              \/ CommitUpdateCustomer(k) \/ \E qty : BeginSetOpening(k, qty)
       PROVE  EveryCan'
  <2>1. UNCHANGED <<cans, trips, drops, yard>>
    BY <1>15 DEF BeginUpdateCustomer, BeginDeactivate, CommitUpdateCustomer, BeginSetOpening, fileVars
  <2> QED
    BY <1>1, <2>1
<1> QED
  BY <1>3, <1>4, <1>5, <1>6, <1>7, <1>8, <1>9, <1>11, <1>13, <1>14, <1>15 DEF FileStep

LEMMA CashKeepsCans ==
    ASSUME CashStep PROVE UNCHANGED <<cans, trips, drops, yard>>
<1>1. ASSUME NEW k, \/ \E r, amount, day : BeginCreateHandover(k, r, amount, day)
                    \/ \E c, r, outcome, amount, day : BeginVisit(k, c, r, outcome, amount, day)
                    \/ \E h, put : BeginUpdateHandover(k, h, put)
                    \/ \E x, put : BeginUpdateExpense(k, x, put)
      PROVE  UNCHANGED <<cans, trips, drops, yard>>
  BY <1>1 DEF BeginCreateHandover, BeginVisit, BeginUpdateHandover, BeginUpdateExpense, fileVars
<1>2. ASSUME NEW k, \/ CommitCreateHandover(k) \/ CommitUpdateHandover(k) \/ CommitUpdateExpense(k)
                    \/ VisitPays(k) \/ VisitPromises(k) \/ VisitRecords(k)
      PROVE  UNCHANGED <<cans, trips, drops, yard>>
  BY <1>2 DEF CommitCreateHandover, CommitUpdateHandover, CommitUpdateExpense, VisitPays, VisitPromises, VisitRecords,
              fileVars
<1>3. ASSUME \/ \E staff, byRider, amount, day : CreateExpense(staff, byRider, amount, day)
             \/ \E h : RemoveHandover(h)
             \/ \E x : RemoveExpense(x)
             \/ \E p : RemovePayment(p)
      PROVE  UNCHANGED <<cans, trips, drops, yard>>
  BY <1>3 DEF CreateExpense, RemoveHandover, RemoveExpense, RemovePayment, fileVars
<1> QED
  BY <1>1, <1>2, <1>3 DEF CashStep

LEMMA EveryCanStep ==
    ASSUME Orderly, FieldTyped, FieldTyped', EveryCan, [Next]_vars
    PROVE  EveryCan'
<1>1. ASSUME UNCHANGED <<cans, trips, drops, yard>> PROVE EveryCan'
  BY <1>1 DEF EveryCan, Worth, Effect, Loaded, Left, CanRow, TripRow, DropRow, InFleet, WithCustomer
<1>2. CASE FileStep
  BY <1>2, CansStep
<1>3. CASE CashStep
  BY <1>1, <1>3, CashKeepsCans
<1>4. CASE UNCHANGED fileVars
  BY <1>1, <1>4 DEF fileVars
<1>5. CASE \E k \in Desks : Abort(k)
  BY <1>1, <1>5 DEF Abort, fileVars
<1>6. CASE UNCHANGED vars
  BY <1>1, <1>6 DEF vars, fileVars
<1> QED
  BY <1>2, <1>3, <1>4, <1>5, <1>6 DEF Next

LEMMA EveryCanAlways == Spec => []EveryCan
<1>1. Orderly /\ FieldTyped /\ FieldTyped' /\ EveryCan /\ [Next]_vars => EveryCan'
  BY EveryCanStep
<1>2. Init => EveryCan
  <2> SUFFICES ASSUME Init PROVE EveryCan
    OBVIOUS
  <2>1. cans = <<>> /\ trips = <<>> /\ drops = <<>> /\ yard = 0
    BY DEF Init
  <2>2. Worth(cans, Effect) = 0 /\ Worth(trips, Loaded) = 0 /\ Worth(drops, Left) = 0
    BY <2>1, WorthNothing
  <2> QED
    BY <2>1, <2>2 DEF EveryCan
<1> QED
  BY <1>1, <1>2, OrderlyAlways, FieldTypedAlways, PTL DEF Spec

(* One sum is another less a third.                                        *)
Differ(S, f, g, h) ==
    /\ IsFiniteSet(S) /\ DOMAIN f = S /\ DOMAIN g = S /\ DOMAIN h = S
    /\ \A x \in S : f[x] \in Int /\ g[x] \in Int /\ h[x] = f[x] - g[x]
LEMMA SumsDiffer ==
    ASSUME NEW S, NEW f, NEW g, NEW h, Differ(S, f, g, h)
    PROVE  /\ SumFunction(h) = SumFunction(f) - SumFunction(g)
           /\ SumFunction(f) \in Int /\ SumFunction(g) \in Int /\ SumFunction(h) \in Int
<1>1. /\ IsFiniteSet(S) /\ DOMAIN f = S /\ DOMAIN g = S /\ DOMAIN h = S
      /\ \A x \in S : f[x] \in Int /\ g[x] \in Int /\ h[x] = f[x] - g[x]
  BY DEF Differ
<1>2. /\ SumFunction(h) = SumFunction(f) - SumFunction(g)
      /\ SumFunction(f) \in Int /\ SumFunction(g) \in Int
  BY <1>1, TotalMinus
<1> QED
  BY <1>2

(* The cans of the fleet and of the customers, as the movements tell them. *)
InPool == [row \in CanRow |-> IF row.who = Nobody THEN InFleet(row) ELSE 0]
Held == [row \in CanRow |-> IF row.who = Nobody THEN 0 ELSE WithCustomer(row)]

LEMMA PoolWorth ==
    ASSUME FieldTyped
    PROVE  /\ OwnedTotal = Worth(cans, InPool)
           /\ InPool \in [CanRow -> Int] /\ Held \in [CanRow -> Int]
<1>1. InPool \in [CanRow -> Int] /\ Held \in [CanRow -> Int]
  BY DEF InPool, Held, CanRow, InFleet, WithCustomer
<1>2. cans \in Seq(CanRow) /\ \A i \in DOMAIN cans : cans[i] \in CanRow
  BY SeqDomain DEF FieldTyped, FileTables
<1> DEFINE T == CansOf(Nobody)
           g == [i \in T |-> InFleet(cans[i])]
<1>3. T \in SUBSET (DOMAIN cans) /\ \A i \in DOMAIN cans : i \in T <=> cans[i].who = Nobody
  BY DEF CansOf
<1>4. \A i \in DOMAIN cans : InPool[cans[i]] = IF cans[i].who = Nobody THEN InFleet(cans[i]) ELSE 0
  BY <1>2 DEF InPool
<1>5. OwnedTotal = SumFunction(g)
  BY DEF OwnedTotal
<1>6. DOMAIN g = T /\ \A i \in T : g[i] = InPool[cans[i]]
  <2> HIDE DEF T
  <2> QED
    BY <1>3, <1>4
<1> HIDE DEF T, g
<1>7. \A i \in DOMAIN cans : i \notin T => InPool[cans[i]] = 0
  BY <1>3, <1>4
<1> QED
  BY <1>1, <1>2, <1>3, <1>5, <1>6, <1>7, WorthWithin

LEMMA HeldWorth ==
    ASSUME FieldTyped
    PROVE  SumFunction([c \in Customers |-> ContainerBalance(c)]) = Worth(cans, Held)
<1>1. Held \in [CanRow -> Int]
  BY PoolWorth
<1>2. /\ cans \in Seq(CanRow) /\ IsFiniteSet(DOMAIN cans) /\ \A i \in DOMAIN cans : cans[i] \in CanRow
      /\ IsFiniteSet(Customers) /\ Nobody \notin Customers
  BY SeqDomain, OfficeAssumption DEF FieldTyped, FileTables
<1> DEFINE R == {i \in DOMAIN cans : cans[i].who \in Customers}
           f == [i \in R |-> WithCustomer(cans[i])]
           key == [i \in R |-> cans[i].who]
           Of(c) == {x \in R : key[x] = c}
           all == [c \in Customers |-> ContainerBalance(c)]
<1>3. IsFiniteSet(R) /\ R \in SUBSET (DOMAIN cans)
  BY <1>2, FS_Subset
<1>4. \A i \in DOMAIN cans : Held[cans[i]] = IF cans[i].who = Nobody THEN 0 ELSE WithCustomer(cans[i])
  BY <1>2 DEF Held
<1>5. \A i \in DOMAIN cans : i \in R <=> cans[i].who # Nobody
  BY <1>2 DEF CanRow
<1>6. \A r \in R : f[r] = WithCustomer(cans[r]) /\ f[r] = Held[cans[r]] /\ f[r] \in Int /\ key[r] \in Customers
  BY <1>1, <1>2, <1>4, <1>5
<1>7. \A c \in Customers : Of(c) = CansOf(c)
  BY DEF CansOf
<1>8. ASSUME NEW c \in Customers PROVE ContainerBalance(c) = SumFunction([r \in Of(c) |-> f[r]])
  <2>1. [r \in Of(c) |-> f[r]] = [i \in CansOf(c) |-> WithCustomer(cans[i])]
    <3>1. Of(c) = CansOf(c) /\ \A r \in Of(c) : f[r] = WithCustomer(cans[r])
      BY <1>6, <1>7
    <3> HIDE DEF Of, f
    <3> QED
      BY <3>1
  <2> QED
    BY <2>1 DEF ContainerBalance
<1>9. f = [r \in R |-> f[r]] /\ all = [c \in Customers |-> all[c]]
  OBVIOUS
<1>10. Parted(R, Customers, f, key, all)
  <2>1. DOMAIN f = R /\ DOMAIN all = Customers /\ \A c \in Customers : all[c] = ContainerBalance(c)
    OBVIOUS
  <2>2. \A c \in Customers : all[c] = SumFunction([r \in {x \in R : key[x] = c} |-> f[r]])
    BY <1>8, <2>1
  <2> HIDE DEF R, f, key, all
  <2> QED
    BY <1>2, <1>3, <1>6, <1>9, <2>2 DEF Parted
<1>11. SumFunction(f) = Worth(cans, Held)
  <2>1. DOMAIN f = R /\ \A i \in R : f[i] = Held[cans[i]]
    BY <1>6
  <2>2. \A i \in DOMAIN cans : i \notin R => Held[cans[i]] = 0
    BY <1>4, <1>5
  <2> HIDE DEF R, f
  <2> QED
    BY <1>1, <1>2, <1>3, <2>1, <2>2, WorthWithin
<1>12. SumFunction(all) = SumFunction(f)
  <2> HIDE DEF R, f, key, all
  <2> QED
    BY <1>10, SumOfParts
<1> QED
  BY <1>11, <1>12

LEMMA EffectWorth ==
    ASSUME FieldTyped
    PROVE  /\ Worth(cans, Effect) = OwnedTotal - SumFunction([c \in Customers |-> ContainerBalance(c)])
           /\ OwnedTotal \in Int /\ SumFunction([c \in Customers |-> ContainerBalance(c)]) \in Int
<1>1. cans \in Seq(CanRow) /\ IsFiniteSet(DOMAIN cans) /\ \A i \in DOMAIN cans : cans[i] \in CanRow
  BY SeqDomain DEF FieldTyped, FileTables
<1> DEFINE f == [i \in DOMAIN cans |-> InPool[cans[i]]]
           g == [i \in DOMAIN cans |-> Held[cans[i]]]
           h == [i \in DOMAIN cans |-> Effect[cans[i]]]
<1>2. \A row \in CanRow : /\ InPool[row] \in Int /\ Held[row] \in Int
                          /\ Effect[row] = IF row.who = Nobody THEN InFleet(row) ELSE 0 - WithCustomer(row)
                          /\ InPool[row] = IF row.who = Nobody THEN InFleet(row) ELSE 0
                          /\ Held[row] = IF row.who = Nobody THEN 0 ELSE WithCustomer(row)
  BY PoolWorth DEF Effect, InPool, Held
<1>3. \A row \in CanRow : Effect[row] = InPool[row] - Held[row]
  BY <1>2
<1>4. /\ DOMAIN f = DOMAIN cans /\ DOMAIN g = DOMAIN cans /\ DOMAIN h = DOMAIN cans
      /\ \A i \in DOMAIN cans : f[i] \in Int /\ g[i] \in Int /\ h[i] = f[i] - g[i]
  BY <1>1, <1>2, <1>3
<1> HIDE DEF f, g, h
<1>5. SumFunction(h) = SumFunction(f) - SumFunction(g) /\ SumFunction(f) \in Int /\ SumFunction(g) \in Int
  <2>1. Differ(DOMAIN cans, f, g, h)
    BY <1>1, <1>4 DEF Differ
  <2> QED
    BY <2>1, SumsDiffer
<1>6. Worth(cans, Effect) = SumFunction(h) /\ Worth(cans, InPool) = SumFunction(f) /\ Worth(cans, Held) = SumFunction(g)
  BY DEF f, g, h, Worth
<1> QED
  BY <1>5, <1>6, PoolWorth, HeldWorth

(* What the deliveries of a trip have left with the customers. *)
LEMMA TripLeaves ==
    ASSUME FieldTyped, \A d \in DOMAIN drops : drops[d].live \/ drops[d].back = 0, NEW t
    PROVE  /\ Out(t) - Back(t) = SumFunction([d \in {d \in DOMAIN drops : drops[d].trip = t} |-> Left[drops[d]]])
           /\ Out(t) \in Int /\ Back(t) \in Int
<1>1. /\ IsFiniteSet(DOMAIN drops) /\ \A d \in DOMAIN drops : drops[d] \in DropRow
  BY SeqDomain DEF FieldTyped, FileTables
<1> DEFINE L == LiveDrops(t)
           O == {d \in DOMAIN drops : drops[d].trip = t}
           f == [d \in L |-> drops[d].out]
           g == [d \in L |-> drops[d].back]
           h == [d \in L |-> drops[d].out - drops[d].back]
           all == [d \in O |-> Left[drops[d]]]
<1>2. /\ L \in SUBSET O /\ O \in SUBSET (DOMAIN drops) /\ \A d \in O : d \in L <=> drops[d].live
  BY DEF LiveDrops
<1>3. IsFiniteSet(L) /\ IsFiniteSet(O)
  BY <1>1, <1>2, FS_Subset
<1>4. \A d \in DOMAIN drops :
          /\ drops[d].out \in Int /\ drops[d].back \in Int
          /\ Left[drops[d]] = IF drops[d].live THEN drops[d].out - drops[d].back
                              ELSE 0 - (drops[d].back + drops[d].back)
          /\ ~drops[d].live => drops[d].back = 0
  <2>1. \A row \in DropRow : /\ row.out \in Int /\ row.back \in Int
                             /\ Left[row] = IF row.live THEN row.out - row.back ELSE 0 - (row.back + row.back)
    BY DEF Left, DropRow
  <2> QED
    BY <1>1, <2>1
<1>5. \A d \in O : all[d] = IF d \in L THEN h[d] ELSE 0
  <2>1. \A n \in Int : n = 0 => 0 - (n + n) = 0
    OBVIOUS
  <2>2. \A d \in O : d \notin L => Left[drops[d]] = 0
    BY <1>2, <1>4, <2>1
  <2>3. \A d \in O : d \in L => Left[drops[d]] = drops[d].out - drops[d].back
    BY <1>2, <1>4
  <2> HIDE DEF L, O
  <2> QED
    BY <2>2, <2>3
<1>6. \A d \in O : all[d] \in Int
  <2>1. \A d \in L : h[d] \in Int
    BY <1>2, <1>4
  <2> HIDE DEF all, h, L, O
  <2> QED
    BY <1>5, <2>1
<1>7. Differ(L, f, g, h)
  <2> HIDE DEF L
  <2> QED
    BY <1>2, <1>3, <1>4 DEF Differ
<1>8. SumFunction(h) = SumFunction(f) - SumFunction(g) /\ SumFunction(f) \in Int /\ SumFunction(g) \in Int
  <2> HIDE DEF L, f, g, h
  <2> QED
    BY <1>7, SumsDiffer
<1>9. SumFunction(h) = SumFunction(all)
  <2>1. DOMAIN all = O /\ DOMAIN h = L
    OBVIOUS
  <2> HIDE DEF L, O, h, all
  <2> QED
    BY <1>2, <1>3, <1>5, <1>6, <2>1, TotalWithin
<1>10. Out(t) = SumFunction(f) /\ Back(t) = SumFunction(g)
  BY DEF Out, Back
<1> QED
  BY <1>8, <1>9, <1>10

LEMMA TripsLeave ==
    ASSUME FieldTyped, \A d \in DOMAIN drops : drops[d].live \/ drops[d].back = 0
    PROVE  SumFunction([t \in DOMAIN trips |-> Out(t) - Back(t)]) = Worth(drops, Left)
<1> DEFINE R == DOMAIN drops
           K == DOMAIN trips
           f == [d \in R |-> Left[drops[d]]]
           key == [d \in R |-> drops[d].trip]
           g == [t \in K |-> Out(t) - Back(t)]
<1>1. IsFiniteSet(R) /\ IsFiniteSet(K) /\ \A d \in R : drops[d] \in DropRow /\ drops[d].trip \in K
  BY SeqDomain DEF FieldTyped, FileTables
<1>2. \A d \in R : f[d] \in Int /\ f[d] = Left[drops[d]] /\ key[d] \in K /\ key[d] = drops[d].trip
  BY <1>1, CanWeights
<1>3. ASSUME NEW t \in K PROVE g[t] = SumFunction([d \in {x \in R : key[x] = t} |-> f[d]])
  <2>1. g[t] = SumFunction([d \in {d \in DOMAIN drops : drops[d].trip = t} |-> Left[drops[d]]])
    BY TripLeaves
  <2>2. {d \in DOMAIN drops : drops[d].trip = t} = {x \in R : key[x] = t}
    OBVIOUS
  <2>3. [d \in {d \in DOMAIN drops : drops[d].trip = t} |-> Left[drops[d]]] = [d \in {x \in R : key[x] = t} |-> f[d]]
    BY <2>2
  <2> QED
    BY <2>1, <2>3
<1>4. f = [r \in R |-> f[r]] /\ g = [t \in K |-> g[t]]
  OBVIOUS
<1>5. Worth(drops, Left) = SumFunction(f)
  BY DEF Worth
<1> HIDE DEF R, K, f, key, g
<1>6. Parted(R, K, f, key, g)
  BY <1>1, <1>2, <1>3, <1>4 DEF Parted
<1>7. SumFunction(g) = SumFunction(f)
  BY <1>6, SumOfParts
<1> QED
  BY <1>5, <1>7 DEF g, K

(* The inventory says that the cans on hand are those in the yard, the     *)
(* empties of the runs that are out and what closed runs miss              *)
(* (container-inventory.service.ts), while no delivery that took empties   *)
(* back is cancelled: what the movements, the runs and the deliveries of   *)
(* any history add up to is the same number of cans.                       *)
THEOREM CansAddUp == Spec => []CansConserved
<1>1. FieldTyped /\ EveryCan => CansConserved
  <2> SUFFICES ASSUME FieldTyped, EveryCan, \A d \in DOMAIN drops : drops[d].live \/ drops[d].back = 0
               PROVE  CansAccounted
    BY DEF CansConserved
  <2> DEFINE K == DOMAIN trips
             v == [t \in OpenTrips |-> trips[t].filled - Out(t)]
             vv == [t \in K |-> IF trips[t].open THEN trips[t].filled - Out(t) ELSE 0]
             e == [t \in K |-> IF trips[t].open THEN trips[t].empty + Back(t) ELSE MissingContainers(t)]
             l == [t \in K |-> Loaded[trips[t]]]
             b == [t \in K |-> Out(t) - Back(t)]
             h == [t \in K |-> Loaded[trips[t]] - (Out(t) - Back(t))]
  <2>1. IsFiniteSet(K) /\ \A t \in K : trips[t] \in TripRow
    BY SeqDomain DEF FieldTyped, FileTables
  <2>2. \A t \in K : /\ trips[t].filled \in Int /\ trips[t].empty \in Int /\ trips[t].counted \in Int
                     /\ trips[t].open \in BOOLEAN
                     /\ Loaded[trips[t]] = trips[t].filled + trips[t].empty - (IF trips[t].open THEN 0 ELSE trips[t].counted)
    <3>1. \A row \in TripRow : /\ row.filled \in Int /\ row.empty \in Int /\ row.counted \in Int /\ row.open \in BOOLEAN
                               /\ Loaded[row] = row.filled + row.empty - (IF row.open THEN 0 ELSE row.counted)
      BY DEF Loaded, TripRow
    <3> QED
      BY <2>1, <3>1
  <2>3. \A t \in K : Out(t) \in Int /\ Back(t) \in Int
    BY TripLeaves
  <2>4. Differ(K, l, b, h)
    <3>1. \A t \in K : l[t] \in Int /\ b[t] \in Int /\ h[t] = l[t] - b[t]
      BY <2>2, <2>3
    <3>2. DOMAIN l = K /\ DOMAIN b = K /\ DOMAIN h = K
      OBVIOUS
    <3> HIDE DEF K, l, b, h
    <3> QED
      BY <2>1, <3>1, <3>2 DEF Differ
  <2>5. Differ(K, h, vv, e)
    <3>1. ASSUME NEW t \in K PROVE h[t] \in Int /\ vv[t] \in Int /\ e[t] = h[t] - vv[t]
      <4>1. /\ trips[t].filled \in Int /\ trips[t].empty \in Int /\ trips[t].counted \in Int
            /\ Out(t) \in Int /\ Back(t) \in Int
            /\ Loaded[trips[t]] = trips[t].filled + trips[t].empty - (IF trips[t].open THEN 0 ELSE trips[t].counted)
        BY <2>2, <2>3
      <4>2. /\ h[t] = Loaded[trips[t]] - (Out(t) - Back(t))
            /\ vv[t] = IF trips[t].open THEN trips[t].filled - Out(t) ELSE 0
            /\ e[t] = IF trips[t].open THEN trips[t].empty + Back(t)
                      ELSE (trips[t].filled - Out(t)) + (trips[t].empty + Back(t)) - trips[t].counted
        BY DEF MissingContainers
      <4> HIDE DEF h, vv, e
      <4>3. CASE trips[t].open
        BY <4>1, <4>2, <4>3
      <4>4. CASE ~trips[t].open
        BY <4>1, <4>2, <4>4
      <4> QED
        BY <4>3, <4>4
    <3>2. DOMAIN h = K /\ DOMAIN vv = K /\ DOMAIN e = K
      OBVIOUS
    <3> HIDE DEF K, h, vv, e
    <3> QED
      BY <2>1, <3>1, <3>2 DEF Differ
  <2>6. OnVehicles = SumFunction(vv)
    <3>1. OnVehicles = SumFunction(v)
      BY DEF OnVehicles
    <3>2. /\ DOMAIN vv = K /\ DOMAIN v = OpenTrips /\ OpenTrips \in SUBSET K
          /\ \A t \in K : t \in OpenTrips <=> trips[t].open
      BY DEF OpenTrips
    <3>3. \A t \in K : vv[t] \in Int /\ vv[t] = IF t \in OpenTrips THEN v[t] ELSE 0
      <4>1. \A t \in OpenTrips : v[t] = trips[t].filled - Out(t)
        OBVIOUS
      <4>2. \A t \in K : vv[t] = IF trips[t].open THEN trips[t].filled - Out(t) ELSE 0
        OBVIOUS
      <4> HIDE DEF K, v, vv
      <4> QED
        BY <2>2, <2>3, <3>2, <4>1, <4>2
    <3> HIDE DEF K, v, vv
    <3> QED
      BY <2>1, <3>1, <3>2, <3>3, TotalWithin
  <2>7. SumFunction(l) = Worth(trips, Loaded) /\ SumFunction(b) = Worth(drops, Left)
    BY TripsLeave DEF Worth
  <2>8. CansAccounted <=> OnHand = yard + SumFunction(e)
    BY DEF CansAccounted
  <2>9. OnHand = Worth(cans, Effect) - OnVehicles
    <3> DEFINE o == OwnedTotal
               s == SumFunction([c \in Customers |-> ContainerBalance(c)])
    <3>1. Worth(cans, Effect) = o - s
      BY EffectWorth
    <3>2. OnHand = o - s - OnVehicles
      BY DEF OnHand
    <3> QED
      BY <3>1, <3>2
  <2>10. Worth(cans, Effect) = yard + Worth(trips, Loaded) - Worth(drops, Left) /\ yard \in Int
    BY DEF EveryCan, FieldTyped, FileTables
  <2> HIDE DEF l, b, h, vv, e, K
  <2>11. /\ SumFunction(h) = SumFunction(l) - SumFunction(b)
         /\ SumFunction(l) \in Int /\ SumFunction(b) \in Int
    BY <2>4, SumsDiffer
  <2>12. /\ SumFunction(e) = SumFunction(h) - SumFunction(vv)
         /\ SumFunction(h) \in Int /\ SumFunction(vv) \in Int
    BY <2>5, SumsDiffer
  <2> QED
    BY <2>6, <2>7, <2>8, <2>9, <2>10, <2>11, <2>12
<1> QED
  BY <1>1, FieldTypedAlways, EveryCanAlways, PTL

(* What the steps of the other parts leave to the cash.                    *)
LEMMA CashApart ==
    ASSUME Orderly, [Next]_vars
    PROVE  \/ CashStep
           \/ /\ UNCHANGED cashVars /\ crossed \subseteq crossed'
              /\ \A k \in Desks : \/ desk'[k] = desk[k]
                                  \/ /\ desk'[k].op \notin CashOps
                                     /\ desk[k].op \in CashOps => desk[k].on \subseteq crossed'
<1>0. Exclusive
  BY DEF Orderly
<1>1. ASSUME NEW ops \in {FactoryOps, FileOps, CatalogOps}, Own(ops), Took(ops)
      PROVE  /\ crossed \subseteq crossed'
             /\ \A k \in Desks : \/ desk'[k] = desk[k]
                                 \/ desk'[k].op \notin CashOps /\ desk[k].op \notin CashOps
  BY <1>1 DEF Own, Took, FactoryOps, FileOps, CatalogOps, CashOps
<1>2. ASSUME NEW k \in Desks, Abort(k), desk'[k] = Idle, \A m \in Desks : m # k => desk'[m] = desk[m]
      PROVE  /\ crossed \subseteq crossed'
             /\ \A m \in Desks : \/ desk'[m] = desk[m]
                                 \/ desk'[m].op \notin CashOps /\ desk[m].on \subseteq crossed'
  <2>1. crossed' = crossed \cup desk[k].on
    BY <1>2 DEF Abort, BreaksOff
  <2> QED
    BY <1>2, <2>1 DEF Idle, CashOps
<1>3. CASE UNCHANGED vars
  BY <1>3 DEF vars, requestVars
<1>4. CASE Next
  <2>1. \/ CashStep
        \/ /\ UNCHANGED cashVars
           /\ \/ \E ops \in {FactoryOps, FileOps, CatalogOps} : Own(ops) /\ Took(ops)
              \/ \E k \in Desks : Abort(k) /\ desk'[k] = Idle /\ \A m \in Desks : m # k => desk'[m] = desk[m]
    BY <1>0, <1>4, StepOrderly, FactoryTook, FileTook, CatalogTook
  <2> QED
    BY <1>1, <1>2, <2>1
<1> QED
  BY <1>3, <1>4

-----------------------------------------------------------------------------
(* An expense that no crossed request handles has its payer, and so does   *)
(* what a request in progress will make of it.                             *)
PayerFrame(f) ==
    f.op = "expense" /\ Apart(Expense(f.id)) => HasPayer(Patched(expenses[f.id], f.put))
Payers ==
    /\ \A x \in DOMAIN expenses : expenses[x].live /\ Apart(Expense(x)) => HasPayer(expenses[x])
    /\ \A k \in Desks : PayerFrame(desk[k])

LEMMA PayersLast ==
    ASSUME FieldTyped, Payers, crossed \subseteq crossed', DOMAIN expenses \subseteq DOMAIN expenses',
           \A x \in DOMAIN expenses' :
               \/ /\ expenses'[x].live /\ Expense(x) \notin crossed' => HasPayer(expenses'[x])
                  /\ x \in DOMAIN expenses =>
                        \A k \in Desks : desk'[k] = desk[k] /\ desk[k].op = "expense" /\ desk[k].id = x
                                         => Expense(x) \in crossed'
               \/ x \in DOMAIN expenses /\ expenses'[x] = expenses[x],
           \A k \in Desks : desk'[k] = desk[k] \/ desk'[k].op # "expense" \/ PayerFrame(desk[k])'
    PROVE  Payers'
<1>1. ASSUME NEW x \in DOMAIN expenses', expenses'[x].live, Expense(x) \notin crossed' PROVE HasPayer(expenses'[x])
  <2>1. CASE x \in DOMAIN expenses /\ expenses'[x] = expenses[x]
    BY <1>1, <2>1 DEF Payers, Apart
  <2> QED
    BY <1>1, <2>1
<1>2. ASSUME NEW k \in Desks, desk'[k] = desk[k] PROVE PayerFrame(desk[k])'
  <2> SUFFICES ASSUME desk[k].op = "expense", Expense(desk[k].id) \notin crossed'
               PROVE  HasPayer(Patched(expenses'[desk[k].id], desk[k].put))
    BY <1>2 DEF PayerFrame, Apart, HasPayer, Patched
  <2> DEFINE x == desk[k].id
  <2>1. x \in DOMAIN expenses
    BY DEF FieldTyped, FieldFrame, ExpenseFrame
  <2>2. HasPayer(Patched(expenses[x], desk[k].put))
    BY DEF Payers, PayerFrame, Apart
  <2>3. expenses'[x] = expenses[x]
    <3> HIDE DEF x
    <3>1. x = desk[k].id
      BY DEF x
    <3> QED
      BY <1>2, <2>1, <3>1
  <2> QED
    BY <2>2, <2>3
<1>3. ASSUME NEW k \in Desks PROVE PayerFrame(desk[k])'
  <2>1. CASE desk'[k].op # "expense"
    BY <2>1 DEF PayerFrame
  <2> QED
    BY <1>2, <2>1
<1> QED
  BY <1>1, <1>3 DEF Payers, Apart

LEMMA PayersStep ==
    ASSUME Orderly, FieldTyped, Payers, [Next]_vars
    PROVE  Payers'
<1>0. /\ Exclusive /\ \A k \in Desks : FieldFrame(desk[k])
      /\ expenses \in Seq(ExpenseRow) /\ \A x \in DOMAIN expenses : expenses[x] \in ExpenseRow
  BY SeqDomain DEF FieldTyped, CashTables, Orderly
<1>00. /\ scene.amounts \subseteq Nat /\ scene.days \subseteq Days /\ \A put \in scene.edits : Gives(put, Columns(scene))
  BY FieldInputs DEF Orderly, Exclusive
<1>1. ASSUME expenses' = expenses, crossed \subseteq crossed',
             \A k \in Desks : desk'[k] = desk[k] \/ desk'[k].op # "expense"
      PROVE  Payers'
  BY <1>1, PayersLast
<1>2. ASSUME expenses' = expenses, NEW k \in Desks, NEW frame, Starts(k, frame), frame.op # "expense"
      PROVE  Payers'
  <2>1. desk'[k] = frame /\ (\A m \in Desks : m # k => desk'[m] = desk[m]) /\ crossed \subseteq crossed'
    BY <1>0, <1>2, StartsDesk DEF Starts
  <2> QED
    BY <1>1, <1>2, <2>1
<1>3. ASSUME NEW k \in Desks, NEW r, NEW amount, NEW day, BeginCreateHandover(k, r, amount, day) PROVE Payers'
  <2> DEFINE frame == [op |-> "newHandover", on |-> {Rider(r)},
                       row |-> [rider |-> r, amount |-> amount, day |-> day, live |-> TRUE]]
  <2>1. Starts(k, frame) /\ frame.op # "expense" /\ expenses' = expenses
    BY <1>3 DEF BeginCreateHandover, cashVars
  <2> HIDE DEF frame
  <2> QED
    BY <1>2, <2>1
<1>4. ASSUME NEW k \in Desks, NEW c, NEW r, NEW outcome, NEW amount, NEW day,
             BeginVisit(k, c, r, outcome, amount, day)
      PROVE  Payers'
  <2> DEFINE frame == [op |-> "visit", on |-> {Customer(c)}, at |-> "pay",
                       row |-> [who |-> c, collector |-> r, outcome |-> outcome,
                                amount |-> amount, receipt |-> 0, day |-> day]]
  <2>1. Starts(k, frame) /\ frame.op # "expense" /\ expenses' = expenses
    BY <1>4 DEF BeginVisit, cashVars
  <2> HIDE DEF frame
  <2> QED
    BY <1>2, <2>1
<1>5. ASSUME NEW k \in Desks, NEW h, NEW put, BeginUpdateHandover(k, h, put) PROVE Payers'
  <2> DEFINE old == handovers[h]
             new == Patched(old, put)
             frame == [op |-> "handover", on |-> {Handover(h), Rider(old.rider), Rider(new.rider)},
                       id |-> h, put |-> put, rider |-> new.rider]
  <2>1. Starts(k, frame) /\ frame.op # "expense" /\ expenses' = expenses
    BY <1>5 DEF BeginUpdateHandover, cashVars
  <2> HIDE DEF frame
  <2> QED
    BY <1>2, <2>1
<1>6. ASSUME NEW k \in Desks, NEW x \in DOMAIN expenses, NEW put, BeginUpdateExpense(k, x, put) PROVE Payers'
  <2> DEFINE frame == [op |-> "expense", id |-> x, put |-> put,
                       on |-> {Expense(x), Rider(expenses[x].staff), Rider(Patched(expenses[x], put).staff)}]
  <2>1. Starts(k, frame) /\ expenses' = expenses /\ HasPayer(Patched(expenses[x], put))
    BY <1>6 DEF BeginUpdateExpense, cashVars
  <2>2. frame.id = x /\ frame.put = put
    OBVIOUS
  <2> HIDE DEF frame
  <2>3. desk'[k] = frame /\ (\A m \in Desks : m # k => desk'[m] = desk[m]) /\ crossed \subseteq crossed'
    BY <1>0, <2>1, StartsDesk DEF Starts
  <2>4. PayerFrame(desk[k])'
    <3>1. HasPayer(Patched(expenses'[x], put))
      BY <2>1
    <3> QED
      BY <2>2, <2>3, <3>1 DEF PayerFrame, HasPayer, Patched
  <2> QED
    BY <2>1, <2>3, <2>4, PayersLast
<1>7. ASSUME expenses' = expenses, NEW k \in Desks, Ends(k) \/ \E rows : EndsTouching(k, rows) PROVE Payers'
  <2>1. /\ desk'[k] = Idle /\ (\A m \in Desks : m # k => desk'[m] = desk[m]) /\ crossed \subseteq crossed'
    BY <1>0, <1>7, EndsDesk DEF Ends, EndsTouching
  <2> QED
    BY <1>1, <1>7, <2>1 DEF Idle
<1>8. ASSUME NEW k \in Desks, CommitCreateHandover(k) \/ CommitUpdateHandover(k) \/ VisitRecords(k) PROVE Payers'
  BY <1>7, <1>8 DEF CommitCreateHandover, CommitUpdateHandover, VisitRecords
<1>9. ASSUME NEW k \in Desks, VisitPays(k) \/ VisitPromises(k) PROVE Payers'
  <2>1. crossed' = crossed /\ expenses' = expenses /\ \A m \in Desks : desk'[m] = desk[m] \/ desk'[m].op = "visit"
    <3>1. CASE VisitPromises(k)
      <4> DEFINE frame == [desk[k] EXCEPT !.at = "record"]
      <4>1. desk' = [desk EXCEPT ![k] = frame] /\ desk[k].op = "visit" /\ crossed' = crossed /\ expenses' = expenses
        BY <3>1 DEF VisitPromises, Holds, cashVars
      <4>2. frame.op = desk[k].op
        OBVIOUS
      <4> HIDE DEF frame
      <4> QED
        BY <1>0, <4>1, <4>2 DEF Exclusive
    <3>2. CASE VisitPays(k)
      <4> DEFINE paid == IF desk[k].row.amount > 0 THEN Len(receipts) + 1 ELSE 0
                 frame == [desk[k] EXCEPT !.at = "promise", !.row.receipt = paid]
      <4>1. desk' = [desk EXCEPT ![k] = frame] /\ desk[k].op = "visit" /\ crossed' = crossed /\ expenses' = expenses
        BY <3>2 DEF VisitPays, Holds
      <4>2. frame.op = desk[k].op
        OBVIOUS
      <4> HIDE DEF frame
      <4> QED
        BY <1>0, <4>1, <4>2 DEF Exclusive
    <3> QED
      BY <1>9, <3>1, <3>2
  <2> QED
    BY <1>1, <2>1
<1>10. ASSUME \E rows : Touches(rows), expenses' = expenses PROVE Payers'
  BY <1>1, <1>10 DEF Touches
<1>11. ASSUME NEW i, RemoveHandover(i) \/ RemovePayment(i) PROVE Payers'
  BY <1>10, <1>11 DEF RemoveHandover, RemovePayment
<1>12. ASSUME NEW staff \in Riders \cup {Nobody}, NEW byRider \in BOOLEAN, NEW amount \in scene.amounts,
              NEW day \in scene.days, CreateExpense(staff, byRider, amount, day)
       PROVE  Payers'
  <2> DEFINE row == [staff |-> staff, byRider |-> byRider, amount |-> amount, day |-> day, live |-> TRUE]
             n == Len(expenses) + 1
  <2>1. expenses' = Append(expenses, row) /\ HasPayer(row) /\ desk' = desk /\ crossed \subseteq crossed'
    BY <1>12 DEF CreateExpense, Touches
  <2>2. row \in ExpenseRow
    BY <1>00 DEF ExpenseRow
  <2> HIDE DEF row
  <2>3. /\ DOMAIN expenses' = DOMAIN expenses \cup {n} /\ n \notin DOMAIN expenses /\ expenses'[n] = row
        /\ \A x \in DOMAIN expenses : expenses'[x] = expenses[x]
    BY <1>0, <2>1, <2>2, Appended
  <2> HIDE DEF n
  <2> QED
    BY <2>1, <2>3, PayersLast
<1>13. ASSUME NEW x \in DOMAIN expenses, NEW new \in ExpenseRow, expenses' = [expenses EXCEPT ![x] = new],
              crossed \subseteq crossed', new.live /\ Expense(x) \notin crossed' => HasPayer(new),
              \A m \in Desks : desk'[m] = desk[m] \/ desk'[m].op # "expense",
              \A m \in Desks : desk'[m] = desk[m] /\ desk[m].op = "expense" /\ desk[m].id = x => Expense(x) \in crossed'
       PROVE  Payers'
  <2>1. DOMAIN expenses' = DOMAIN expenses /\ \A y \in DOMAIN expenses : expenses'[y] = IF y = x THEN new ELSE expenses[y]
    BY <1>0, <1>13
  <2> QED
    BY <1>13, <2>1, PayersLast
<1>14. ASSUME NEW k \in Desks, CommitUpdateExpense(k) PROVE Payers'
  <2> DEFINE f == desk[k]
             x == f.id
             old == expenses[x]
             new == Patched(old, f.put)
  <2>1. /\ ExpenseFrame(f) /\ EndsTouching(k, {Rider(old.staff)}) /\ f.op = "expense"
        /\ expenses' \in {expenses, [expenses EXCEPT ![x] = new]}
    BY <1>0, <1>14 DEF CommitUpdateExpense, Holds, FieldFrame
  <2>2. x \in DOMAIN expenses /\ old \in ExpenseRow /\ Gives(f.put, Columns(scene)) /\ Expense(x) \in f.on
    BY <1>0, <1>00, <2>1 DEF ExpenseFrame
  <2>3. new \in ExpenseRow
    <3> DEFINE put == f.put
    <3>1. old \in ExpenseRow /\ Gives(put, Columns(scene)) /\ new = Patched(old, put)
      BY <2>2
    <3> HIDE DEF old, put, f, new
    <3> QED
      BY <3>1, PatchedExpense
  <2>4. desk'[k] = Idle /\ (\A m \in Desks : m # k => desk'[m] = desk[m]) /\ crossed \subseteq crossed'
    BY <1>0, <2>1, EndsDesk DEF EndsTouching
  <2>5. CASE expenses' = expenses
    BY <1>7, <2>1, <2>5
  <2>6. CASE expenses' = [expenses EXCEPT ![x] = new]
    <3>1. Expense(x) \notin crossed' => HasPayer(new)
      <4>1. Expense(x) \notin crossed => HasPayer(new)
        BY <2>1 DEF Payers, PayerFrame, Apart
      <4> QED
        BY <2>4, <4>1
    <3>2. \A m \in Desks : desk'[m] = desk[m] \/ desk'[m].op # "expense"
      BY <2>4 DEF Idle
    <3>3. ASSUME NEW m \in Desks, desk'[m] = desk[m], desk[m].op = "expense", desk[m].id = x PROVE Expense(x) \in crossed'
      <4>1. Expense(x) \in desk[m].on
        BY <1>0, <3>3 DEF FieldFrame, ExpenseFrame
      <4>2. m # k
        BY <2>1, <2>4, <3>3 DEF Idle
      <4> QED
        BY <1>0, <2>2, <2>4, <4>1, <4>2 DEF Exclusive
    <3> HIDE DEF f, x, old, new
    <3> QED
      BY <1>13, <2>2, <2>3, <2>4, <2>6, <3>1, <3>2, <3>3
  <2> QED
    BY <2>1, <2>5, <2>6
<1>15. ASSUME NEW x \in DOMAIN expenses, RemoveExpense(x) PROVE Payers'
  <2> DEFINE old == expenses[x]
             new == [old EXCEPT !.live = FALSE]
             rows == {Expense(x), Rider(old.staff)}
  <2>1. expenses' = [expenses EXCEPT ![x] = new] /\ Touches(rows) /\ desk' = desk /\ crossed \subseteq crossed'
    BY <1>15 DEF RemoveExpense, Without, Touches
  <2>2. new \in ExpenseRow /\ ~new.live
    <3>1. old \in ExpenseRow
      BY <1>0
    <3> HIDE DEF old
    <3> QED
      BY <3>1 DEF ExpenseRow
  <2>3. ASSUME NEW m \in Desks, desk[m].op = "expense", desk[m].id = x PROVE Expense(x) \in crossed'
    <3>1. Expense(x) \in desk[m].on
      BY <1>0, <2>3 DEF FieldFrame, ExpenseFrame
    <3>2. rows \cap desk[m].on \subseteq crossed'
      BY <2>1, TouchedCross
    <3> QED
      BY <3>1, <3>2
  <2> HIDE DEF new
  <2> QED
    BY <1>13, <2>1, <2>2, <2>3
<1>16. CASE CashStep
  BY <1>3, <1>4, <1>5, <1>6, <1>8, <1>9, <1>11, <1>12, <1>14, <1>15, <1>16 DEF CashStep
<1>17. CASE /\ UNCHANGED cashVars /\ crossed \subseteq crossed'
            /\ \A k \in Desks : desk'[k] = desk[k] \/ desk'[k].op \notin CashOps
  BY <1>1, <1>17 DEF CashOps, cashVars
<1> QED
  BY <1>16, <1>17, CashApart

LEMMA PayersAlways == Spec => []Payers
<1>1. Orderly /\ FieldTyped /\ Payers /\ [Next]_vars => Payers'
  BY PayersStep
<1>2. Init => Payers
  BY DEF Init, Payers, PayerFrame, Idle
<1> QED
  BY <1>1, <1>2, OrderlyAlways, FieldTypedAlways, PTL DEF Spec

-----------------------------------------------------------------------------
(* Visits and their payments: what each step does to them.                 *)

Rests ==
    /\ UNCHANGED <<receipts, visits>> /\ crossed \subseteq crossed'
    /\ \A k \in Desks : \/ desk'[k] = desk[k]
                        \/ desk'[k].op # "visit" /\ (desk[k].op = "visit" => desk[k].on \subseteq crossed')
Begins(k) ==
    /\ UNCHANGED <<receipts, visits>> /\ crossed \subseteq crossed' /\ Alone(k)
    /\ desk[k].op # "visit" /\ desk'[k].op = "visit" /\ desk'[k].at = "pay" /\ desk'[k].row.receipt = 0
Goes(k) ==
    /\ crossed' = crossed /\ Alone(k) /\ visits' = visits
    /\ desk[k].op = "visit" /\ desk'[k].op = "visit" /\ desk'[k].on = desk[k].on /\ desk'[k].at # "pay"
    /\ desk'[k].row.who = desk[k].row.who /\ desk'[k].row.amount = desk[k].row.amount
Pays(k) ==
    /\ Goes(k) /\ desk[k].at = "pay" /\ desk[k].row.amount # 0
    /\ desk'[k].row.receipt = Len(receipts) + 1
    /\ Grown(ReceiptRow, receipts, [who |-> desk[k].row.who, amount |-> desk[k].row.amount, live |-> TRUE], receipts')
Asks(k) == \* nothing was paid
    /\ Goes(k) /\ desk[k].at = "pay" /\ desk[k].row.amount = 0 /\ desk'[k].row.receipt = 0 /\ receipts' = receipts
Promises(k) == Goes(k) /\ desk[k].at # "pay" /\ desk'[k].row.receipt = desk[k].row.receipt /\ receipts' = receipts
Records(k) ==
    /\ crossed' = crossed /\ Alone(k) /\ receipts' = receipts
    /\ desk[k].op = "visit" /\ desk[k].at # "pay" /\ desk'[k].op # "visit"
    /\ IF desk[k].row.receipt \in DOMAIN receipts /\ ~receipts[desk[k].row.receipt].live THEN visits' = visits
       ELSE Grown(VisitRow, visits, desk[k].row, visits')
Removes(p) ==
    /\ desk' = desk /\ crossed \subseteq crossed' /\ p \in DOMAIN receipts
    /\ \A k \in Desks : Customer(receipts[p].who) \in desk[k].on => Customer(receipts[p].who) \in crossed'
    /\ DOMAIN receipts' = DOMAIN receipts /\ ~receipts'[p].live
    /\ \A q \in DOMAIN receipts : /\ q # p => receipts'[q] = receipts[q]
                                  /\ receipts'[q].who = receipts[q].who /\ receipts'[q].amount = receipts[q].amount
    /\ DOMAIN visits' = DOMAIN visits
    /\ \A v \in DOMAIN visits : /\ visits'[v].who = visits[v].who /\ visits'[v].amount = visits[v].amount
                                /\ visits'[v].receipt = IF visits[v].receipt = p THEN 0 ELSE visits[v].receipt

LEMMA VisitCases ==
    ASSUME Orderly, FieldTyped, [Next]_vars
    PROVE  \/ Rests
           \/ \E k \in Desks : Begins(k) \/ Pays(k) \/ Asks(k) \/ Promises(k) \/ Records(k)
           \/ \E p : Removes(p)
<1>0. /\ Exclusive /\ \A k \in Desks : FieldFrame(desk[k])
      /\ receipts \in Seq(ReceiptRow) /\ \A p \in DOMAIN receipts : receipts[p] \in ReceiptRow
      /\ visits \in Seq(VisitRow) /\ \A v \in DOMAIN visits : visits[v] \in VisitRow
  BY SeqDomain DEF FieldTyped, CashTables, Orderly
<1>1. ASSUME UNCHANGED <<receipts, visits>>, NEW k \in Desks, NEW frame, Starts(k, frame), frame.op # "visit"
      PROVE  Rests
  <2>1. /\ desk'[k] = frame /\ desk[k] = Idle /\ (\A m \in Desks : m # k => desk'[m] = desk[m])
        /\ crossed \subseteq crossed'
    BY <1>0, <1>1, StartsDesk DEF Starts
  <2> QED
    BY <1>1, <2>1 DEF Rests, Idle
<1>2. ASSUME NEW k \in Desks, NEW r, NEW amount, NEW day, BeginCreateHandover(k, r, amount, day) PROVE Rests
  <2> DEFINE frame == [op |-> "newHandover", on |-> {Rider(r)},
                       row |-> [rider |-> r, amount |-> amount, day |-> day, live |-> TRUE]]
  <2>1. Starts(k, frame) /\ frame.op # "visit" /\ UNCHANGED <<receipts, visits>>
    BY <1>2 DEF BeginCreateHandover, cashVars
  <2> HIDE DEF frame
  <2> QED
    BY <1>1, <2>1
<1>3. ASSUME NEW k \in Desks, NEW h, NEW put, BeginUpdateHandover(k, h, put) PROVE Rests
  <2> DEFINE old == handovers[h]
             new == Patched(old, put)
             frame == [op |-> "handover", on |-> {Handover(h), Rider(old.rider), Rider(new.rider)},
                       id |-> h, put |-> put, rider |-> new.rider]
  <2>1. Starts(k, frame) /\ frame.op # "visit" /\ UNCHANGED <<receipts, visits>>
    BY <1>3 DEF BeginUpdateHandover, cashVars
  <2> HIDE DEF frame
  <2> QED
    BY <1>1, <2>1
<1>4. ASSUME NEW k \in Desks, NEW x, NEW put, BeginUpdateExpense(k, x, put) PROVE Rests
  <2> DEFINE frame == [op |-> "expense", id |-> x, put |-> put,
                       on |-> {Expense(x), Rider(expenses[x].staff), Rider(Patched(expenses[x], put).staff)}]
  <2>1. Starts(k, frame) /\ frame.op # "visit" /\ UNCHANGED <<receipts, visits>>
    BY <1>4 DEF BeginUpdateExpense, cashVars
  <2> HIDE DEF frame
  <2> QED
    BY <1>1, <2>1
<1>5. ASSUME NEW k \in Desks, CommitCreateHandover(k) \/ CommitUpdateHandover(k) \/ CommitUpdateExpense(k) PROVE Rests
  <2>1. /\ UNCHANGED <<receipts, visits>> /\ desk[k].op # "visit"
        /\ Ends(k) \/ EndsTouching(k, {Rider(expenses[desk[k].id].staff)})
    BY <1>5 DEF CommitCreateHandover, CommitUpdateHandover, CommitUpdateExpense, Holds
  <2>2. /\ desk'[k] = Idle /\ (\A m \in Desks : m # k => desk'[m] = desk[m]) /\ crossed \subseteq crossed'
    BY <1>0, <2>1, EndsDesk DEF Ends, EndsTouching
  <2> QED
    BY <2>1, <2>2 DEF Rests, Idle
<1>6. ASSUME (\E h : RemoveHandover(h) \/ RemoveExpense(h))
             \/ \E staff, byRider, amount, day : CreateExpense(staff, byRider, amount, day)
      PROVE  Rests
  BY <1>6 DEF RemoveHandover, RemoveExpense, CreateExpense, Touches, Rests
<1>7. ASSUME NEW k \in Desks, NEW c, NEW r, NEW outcome, NEW amount, NEW day,
             BeginVisit(k, c, r, outcome, amount, day)
      PROVE  Begins(k)
  <2> DEFINE frame == [op |-> "visit", on |-> {Customer(c)}, at |-> "pay",
                       row |-> [who |-> c, collector |-> r, outcome |-> outcome,
                                amount |-> amount, receipt |-> 0, day |-> day]]
  <2>1. Starts(k, frame) /\ UNCHANGED <<receipts, visits>>
    BY <1>7 DEF BeginVisit, cashVars
  <2>2. frame.op = "visit" /\ frame.at = "pay" /\ frame.row.receipt = 0
    OBVIOUS
  <2> HIDE DEF frame
  <2>3. /\ desk'[k] = frame /\ desk[k] = Idle /\ (\A m \in Desks : m # k => desk'[m] = desk[m])
        /\ crossed \subseteq crossed'
    BY <1>0, <2>1, StartsDesk DEF Starts
  <2> QED
    BY <2>1, <2>2, <2>3 DEF Begins, Alone, Idle
<1>8. ASSUME NEW k \in Desks, VisitPays(k) PROVE Pays(k) \/ Asks(k)
  <2> DEFINE f == desk[k]
             row == f.row
             paid == IF row.amount > 0 THEN Len(receipts) + 1 ELSE 0
             frame == [f EXCEPT !.at = "promise", !.row.receipt = paid]
             receipt == [who |-> row.who, amount |-> row.amount, live |-> TRUE]
  <2>1. VisitFrame(f) /\ f.op = "visit" /\ f.at = "pay" /\ crossed' = crossed /\ visits' = visits
    BY <1>0, <1>8 DEF VisitPays, Holds, FieldFrame
  <2>2. desk' = [desk EXCEPT ![k] = frame]
    BY <1>8 DEF VisitPays, Holds
  <2>3. IF row.amount = 0 THEN receipts' = receipts ELSE receipts' = Append(receipts, receipt)
    BY <1>8 DEF VisitPays
  <2>4. row \in VisitRow /\ row.amount \in Nat /\ row.who \in Customers
    BY <2>1 DEF VisitFrame, VisitRow
  <2>5. /\ frame.op = f.op /\ frame.on = f.on /\ frame.at = "promise" /\ frame.row.who = row.who
        /\ frame.row.amount = row.amount /\ frame.row.receipt = paid
    <3>1. DOMAIN f = {"op", "on", "at", "row"} /\ "receipt" \in DOMAIN row /\ "who" # "receipt" /\ "amount" # "receipt"
      BY <2>1, <2>4 DEF VisitFrame, VisitRow
    <3>2. frame.op = f.op /\ frame.on = f.on /\ frame.at = "promise" /\ frame.row = [row EXCEPT !.receipt = paid]
      <4> HIDE DEF f, paid
      <4> QED
        BY <3>1
    <3> HIDE DEF row, paid, frame
    <3> QED
      BY <3>1, <3>2
  <2>6. receipt \in ReceiptRow
    BY <2>4 DEF ReceiptRow
  <2>7. desk'[k] = frame /\ Alone(k)
    <3> HIDE DEF frame
    <3> QED
      BY <1>0, <2>2 DEF Exclusive, Alone
  <2>8. Goes(k)
    <3> HIDE DEF frame
    <3> QED
      BY <2>1, <2>5, <2>7 DEF Goes
  <2>9. CASE row.amount = 0
    <3> HIDE DEF frame
    <3> QED
      BY <2>1, <2>3, <2>4, <2>5, <2>7, <2>8, <2>9 DEF Asks
  <2>10. CASE row.amount # 0
    <3>1. Grown(ReceiptRow, receipts, receipt, receipts')
      <4> HIDE DEF receipt
      <4> QED
        BY <1>0, <2>3, <2>6, <2>10, RowGrown
    <3> HIDE DEF frame
    <3> QED
      BY <2>1, <2>4, <2>5, <2>7, <2>8, <2>10, <3>1 DEF Pays
  <2> QED
    BY <2>9, <2>10
<1>9. ASSUME NEW k \in Desks, VisitPromises(k) PROVE Promises(k)
  <2> DEFINE f == desk[k]
             frame == [f EXCEPT !.at = "record"]
  <2>1. VisitFrame(f) /\ f.op = "visit" /\ f.at = "promise" /\ crossed' = crossed /\ UNCHANGED <<visits, receipts>>
    BY <1>0, <1>9 DEF VisitPromises, Holds, FieldFrame, cashVars
  <2>2. desk' = [desk EXCEPT ![k] = frame]
    BY <1>9 DEF VisitPromises, Holds
  <2>3. frame.op = f.op /\ frame.on = f.on /\ frame.at = "record" /\ frame.row = f.row
    <3>1. DOMAIN f = {"op", "on", "at", "row"}
      BY <2>1 DEF VisitFrame
    <3> HIDE DEF f
    <3> QED
      BY <3>1
  <2> HIDE DEF frame
  <2>4. desk'[k] = frame /\ Alone(k)
    BY <1>0, <2>2 DEF Exclusive, Alone
  <2> QED
    BY <2>1, <2>3, <2>4 DEF Promises, Goes
<1>10. ASSUME NEW k \in Desks, VisitRecords(k) PROVE Records(k)
  <2> DEFINE row == desk[k].row
  <2>1. /\ VisitFrame(desk[k]) /\ desk[k].op = "visit" /\ desk[k].at = "record" /\ Ends(k) /\ receipts' = receipts
        /\ visits' = IF row.receipt \in DOMAIN receipts \ Live(receipts) THEN visits ELSE Append(visits, row)
    BY <1>0, <1>10 DEF VisitRecords, Holds, FieldFrame
  <2>2. row \in VisitRow
    BY <2>1 DEF VisitFrame
  <2>3. row.receipt \in DOMAIN receipts \ Live(receipts) <=> row.receipt \in DOMAIN receipts /\ ~receipts[row.receipt].live
    BY DEF Live
  <2>4. desk'[k] = Idle /\ Alone(k) /\ crossed' = crossed
    BY <1>0, <2>1, EndsDesk DEF Alone, Ends
  <2>5. CASE row.receipt \in DOMAIN receipts \ Live(receipts)
    BY <2>1, <2>3, <2>4, <2>5 DEF Records, Idle
  <2>6. CASE row.receipt \notin DOMAIN receipts \ Live(receipts)
    <3>1. Grown(VisitRow, visits, row, visits')
      <4>1. visits' = Append(visits, row)
        BY <2>1, <2>6
      <4> HIDE DEF row
      <4> QED
        BY <1>0, <2>2, <4>1, RowGrown
    <3> QED
      BY <2>1, <2>3, <2>4, <2>6, <3>1 DEF Records, Idle
  <2> QED
    BY <2>5, <2>6
<1>11. ASSUME NEW p \in DOMAIN receipts, RemovePayment(p) PROVE Removes(p)
  <2> DEFINE old == receipts[p]
             row == [old EXCEPT !.live = FALSE]
             rows == {Customer(old.who)}
  <2>1. /\ receipts' = [receipts EXCEPT ![p] = row] /\ Touches(rows) /\ desk' = desk /\ crossed \subseteq crossed'
        /\ visits' = [v \in DOMAIN visits |-> IF visits[v].receipt = p THEN [visits[v] EXCEPT !.receipt = 0]
                                              ELSE visits[v]]
    BY <1>11 DEF RemovePayment, Without, Touches
  <2>2. ~row.live /\ row.who = old.who /\ row.amount = old.amount
    <3>1. old \in ReceiptRow
      BY <1>0
    <3> HIDE DEF old
    <3> QED
      BY <3>1 DEF ReceiptRow
  <2>3. \A k \in Desks : Customer(old.who) \in desk[k].on => Customer(old.who) \in crossed'
    <3>1. \A k \in Desks : rows \cap desk[k].on \subseteq crossed'
      BY <2>1, TouchedCross
    <3> QED
      BY <3>1
  <2>4. /\ DOMAIN receipts' = DOMAIN receipts /\ ~receipts'[p].live
        /\ \A q \in DOMAIN receipts : /\ q # p => receipts'[q] = receipts[q]
                                      /\ receipts'[q].who = receipts[q].who /\ receipts'[q].amount = receipts[q].amount
    <3>1. \A q \in DOMAIN receipts : receipts'[q] = IF q = p THEN row ELSE receipts[q]
      <4> HIDE DEF row
      <4> QED
        BY <1>0, <2>1
    <3> QED
      BY <1>0, <2>1, <2>2, <3>1
  <2>5. /\ DOMAIN visits' = DOMAIN visits
        /\ \A v \in DOMAIN visits : visits'[v] = IF visits[v].receipt = p THEN [visits[v] EXCEPT !.receipt = 0] ELSE visits[v]
    BY <2>1
  <2>6. ASSUME NEW v \in DOMAIN visits
        PROVE  /\ visits'[v].who = visits[v].who /\ visits'[v].amount = visits[v].amount
               /\ visits'[v].receipt = IF visits[v].receipt = p THEN 0 ELSE visits[v].receipt
    <3> DEFINE x == visits[v]
    <3>1. x \in VisitRow /\ visits'[v] = IF x.receipt = p THEN [x EXCEPT !.receipt = 0] ELSE x
      BY <1>0, <2>5
    <3> HIDE DEF x
    <3>2. /\ [x EXCEPT !.receipt = 0].who = x.who /\ [x EXCEPT !.receipt = 0].amount = x.amount
          /\ [x EXCEPT !.receipt = 0].receipt = 0
      BY <3>1 DEF VisitRow
    <3>3. /\ visits'[v].who = x.who /\ visits'[v].amount = x.amount
          /\ visits'[v].receipt = IF x.receipt = p THEN 0 ELSE x.receipt
      BY <3>1, <3>2
    <3> QED
      BY <3>3 DEF x
  <2> QED
    BY <2>1, <2>3, <2>4, <2>5, <2>6 DEF Removes
<1>12. CASE CashStep
  BY <1>2, <1>3, <1>4, <1>5, <1>6, <1>7, <1>8, <1>9, <1>10, <1>11, <1>12 DEF CashStep
<1>13. CASE /\ UNCHANGED cashVars /\ crossed \subseteq crossed'
            /\ \A k \in Desks : \/ desk'[k] = desk[k]
                                \/ /\ desk'[k].op \notin CashOps
                                   /\ desk[k].op \in CashOps => desk[k].on \subseteq crossed'
  BY <1>13 DEF Rests, cashVars, CashOps
<1> QED
  BY <1>12, <1>13, CashApart

(* A visit in the books names a live payment of its own, of its customer   *)
(* and its amount; so will the visits in progress, unless the payment has  *)
(* been removed, which crosses their customer.                             *)
OnVisit(k) == desk[k].op = "visit"
Booked(row) ==
    row.receipt # 0 =>
        /\ row.receipt \in DOMAIN receipts /\ receipts[row.receipt].live
        /\ receipts[row.receipt].who = row.who /\ receipts[row.receipt].amount = row.amount
VisitMade(f) ==
    /\ f.at = "pay" => f.row.receipt = 0
    /\ f.row.receipt # 0 =>
           /\ f.row.receipt \in DOMAIN receipts
           /\ receipts[f.row.receipt].who = f.row.who /\ receipts[f.row.receipt].amount = f.row.amount
           /\ receipts[f.row.receipt].live \/ Customer(f.row.who) \in crossed
Linked ==
    /\ \A v \in DOMAIN visits : Booked(visits[v])
    /\ \A v, w \in DOMAIN visits : v # w /\ visits[v].receipt = visits[w].receipt => visits[v].receipt = 0
    /\ \A k \in Desks : OnVisit(k) => VisitMade(desk[k])
    /\ \A k, m \in Desks : k # m /\ OnVisit(k) /\ OnVisit(m) /\ desk[k].row.receipt = desk[m].row.receipt
                           => desk[k].row.receipt = 0
    /\ \A k \in Desks, v \in DOMAIN visits : OnVisit(k) /\ desk[k].row.receipt = visits[v].receipt
                                             => visits[v].receipt = 0
Accounted ==
    \A p \in DOMAIN receipts :
        receipts[p].live /\ Apart(Customer(receipts[p].who))
        => \/ \E v \in DOMAIN visits : visits[v].receipt = p
           \/ \E k \in Desks : OnVisit(k) /\ desk[k].row.receipt = p

LEMMA LinkedStep ==
    ASSUME Orderly, FieldTyped, Linked, [Next]_vars
    PROVE  Linked'
<1>0. /\ \A v \in DOMAIN receipts : receipts[v] \in ReceiptRow
      /\ \A v \in DOMAIN visits : visits[v] \in VisitRow
      /\ \A k \in Desks : OnVisit(k) => VisitFrame(desk[k])
  BY SeqDomain DEF FieldTyped, CashTables, FieldFrame, OnVisit
<1>1. CASE Rests
  <2>1. UNCHANGED <<receipts, visits>> /\ crossed \subseteq crossed'
        /\ \A k \in Desks : desk'[k].op = "visit" => desk'[k] = desk[k]
    BY <1>1 DEF Rests
  <2> QED
    BY <2>1 DEF Linked, OnVisit, Booked, VisitMade
<1>2. ASSUME NEW k \in Desks, Begins(k) PROVE Linked'
  <2>1. /\ UNCHANGED <<receipts, visits>> /\ crossed \subseteq crossed'
        /\ desk'[k].at = "pay" /\ desk'[k].row.receipt = 0
        /\ \A m \in Desks : m # k => desk'[m] = desk[m]
    BY <1>2 DEF Begins, Alone
  <2> QED
    BY <2>1 DEF Linked, OnVisit, Booked, VisitMade
<1>3. ASSUME NEW k \in Desks, Asks(k) \/ Promises(k) PROVE Linked'
  <2>1. /\ UNCHANGED <<receipts, visits, crossed>>
        /\ \A m \in Desks : m # k => desk'[m] = desk[m]
        /\ OnVisit(k) /\ desk'[k].at # "pay"
        /\ desk'[k].row.who = desk[k].row.who /\ desk'[k].row.amount = desk[k].row.amount
        /\ desk'[k].row.receipt \in {0, desk[k].row.receipt}
    BY <1>3 DEF Asks, Promises, Goes, Alone, OnVisit
  <2> QED
    BY <2>1 DEF Linked, OnVisit, Booked, VisitMade
<1>4. ASSUME NEW k \in Desks, Pays(k) PROVE Linked'
  <2> DEFINE n == Len(receipts) + 1
             row == [who |-> desk[k].row.who, amount |-> desk[k].row.amount, live |-> TRUE]
  <2>1. /\ UNCHANGED <<visits, crossed>> /\ (\A m \in Desks : m # k => desk'[m] = desk[m])
        /\ OnVisit(k) /\ desk'[k].at # "pay" /\ desk'[k].row.receipt = n
        /\ desk'[k].row.who = desk[k].row.who /\ desk'[k].row.amount = desk[k].row.amount
        /\ Grown(ReceiptRow, receipts, row, receipts')
    BY <1>4 DEF Pays, Goes, Alone, OnVisit
  <2>2. row.who = desk[k].row.who /\ row.amount = desk[k].row.amount /\ row.live
    OBVIOUS
  <2> HIDE DEF row
  <2>3. /\ DOMAIN receipts' = DOMAIN receipts \cup {n} /\ n \notin DOMAIN receipts /\ n # 0
        /\ receipts'[n] = row /\ \A i \in DOMAIN receipts : receipts'[i] = receipts[i]
    BY <2>1 DEF Grown
  <2> HIDE DEF n
  <2>4. \A v \in DOMAIN visits : Booked(visits[v])' /\ visits[v].receipt # n
    BY <2>1, <2>3 DEF Linked, Booked
  <2>5. \A m \in Desks : m # k /\ OnVisit(m)' => VisitMade(desk[m])' /\ desk'[m].row.receipt # n
    BY <2>1, <2>3 DEF Linked, VisitMade, OnVisit
  <2>6. VisitMade(desk[k])'
    BY <2>1, <2>2, <2>3 DEF VisitMade
  <2>7. \A m \in Desks : OnVisit(m)' => VisitMade(desk[m])'
    BY <2>5, <2>6
  <2>8. \A a, m \in Desks : a # m /\ OnVisit(a)' /\ OnVisit(m)' /\ desk'[a].row.receipt = desk'[m].row.receipt
                            => desk'[a].row.receipt = 0
    BY <2>1, <2>5 DEF Linked, OnVisit
  <2>9. \A m \in Desks, v \in DOMAIN visits' : OnVisit(m)' /\ desk'[m].row.receipt = visits'[v].receipt
                                               => visits'[v].receipt = 0
    BY <2>1, <2>4 DEF Linked, OnVisit
  <2>10. \A v, w \in DOMAIN visits' : v # w /\ visits'[v].receipt = visits'[w].receipt => visits'[v].receipt = 0
    BY <2>1 DEF Linked
  <2>11. \A v \in DOMAIN visits' : Booked(visits[v])'
    BY <2>1, <2>4
  <2> QED
    BY <2>7, <2>8, <2>9, <2>10, <2>11 DEF Linked
<1>5. ASSUME NEW k \in Desks, Records(k) PROVE Linked'
  <2> DEFINE row == desk[k].row
             n == Len(visits) + 1
  <2>1. /\ UNCHANGED <<receipts, crossed>> /\ (\A m \in Desks : m # k => desk'[m] = desk[m])
        /\ OnVisit(k) /\ desk'[k].op # "visit"
        /\ \/ visits' = visits
           \/ /\ ~(row.receipt \in DOMAIN receipts /\ ~receipts[row.receipt].live)
              /\ Grown(VisitRow, visits, row, visits')
    BY <1>5 DEF Records, Alone, OnVisit
  <2>2. \A m \in Desks : OnVisit(m)' => m # k /\ desk'[m] = desk[m] /\ OnVisit(m) /\ VisitMade(desk[m])'
    BY <2>1 DEF Linked, OnVisit, VisitMade
  <2>3. \A a, m \in Desks : a # m /\ OnVisit(a)' /\ OnVisit(m)' /\ desk'[a].row.receipt = desk'[m].row.receipt
                            => desk'[a].row.receipt = 0
    BY <2>2 DEF Linked
  <2>4. CASE visits' = visits
    <3>1. \A m \in Desks, v \in DOMAIN visits' : OnVisit(m)' /\ desk'[m].row.receipt = visits'[v].receipt
                                                 => visits'[v].receipt = 0
      BY <2>2, <2>4 DEF Linked
    <3>2. \A v \in DOMAIN visits' : Booked(visits[v])'
      BY <2>1, <2>4 DEF Linked, Booked
    <3>3. \A v, w \in DOMAIN visits' : v # w /\ visits'[v].receipt = visits'[w].receipt => visits'[v].receipt = 0
      BY <2>4 DEF Linked
    <3> QED
      BY <2>2, <2>3, <3>1, <3>2, <3>3 DEF Linked
  <2>5. CASE ~(row.receipt \in DOMAIN receipts /\ ~receipts[row.receipt].live) /\ Grown(VisitRow, visits, row, visits')
    <3>1. /\ DOMAIN visits' = DOMAIN visits \cup {n} /\ n \notin DOMAIN visits
          /\ visits'[n] = row /\ \A i \in DOMAIN visits : visits'[i] = visits[i]
      BY <2>5 DEF Grown
    <3>2. Booked(row)
      BY <2>1, <2>5 DEF Linked, VisitMade, Booked
    <3>3. \A v \in DOMAIN visits : Booked(visits[v])'
      BY <2>1, <3>1 DEF Linked, Booked
    <3>4. ASSUME NEW v, v = n PROVE Booked(visits[v])'
      <4> HIDE DEF row, n
      <4> QED
        BY <2>1, <3>1, <3>2, <3>4 DEF Booked
    <3>5. \A v \in DOMAIN visits : visits[v].receipt = row.receipt => row.receipt = 0
      BY <2>1 DEF Linked
    <3>6. \A m \in Desks : m # k /\ OnVisit(m) /\ desk[m].row.receipt = row.receipt => row.receipt = 0
      BY <2>1 DEF Linked
    <3> HIDE DEF row, n
    <3>7. \A v, w \in DOMAIN visits' : v # w /\ visits'[v].receipt = visits'[w].receipt => visits'[v].receipt = 0
      BY <3>1, <3>5 DEF Linked
    <3>8. \A m \in Desks, v \in DOMAIN visits' : OnVisit(m)' /\ desk'[m].row.receipt = visits'[v].receipt
                                                 => visits'[v].receipt = 0
      BY <2>2, <3>1, <3>6 DEF Linked
    <3>9. \A v \in DOMAIN visits' : Booked(visits[v])'
      BY <3>1, <3>3, <3>4
    <3> QED
      BY <2>2, <2>3, <3>7, <3>8, <3>9 DEF Linked
  <2> HIDE DEF row
  <2> QED
    BY <2>1, <2>4, <2>5
<1>6. ASSUME NEW p, Removes(p) PROVE Linked'
  <2>1. /\ desk' = desk /\ crossed \subseteq crossed' /\ p \in DOMAIN receipts
        /\ \A k \in Desks : Customer(receipts[p].who) \in desk[k].on => Customer(receipts[p].who) \in crossed'
        /\ DOMAIN receipts' = DOMAIN receipts
        /\ \A q \in DOMAIN receipts : /\ q # p => receipts'[q] = receipts[q]
                                      /\ receipts'[q].who = receipts[q].who /\ receipts'[q].amount = receipts[q].amount
        /\ DOMAIN visits' = DOMAIN visits
        /\ \A v \in DOMAIN visits : /\ visits'[v].who = visits[v].who /\ visits'[v].amount = visits[v].amount
                                    /\ visits'[v].receipt = IF visits[v].receipt = p THEN 0 ELSE visits[v].receipt
    BY <1>6 DEF Removes
  <2>2. \A v \in DOMAIN visits' : Booked(visits[v])'
    BY <2>1 DEF Linked, Booked
  <2>3. \A v, w \in DOMAIN visits' : v # w /\ visits'[v].receipt = visits'[w].receipt => visits'[v].receipt = 0
    BY <2>1 DEF Linked
  <2>4. \A m \in Desks, v \in DOMAIN visits' : OnVisit(m)' /\ desk'[m].row.receipt = visits'[v].receipt
                                               => visits'[v].receipt = 0
    BY <2>1 DEF Linked, OnVisit
  <2>5. \A a, m \in Desks : a # m /\ OnVisit(a)' /\ OnVisit(m)' /\ desk'[a].row.receipt = desk'[m].row.receipt
                            => desk'[a].row.receipt = 0
    BY <2>1 DEF Linked, OnVisit
  <2>6. ASSUME NEW k \in Desks, OnVisit(k)' PROVE VisitMade(desk[k])'
    <3>1. OnVisit(k) /\ VisitMade(desk[k]) /\ Customer(desk[k].row.who) \in desk[k].on
      BY <1>0, <2>1, <2>6 DEF Linked, OnVisit, VisitFrame
    <3> DEFINE q == desk[k].row.receipt
    <3>2. CASE q = p /\ q # 0
      <4>1. q \in DOMAIN receipts /\ receipts[q].who = desk[k].row.who /\ receipts[q].amount = desk[k].row.amount
            /\ desk[k].at # "pay"
        BY <3>1, <3>2 DEF VisitMade
      <4>2. Customer(desk[k].row.who) \in crossed'
        BY <2>1, <3>1, <3>2, <4>1
      <4> QED
        BY <2>1, <4>1, <4>2 DEF VisitMade
    <3>3. CASE q # p \/ q = 0
      <4>1. q # 0 => q \in DOMAIN receipts /\ receipts'[q] = receipts[q]
        BY <2>1, <3>1, <3>3 DEF VisitMade
      <4> QED
        BY <2>1, <3>1, <4>1 DEF VisitMade
    <3> QED
      BY <3>2, <3>3
  <2> QED
    BY <2>2, <2>3, <2>4, <2>5, <2>6 DEF Linked
<1> QED
  BY <1>1, <1>2, <1>3, <1>4, <1>5, <1>6, VisitCases

LEMMA AccountedStep ==
    ASSUME Orderly, FieldTyped, Linked, Accounted, [Next]_vars
    PROVE  Accounted'
<1>0. \A k \in Desks : OnVisit(k) => Customer(desk[k].row.who) \in desk[k].on
  BY DEF FieldTyped, FieldFrame, OnVisit, VisitFrame
<1>1. CASE Rests
  <2>1. UNCHANGED <<receipts, visits>> /\ crossed \subseteq crossed'
        /\ \A k \in Desks : desk'[k] = desk[k] \/ (desk[k].op = "visit" => desk[k].on \subseteq crossed')
    BY <1>1 DEF Rests
  <2>2. \A k \in Desks : OnVisit(k) /\ desk[k].row.receipt # 0 => receipts[desk[k].row.receipt].who = desk[k].row.who
    BY DEF Linked, VisitMade
  <2> SUFFICES ASSUME NEW p \in DOMAIN receipts, receipts[p].live, Customer(receipts[p].who) \notin crossed',
                      ~\E v \in DOMAIN visits : visits[v].receipt = p
               PROVE  \E k \in Desks : OnVisit(k)' /\ desk'[k].row.receipt = p
    BY <2>1 DEF Accounted, Apart, OnVisit
  <2>3. PICK k \in Desks : OnVisit(k) /\ desk[k].row.receipt = p
    BY <2>1 DEF Accounted, Apart
  <2>4. p # 0
    BY SeqDomain DEF FieldTyped, CashTables
  <2>5. desk'[k] = desk[k]
    BY <1>0, <2>1, <2>2, <2>3, <2>4 DEF OnVisit
  <2> QED
    BY <2>3, <2>5 DEF OnVisit
<1>2. ASSUME NEW k \in Desks, Begins(k) PROVE Accounted'
  <2>1. /\ UNCHANGED <<receipts, visits>> /\ crossed \subseteq crossed' /\ ~OnVisit(k)
        /\ \A m \in Desks : m # k => desk'[m] = desk[m]
    BY <1>2 DEF Begins, Alone, OnVisit
  <2> QED
    BY <2>1 DEF Accounted, OnVisit, Apart
<1>3. ASSUME NEW k \in Desks, Asks(k) \/ Promises(k) PROVE Accounted'
  <2>1. /\ UNCHANGED <<receipts, visits, crossed>>
        /\ \A m \in Desks : m # k => desk'[m] = desk[m]
        /\ OnVisit(k) /\ OnVisit(k)'
        /\ desk[k].row.receipt # 0 => desk'[k].row.receipt = desk[k].row.receipt
    BY <1>3 DEF Asks, Promises, Goes, Alone, OnVisit, Linked, VisitMade
  <2>2. 0 \notin DOMAIN receipts
    BY SeqDomain DEF FieldTyped, CashTables
  <2> QED
    BY <2>1, <2>2 DEF Accounted, OnVisit, Apart
<1>4. ASSUME NEW k \in Desks, Pays(k) PROVE Accounted'
  <2> DEFINE n == Len(receipts) + 1
             row == [who |-> desk[k].row.who, amount |-> desk[k].row.amount, live |-> TRUE]
  <2>1. /\ UNCHANGED <<visits, crossed>> /\ (\A m \in Desks : m # k => desk'[m] = desk[m])
        /\ OnVisit(k) /\ OnVisit(k)' /\ desk'[k].row.receipt = n /\ desk[k].at = "pay"
        /\ Grown(ReceiptRow, receipts, row, receipts')
    BY <1>4 DEF Pays, Goes, Alone, OnVisit
  <2>2. desk[k].row.receipt = 0
    BY <2>1 DEF Linked, VisitMade
  <2> HIDE DEF row
  <2>3. /\ DOMAIN receipts' = DOMAIN receipts \cup {n}
        /\ \A i \in DOMAIN receipts : receipts'[i] = receipts[i]
    BY <2>1 DEF Grown
  <2>4. 0 \notin DOMAIN receipts
    BY SeqDomain DEF FieldTyped, CashTables
  <2> HIDE DEF n
  <2> QED
    BY <2>1, <2>2, <2>3, <2>4 DEF Accounted, OnVisit, Apart
<1>5. ASSUME NEW k \in Desks, Records(k) PROVE Accounted'
  <2> DEFINE row == desk[k].row
             n == Len(visits) + 1
  <2>1. /\ UNCHANGED <<receipts, crossed>> /\ (\A m \in Desks : m # k => desk'[m] = desk[m])
        /\ OnVisit(k)
        /\ IF row.receipt \in DOMAIN receipts /\ ~receipts[row.receipt].live THEN visits' = visits
           ELSE Grown(VisitRow, visits, row, visits')
    BY <1>5 DEF Records, Alone, OnVisit
  <2>2. CASE row.receipt \in DOMAIN receipts /\ ~receipts[row.receipt].live
    BY <2>1, <2>2 DEF Accounted, OnVisit, Apart
  <2>3. CASE Grown(VisitRow, visits, row, visits')
    <3>1. /\ DOMAIN visits' = DOMAIN visits \cup {n}
          /\ visits'[n] = row /\ \A i \in DOMAIN visits : visits'[i] = visits[i]
      BY <2>3 DEF Grown
    <3>2. row.receipt = desk[k].row.receipt
      OBVIOUS
    <3> HIDE DEF row, n
    <3>3. \A p : (\E v \in DOMAIN visits : visits[v].receipt = p) => \E v \in DOMAIN visits' : visits'[v].receipt = p
      BY <3>1
    <3>4. \E v \in DOMAIN visits' : visits'[v].receipt = desk[k].row.receipt
      BY <3>1, <3>2
    <3>5. \A m \in Desks : OnVisit(m) => (OnVisit(m)' /\ desk'[m] = desk[m]) \/ m = k
      BY <2>1 DEF OnVisit
    <3> QED
      BY <2>1, <3>3, <3>4, <3>5 DEF Accounted, Apart
  <2> HIDE DEF row
  <2> QED
    BY <2>1, <2>2, <2>3
<1>6. ASSUME NEW p, Removes(p) PROVE Accounted'
  <2>1. /\ desk' = desk /\ crossed \subseteq crossed' /\ DOMAIN receipts' = DOMAIN receipts /\ ~receipts'[p].live
        /\ \A q \in DOMAIN receipts : q # p => receipts'[q] = receipts[q]
        /\ DOMAIN visits' = DOMAIN visits
        /\ \A v \in DOMAIN visits : visits'[v].receipt = IF visits[v].receipt = p THEN 0 ELSE visits[v].receipt
    BY <1>6 DEF Removes
  <2> QED
    BY <2>1 DEF Accounted, OnVisit, Apart
<1> QED
  BY <1>1, <1>2, <1>3, <1>4, <1>5, <1>6, VisitCases

LEMMA LinkedAlways == Spec => [](Linked /\ Accounted)
<1>1. Orderly /\ FieldTyped /\ Linked /\ Accounted /\ [Next]_vars => Linked' /\ Accounted'
  BY LinkedStep, AccountedStep
<1>2. Init => Linked /\ Accounted
  BY DEF Init, Linked, Accounted, OnVisit, Idle
<1> QED
  BY <1>1, <1>2, OrderlyAlways, FieldTypedAlways, PTL DEF Spec

(* What a customer paid on visits is what the visits in the books and the  *)
(* one in progress say, unless two requests handled him at once or a visit *)
(* broke off.                                                              *)
Received(c) == [row \in ReceiptRow |-> IF row.who = c THEN row.amount ELSE 0]
Visited(c) == [row \in VisitRow |-> IF row.who = c THEN row.amount ELSE 0]
Due(k, c) == desk[k].op = "visit" /\ desk[k].at # "pay" /\ desk[k].row.who = c
Even(c, v, r) ==
    Apart(Customer(c)) =>
        /\ \A k \in Desks : Due(k, c) => v + desk[k].row.amount = r
        /\ (\A k \in Desks : ~Due(k, c)) => v = r
Paid(c) == Even(c, Worth(visits, Visited(c)), Worth(receipts, Received(c)))
Settling == \A c \in Customers : Paid(c)

LEMMA VisitWeights ==
    ASSUME NEW c PROVE Received(c) \in [ReceiptRow -> Int] /\ Visited(c) \in [VisitRow -> Int]
<1>1. Received(c) \in [ReceiptRow -> Int]
  BY DEF Received, ReceiptRow
<1>2. Visited(c) \in [VisitRow -> Int]
  BY DEF Visited, VisitRow
<1> QED
  BY <1>1, <1>2

LEMMA PaidSums ==
    ASSUME FieldTyped, FieldTyped', NEW c
    PROVE  /\ Worth(visits, Visited(c)) \in Int /\ Worth(receipts, Received(c)) \in Int
           /\ Paid(c)' <=> (Customer(c) \notin crossed' =>
                  /\ \A k \in Desks : Due(k, c)' =>
                         Worth(visits', Visited(c)) + desk'[k].row.amount = Worth(receipts', Received(c))
                  /\ (\A k \in Desks : ~Due(k, c)') => Worth(visits', Visited(c)) = Worth(receipts', Received(c)))
<1>1. Worth(visits, Visited(c)) \in Int /\ Worth(receipts, Received(c)) \in Int
  BY VisitWeights, WorthInt DEF FieldTyped, CashTables
<1>2. Worth(visits, Visited(c))' = Worth(visits', Visited(c)) /\ Worth(receipts, Received(c))' = Worth(receipts', Received(c))
  BY DEF Worth, Visited, Received, VisitRow, ReceiptRow
<1>3. Customer(c)' = Customer(c)
  BY DEF Customer
<1>4. Paid(c)' <=> (Customer(c) \notin crossed' =>
          /\ \A k \in Desks : Due(k, c)' => Worth(visits, Visited(c))' + desk'[k].row.amount = Worth(receipts, Received(c))'
          /\ (\A k \in Desks : ~Due(k, c)') => Worth(visits, Visited(c))' = Worth(receipts, Received(c))')
  BY <1>3 DEF Paid, Even, Apart
<1> QED
  BY <1>1, <1>2, <1>4

(* Tables whose rows are worth the same. *)
LEMMA WorthAlike ==
    ASSUME NEW w, NEW rows, NEW t, DOMAIN t = DOMAIN rows, \A i \in DOMAIN rows : w[t[i]] = w[rows[i]]
    PROVE  Worth(t, w) = Worth(rows, w)
<1>1. [i \in DOMAIN t |-> w[t[i]]] = [i \in DOMAIN rows |-> w[rows[i]]]
  OBVIOUS
<1> QED
  BY <1>1 DEF Worth

LEMMA PaidStep ==
    ASSUME Orderly, FieldTyped, FieldTyped', Linked, NEW c \in Customers, Paid(c), [Next]_vars
    PROVE  Paid(c)'
<1> DEFINE v == Worth(visits, Visited(c))
           r == Worth(receipts, Received(c))
           vv == Worth(visits', Visited(c))
           rr == Worth(receipts', Received(c))
<1>0. /\ Exclusive
      /\ \A k \in Desks : OnVisit(k) => VisitFrame(desk[k]) /\ Customer(desk[k].row.who) \in desk[k].on
      /\ \A k \in Desks : OnVisit(k) => desk[k].row \in VisitRow /\ desk[k].row.amount \in Int
      /\ v \in Int /\ r \in Int
  <2>1. \A k \in Desks : OnVisit(k) => VisitFrame(desk[k])
    BY DEF FieldTyped, FieldFrame, OnVisit
  <2>2. \A row \in VisitRow : row.amount \in Int
    BY DEF VisitRow
  <2> QED
    BY <2>1, <2>2, PaidSums DEF VisitFrame, Orderly
<1>01. Customer(c) \notin crossed => /\ \A k \in Desks : Due(k, c) => v + desk[k].row.amount = r
                                     /\ (\A k \in Desks : ~Due(k, c)) => v = r
  BY DEF Paid, Even, Apart
<1>02. ASSUME Customer(c) \notin crossed' =>
                /\ \A k \in Desks : Due(k, c)' => vv + desk'[k].row.amount = rr
                /\ (\A k \in Desks : ~Due(k, c)') => vv = rr
       PROVE  Paid(c)'
  BY <1>02, PaidSums
<1>03. ASSUME NEW k \in Desks, NEW m \in Desks, k # m, OnVisit(k), OnVisit(m),
              desk[k].row.who = c, desk[m].row.who = c
       PROVE  Customer(c) \in crossed
  BY <1>0, <1>03 DEF Exclusive
<1> HIDE DEF v, r, vv, rr
<1>1. ASSUME vv = v, rr = r, crossed \subseteq crossed',
             \A k \in Desks : Due(k, c)' => Due(k, c) /\ desk'[k].row.amount = desk[k].row.amount,
             \A k \in Desks : Due(k, c) => Due(k, c)' \/ Customer(c) \in crossed'
      PROVE  Paid(c)'
  BY <1>01, <1>02, <1>1
<1>2. CASE Rests
  <2>1. UNCHANGED <<receipts, visits>> /\ crossed \subseteq crossed'
        /\ \A k \in Desks : \/ desk'[k] = desk[k]
                            \/ desk'[k].op # "visit" /\ (desk[k].op = "visit" => desk[k].on \subseteq crossed')
    BY <1>2 DEF Rests
  <2>2. vv = v /\ rr = r
    BY <2>1 DEF v, r, vv, rr
  <2>3. \A k \in Desks : Due(k, c)' => Due(k, c) /\ desk'[k].row.amount = desk[k].row.amount
    BY <2>1 DEF Due
  <2>4. \A k \in Desks : Due(k, c) => Due(k, c)' \/ Customer(c) \in crossed'
    BY <1>0, <2>1 DEF Due, OnVisit
  <2> QED
    BY <1>1, <2>1, <2>2, <2>3, <2>4
<1>3. ASSUME NEW k \in Desks, Begins(k) PROVE Paid(c)'
  <2>1. /\ UNCHANGED <<receipts, visits>> /\ crossed \subseteq crossed'
        /\ desk[k].op # "visit" /\ desk'[k].at = "pay" /\ \A m \in Desks : m # k => desk'[m] = desk[m]
    BY <1>3 DEF Begins, Alone
  <2>2. vv = v /\ rr = r
    BY <2>1 DEF v, r, vv, rr
  <2>3. \A m \in Desks : (Due(m, c)' <=> Due(m, c)) /\ (Due(m, c) => desk'[m].row.amount = desk[m].row.amount)
    BY <2>1 DEF Due
  <2> QED
    BY <1>1, <2>1, <2>2, <2>3
<1>4. ASSUME NEW k \in Desks, Promises(k) PROVE Paid(c)'
  <2>1. /\ UNCHANGED <<receipts, visits, crossed>>
        /\ OnVisit(k) /\ OnVisit(k)' /\ desk[k].at # "pay" /\ desk'[k].at # "pay"
        /\ desk'[k].row.who = desk[k].row.who /\ desk'[k].row.amount = desk[k].row.amount
        /\ \A m \in Desks : m # k => desk'[m] = desk[m]
    BY <1>4 DEF Promises, Goes, Alone, OnVisit
  <2>2. vv = v /\ rr = r
    BY <2>1 DEF v, r, vv, rr
  <2>3. \A m \in Desks : (Due(m, c)' <=> Due(m, c)) /\ (Due(m, c) => desk'[m].row.amount = desk[m].row.amount)
    BY <2>1 DEF Due, OnVisit
  <2> QED
    BY <1>1, <2>1, <2>2, <2>3
<1>5. ASSUME NEW k \in Desks, Goes(k), desk[k].at = "pay",
             vv = v, rr = r + (IF desk[k].row.who = c THEN desk[k].row.amount ELSE 0)
      PROVE  Paid(c)'
  <2>1. /\ crossed' = crossed /\ OnVisit(k) /\ OnVisit(k)' /\ desk[k].at = "pay" /\ desk'[k].at # "pay"
        /\ desk'[k].row.who = desk[k].row.who /\ desk'[k].row.amount = desk[k].row.amount
        /\ \A m \in Desks : m # k => desk'[m] = desk[m]
    BY <1>5 DEF Goes, Alone, OnVisit
  <2>2. CASE desk[k].row.who # c
    <3>1. \A m \in Desks : (Due(m, c)' <=> Due(m, c)) /\ (Due(m, c) => desk'[m].row.amount = desk[m].row.amount)
      BY <2>1, <2>2 DEF Due
    <3> QED
      BY <1>0, <1>1, <1>5, <2>1, <2>2, <3>1
  <2>3. CASE desk[k].row.who = c
    <3>1. Due(k, c)' /\ ~Due(k, c)
      BY <2>1, <2>3 DEF Due, OnVisit
    <3>2. Customer(c) \notin crossed => \A m \in Desks : m # k => ~Due(m, c) /\ ~Due(m, c)'
      BY <1>03, <2>1, <2>3 DEF Due, OnVisit
    <3>3. Customer(c) \notin crossed => v = r
      BY <1>01, <3>1, <3>2
    <3>4. Customer(c) \notin crossed => vv + desk'[k].row.amount = rr
      BY <1>5, <2>1, <2>3, <3>3
    <3> QED
      BY <1>02, <2>1, <3>1, <3>2, <3>4
  <2> QED
    BY <2>2, <2>3
<1>6. ASSUME NEW k \in Desks, Asks(k) PROVE Paid(c)'
  <2>1. Goes(k) /\ desk[k].at = "pay" /\ desk[k].row.amount = 0 /\ UNCHANGED <<receipts, visits>>
    BY <1>6 DEF Asks, Goes
  <2>2. vv = v /\ rr = r + (IF desk[k].row.who = c THEN desk[k].row.amount ELSE 0)
    BY <1>0, <2>1 DEF v, r, vv, rr
  <2> QED
    BY <1>5, <2>1, <2>2
<1>7. ASSUME NEW k \in Desks, Pays(k) PROVE Paid(c)'
  <2> DEFINE row == [who |-> desk[k].row.who, amount |-> desk[k].row.amount, live |-> TRUE]
  <2>1. Goes(k) /\ desk[k].at = "pay" /\ visits' = visits /\ Grown(ReceiptRow, receipts, row, receipts')
    BY <1>7 DEF Pays, Goes
  <2>2. row.who = desk[k].row.who /\ row.amount = desk[k].row.amount
    OBVIOUS
  <2> HIDE DEF row
  <2>3. Adds(ReceiptRow, Received(c), receipts, row, receipts') /\ row \in ReceiptRow
    BY <2>1, VisitWeights DEF Adds, Grown
  <2>4. rr = r + Received(c)[row]
    BY <2>3, WorthAdd DEF r, rr
  <2>5. Received(c)[row] = IF row.who = c THEN row.amount ELSE 0
    BY <2>3 DEF Received
  <2>6. vv = v
    BY <2>1 DEF v, vv
  <2> QED
    BY <1>5, <2>1, <2>2, <2>4, <2>5, <2>6
<1>8. ASSUME NEW k \in Desks, Records(k) PROVE Paid(c)'
  <2> DEFINE row == desk[k].row
  <2>1. /\ crossed' = crossed /\ receipts' = receipts /\ (\A m \in Desks : m # k => desk'[m] = desk[m])
        /\ OnVisit(k) /\ desk[k].at # "pay" /\ ~OnVisit(k)'
        /\ IF row.receipt \in DOMAIN receipts /\ ~receipts[row.receipt].live THEN visits' = visits
           ELSE Grown(VisitRow, visits, row, visits')
    BY <1>8 DEF Records, Alone, OnVisit
  <2>2. rr = r
    BY <2>1 DEF r, rr
  <2>3. row \in VisitRow /\ row.amount \in Int
    BY <1>0, <2>1
  <2>4. ~Due(k, c)' /\ \A m \in Desks : m # k => (Due(m, c)' <=> Due(m, c)) /\ desk'[m] = desk[m]
    BY <2>1 DEF Due, OnVisit
  <2>5. CASE row.receipt \in DOMAIN receipts /\ ~receipts[row.receipt].live
    <3>1. vv = v
      BY <2>1, <2>5 DEF v, vv
    <3>2. row.receipt # 0
      BY <2>5, SeqDomain DEF FieldTyped, CashTables
    <3>3. Customer(row.who) \in crossed
      BY <2>1, <2>5, <3>2 DEF Linked, VisitMade
    <3>4. Due(k, c) => Customer(c) \in crossed'
      BY <2>1, <3>3 DEF Due
    <3> QED
      BY <1>1, <2>1, <2>2, <2>4, <3>1, <3>4
  <2>6. CASE Grown(VisitRow, visits, row, visits')
    <3>1. vv = v + (IF row.who = c THEN row.amount ELSE 0)
      <4> HIDE DEF row
      <4>1. Adds(VisitRow, Visited(c), visits, row, visits')
        BY <2>6, VisitWeights DEF Adds, Grown
      <4>2. vv = v + Visited(c)[row]
        BY <4>1, WorthAdd DEF v, vv
      <4>3. Visited(c)[row] = IF row.who = c THEN row.amount ELSE 0
        BY <2>3 DEF Visited
      <4> QED
        BY <4>2, <4>3
    <3>2. CASE row.who # c
      <4>1. ~Due(k, c)
        BY <3>2 DEF Due
      <4>2. vv = v
        BY <1>0, <3>1, <3>2
      <4> QED
        BY <1>1, <2>1, <2>2, <2>4, <4>1, <4>2
    <3>3. CASE row.who = c
      <4>1. Due(k, c)
        BY <2>1, <3>3 DEF Due, OnVisit
      <4>2. Customer(c) \notin crossed => vv = rr
        BY <1>01, <2>2, <3>1, <3>3, <4>1
      <4>3. Customer(c) \notin crossed => \A m \in Desks : m # k => ~Due(m, c)
        BY <1>03, <2>1, <3>3 DEF Due, OnVisit
      <4> HIDE DEF row
      <4> QED
        BY <1>02, <2>1, <2>4, <4>2, <4>3
    <3> QED
      BY <3>2, <3>3
  <2> HIDE DEF row
  <2> QED
    BY <2>1, <2>5, <2>6
<1>9. ASSUME NEW p, Removes(p) PROVE Paid(c)'
  <2>1. /\ desk' = desk /\ crossed \subseteq crossed' /\ DOMAIN receipts' = DOMAIN receipts
        /\ \A q \in DOMAIN receipts : receipts'[q].who = receipts[q].who /\ receipts'[q].amount = receipts[q].amount
        /\ DOMAIN visits' = DOMAIN visits
        /\ \A n \in DOMAIN visits : visits'[n].who = visits[n].who /\ visits'[n].amount = visits[n].amount
    BY <1>9 DEF Removes
  <2>2. /\ \A n \in DOMAIN receipts : receipts[n] \in ReceiptRow
        /\ \A n \in DOMAIN visits : visits[n] \in VisitRow
    BY SeqDomain DEF FieldTyped, CashTables
  <2>3. /\ \A n \in DOMAIN receipts' : receipts'[n] \in ReceiptRow
        /\ \A n \in DOMAIN visits' : visits'[n] \in VisitRow
    <3>1. receipts' \in Seq(ReceiptRow) /\ visits' \in Seq(VisitRow)
      BY DEF FieldTyped, CashTables, ReceiptRow, VisitRow
    <3> QED
      BY <3>1, SeqDomain
  <2>4. \A row \in ReceiptRow : Received(c)[row] = IF row.who = c THEN row.amount ELSE 0
    BY DEF Received
  <2>5. \A row \in VisitRow : Visited(c)[row] = IF row.who = c THEN row.amount ELSE 0
    BY DEF Visited
  <2>6. rr = r
    <3>1. \A i \in DOMAIN receipts : Received(c)[receipts'[i]] = Received(c)[receipts[i]]
      BY <2>1, <2>2, <2>3, <2>4
    <3> QED
      BY <2>1, <3>1, WorthAlike DEF r, rr
  <2>7. vv = v
    <3>1. \A i \in DOMAIN visits : Visited(c)[visits'[i]] = Visited(c)[visits[i]]
      BY <2>1, <2>2, <2>3, <2>5
    <3> QED
      BY <2>1, <3>1, WorthAlike DEF v, vv
  <2>8. \A k \in Desks : (Due(k, c)' <=> Due(k, c)) /\ desk'[k] = desk[k]
    BY <2>1 DEF Due
  <2> QED
    BY <1>1, <2>1, <2>6, <2>7, <2>8
<1> QED
  BY <1>2, <1>3, <1>4, <1>6, <1>7, <1>8, <1>9, VisitCases

LEMMA SettlingAlways == Spec => []Settling
<1>1. Orderly /\ FieldTyped /\ FieldTyped' /\ Linked /\ Settling /\ [Next]_vars => Settling'
  BY PaidStep DEF Settling
<1>2. Init => Settling
  <2> SUFFICES ASSUME Init, NEW c \in Customers PROVE Paid(c)
    BY DEF Settling
  <2>1. visits = <<>> /\ receipts = <<>> /\ \A k \in Desks : desk[k].op = "none"
    BY DEF Init, Idle
  <2>2. Worth(visits, Visited(c)) = 0 /\ Worth(receipts, Received(c)) = 0
    BY <2>1, WorthNothing
  <2>3. \A k \in Desks : ~Due(k, c)
    BY <2>1 DEF Due
  <2> QED
    BY <2>2, <2>3 DEF Paid, Even
<1> QED
  BY <1>1, <1>2, OrderlyAlways, FieldTypedAlways, LinkedAlways, PTL DEF Spec

-----------------------------------------------------------------------------
(* The sums that the readers of the cash make, key by key. *)
LEMMA CashRows ==
    ASSUME FieldTyped
    PROVE  /\ IsFiniteSet(DOMAIN drops) /\ IsFiniteSet(DOMAIN trips) /\ IsFiniteSet(DOMAIN handovers)
           /\ IsFiniteSet(DOMAIN visits) /\ IsFiniteSet(DOMAIN receipts)
           /\ IsFiniteSet(Days) /\ IsFiniteSet(Riders) /\ IsFiniteSet(Customers)
           /\ \A d \in DOMAIN drops : drops[d].cash \in Int /\ drops[d].day \in Days /\ drops[d].trip \in DOMAIN trips
           /\ \A h \in DOMAIN handovers : handovers[h].amount \in Int /\ handovers[h].day \in Days
           /\ \A v \in DOMAIN visits : /\ visits[v] \in VisitRow /\ visits[v].amount \in Int /\ visits[v].day \in Days
                                       /\ visits[v].collector \in Riders /\ visits[v].who \in Customers
           /\ \A p \in DOMAIN receipts : /\ receipts[p] \in ReceiptRow /\ receipts[p].amount \in Int
                                         /\ receipts[p].who \in Customers
<1>1. /\ drops \in Seq(DropRow) /\ trips \in Seq(TripRow) /\ handovers \in Seq(HandoverRow)
      /\ visits \in Seq(VisitRow) /\ receipts \in Seq(ReceiptRow)
      /\ \A d \in DOMAIN drops : drops[d].trip \in DOMAIN trips
  BY DEF FieldTyped, FileTables, CashTables
<1>2. /\ \A d \in DOMAIN drops : drops[d] \in DropRow
      /\ \A h \in DOMAIN handovers : handovers[h] \in HandoverRow
      /\ \A v \in DOMAIN visits : visits[v] \in VisitRow
      /\ \A p \in DOMAIN receipts : receipts[p] \in ReceiptRow
  BY <1>1, SeqDomain
<1>3. /\ IsFiniteSet(DOMAIN drops) /\ IsFiniteSet(DOMAIN trips) /\ IsFiniteSet(DOMAIN handovers)
      /\ IsFiniteSet(DOMAIN visits) /\ IsFiniteSet(DOMAIN receipts)
  BY <1>1, SeqDomain
<1>4. \A d \in DOMAIN drops : drops[d].cash \in Int /\ drops[d].day \in Days
  BY <1>2 DEF DropRow
<1>5. \A h \in DOMAIN handovers : handovers[h].amount \in Int /\ handovers[h].day \in Days
  BY <1>2 DEF HandoverRow
<1>6. \A v \in DOMAIN visits : /\ visits[v].amount \in Int /\ visits[v].day \in Days
                               /\ visits[v].collector \in Riders /\ visits[v].who \in Customers
  BY <1>2 DEF VisitRow
<1>7. \A p \in DOMAIN receipts : receipts[p].amount \in Int /\ receipts[p].who \in Customers
  BY <1>2 DEF ReceiptRow
<1> QED
  BY <1>1, <1>2, <1>3, <1>4, <1>5, <1>6, <1>7, OfficeAssumption

LEMMA RiderRows ==
    ASSUME FieldTyped, NEW r
    PROVE  /\ IsFiniteSet(DropsOf(r)) /\ IsFiniteSet(HandoversOf(r))
           /\ DropsOf(r) \subseteq DOMAIN drops /\ HandoversOf(r) \subseteq DOMAIN handovers
<1>1. DropsOf(r) \subseteq DOMAIN drops /\ HandoversOf(r) \subseteq DOMAIN handovers
  BY DEF DropsOf, HandoversOf, Live
<1> QED
  BY <1>1, CashRows, FS_Subset

LEMMA CollectedDaily ==
    ASSUME FieldTyped, NEW r
    PROVE  SumFunction([day \in Days |-> CollectedOn(r, day)]) = CashCollected(r)
<1> DEFINE R == DropsOf(r)
           f == [d \in R |-> drops[d].cash]
           key == [d \in R |-> drops[d].day]
           g == [day \in Days |-> CollectedOn(r, day)]
<1>1. \A d \in R : f[d] \in Int /\ key[d] \in Days
  BY CashRows, RiderRows
<1>2. \A day \in Days : g[day] = SumFunction([d \in {x \in R : key[x] = day} |-> f[d]])
  <2> SUFFICES ASSUME NEW day \in Days
               PROVE  CollectedOn(r, day) = SumFunction([d \in {x \in R : key[x] = day} |-> f[d]])
    OBVIOUS
  <2>1. {x \in R : key[x] = day} = {d \in DropsOf(r) : drops[d].day = day}
    OBVIOUS
  <2>2. [d \in {x \in R : key[x] = day} |-> f[d]] = [d \in {d \in DropsOf(r) : drops[d].day = day} |-> drops[d].cash]
    BY <2>1
  <2> QED
    BY <2>2 DEF CollectedOn, DropCash
<1>3. f = [d \in R |-> f[d]] /\ g = [day \in Days |-> g[day]]
  OBVIOUS
<1>4. SumFunction(f) = CashCollected(r)
  BY DEF CashCollected, DropCash
<1>5. IsFiniteSet(R) /\ IsFiniteSet(Days)
  BY CashRows, RiderRows
<1> HIDE DEF R, f, key, g
<1>6. Parted(R, Days, f, key, g)
  BY <1>1, <1>2, <1>3, <1>5 DEF Parted
<1>7. SumFunction(g) = CashCollected(r)
  BY <1>4, <1>6, SumOfParts
<1> QED
  BY <1>7 DEF g

LEMMA HandedDaily ==
    ASSUME FieldTyped, NEW r
    PROVE  SumFunction([day \in Days |-> HandedOverOn(r, day)]) = HandedOver(r)
<1> DEFINE R == HandoversOf(r)
           f == [h \in R |-> handovers[h].amount]
           key == [h \in R |-> handovers[h].day]
           g == [day \in Days |-> HandedOverOn(r, day)]
<1>1. \A h \in R : f[h] \in Int /\ key[h] \in Days
  BY CashRows, RiderRows
<1>2. \A day \in Days : g[day] = SumFunction([h \in {x \in R : key[x] = day} |-> f[h]])
  <2> SUFFICES ASSUME NEW day \in Days
               PROVE  HandedOverOn(r, day) = SumFunction([h \in {x \in R : key[x] = day} |-> f[h]])
    OBVIOUS
  <2>1. {x \in R : key[x] = day} = {h \in HandoversOf(r) : handovers[h].day = day}
    OBVIOUS
  <2>2. [h \in {x \in R : key[x] = day} |-> f[h]]
        = [h \in {h \in HandoversOf(r) : handovers[h].day = day} |-> handovers[h].amount]
    BY <2>1
  <2> QED
    BY <2>2 DEF HandedOverOn, Handed
<1>3. f = [h \in R |-> f[h]] /\ g = [day \in Days |-> g[day]]
  OBVIOUS
<1>4. SumFunction(f) = HandedOver(r)
  BY DEF HandedOver, Handed
<1>5. IsFiniteSet(R) /\ IsFiniteSet(Days)
  BY CashRows, RiderRows
<1> HIDE DEF R, f, key, g
<1>6. Parted(R, Days, f, key, g)
  BY <1>1, <1>2, <1>3, <1>5 DEF Parted
<1>7. SumFunction(g) = HandedOver(r)
  BY <1>4, <1>6, SumOfParts
<1> QED
  BY <1>7 DEF g

LEMMA RunsOfRider ==
    ASSUME FieldTyped, NEW r
    PROVE  SumFunction([t \in {t \in DOMAIN trips : trips[t].rider = r} |-> RunCash(t)]) = CashCollected(r)
<1> DEFINE R == DropsOf(r)
           K == {t \in DOMAIN trips : trips[t].rider = r}
           f == [d \in R |-> drops[d].cash]
           key == [d \in R |-> drops[d].trip]
           g == [t \in K |-> RunCash(t)]
<1>1. \A d \in R : f[d] \in Int /\ key[d] \in K
  <2>1. \A d \in R : drops[d].trip \in DOMAIN trips /\ trips[drops[d].trip].rider = r /\ drops[d].cash \in Int
    BY CashRows, RiderRows DEF DropsOf
  <2> QED
    BY <2>1
<1>2. \A t \in K : g[t] = SumFunction([d \in {x \in R : key[x] = t} |-> f[d]])
  <2> SUFFICES ASSUME NEW t \in K
               PROVE  RunCash(t) = SumFunction([d \in {x \in R : key[x] = t} |-> f[d]])
    OBVIOUS
  <2>1. {x \in R : key[x] = t} = LiveDrops(t)
    BY DEF DropsOf, LiveDrops, Live
  <2>2. [d \in {x \in R : key[x] = t} |-> f[d]] = [d \in LiveDrops(t) |-> drops[d].cash]
    BY <2>1
  <2> QED
    BY <2>2 DEF RunCash, DropCash
<1>3. f = [d \in R |-> f[d]] /\ g = [t \in K |-> g[t]]
  OBVIOUS
<1>4. SumFunction(f) = CashCollected(r)
  BY DEF CashCollected, DropCash
<1>5. IsFiniteSet(R) /\ IsFiniteSet(K)
  <2>1. K \subseteq DOMAIN trips
    OBVIOUS
  <2> QED
    BY <2>1, CashRows, RiderRows, FS_Subset
<1> HIDE DEF R, f, key, g
<1>6. Parted(R, K, f, key, g)
  BY <1>1, <1>2, <1>3, <1>5 DEF Parted
<1>7. SumFunction(g) = CashCollected(r)
  <2> HIDE DEF K
  <2> QED
    BY <1>4, <1>6, SumOfParts
<1> QED
  BY <1>7 DEF g

(* What a rider's days and runs show. *)
LEMMA RiderAddsUp ==
    ASSUME FieldTyped, NEW r
    PROVE  SumFunction([day \in Days |-> CollectedOn(r, day) - HandedOverOn(r, day)]) = RiderCashBalance(r) + RiderPaid(r)
<1> DEFINE f == [day \in Days |-> CollectedOn(r, day)]
           g == [day \in Days |-> HandedOverOn(r, day)]
           h == [day \in Days |-> CollectedOn(r, day) - HandedOverOn(r, day)]
<1>1. \A day \in Days : CollectedOn(r, day) \in Int
  <2> SUFFICES ASSUME NEW day \in Days PROVE CollectedOn(r, day) \in Int
    OBVIOUS
  <2> DEFINE T == {d \in DropsOf(r) : drops[d].day = day}
             q == [d \in T |-> drops[d].cash]
  <2>1. DOMAIN q = T /\ T \subseteq DropsOf(r)
    OBVIOUS
  <2>2. IsFiniteSet(DOMAIN q) /\ \A d \in DOMAIN q : q[d] \in Int
    BY <2>1, CashRows, RiderRows, FS_Subset
  <2>3. SumFunction(q) \in Int
    <3> HIDE DEF q
    <3> QED
      BY <2>2, TotalInt
  <2> QED
    BY <2>3 DEF CollectedOn, DropCash
<1>2. \A day \in Days : HandedOverOn(r, day) \in Int
  <2> SUFFICES ASSUME NEW day \in Days PROVE HandedOverOn(r, day) \in Int
    OBVIOUS
  <2> DEFINE T == {x \in HandoversOf(r) : handovers[x].day = day}
             q == [x \in T |-> handovers[x].amount]
  <2>1. DOMAIN q = T /\ T \subseteq HandoversOf(r)
    OBVIOUS
  <2>2. IsFiniteSet(DOMAIN q) /\ \A d \in DOMAIN q : q[d] \in Int
    BY <2>1, CashRows, RiderRows, FS_Subset
  <2>3. SumFunction(q) \in Int
    <3> HIDE DEF q
    <3> QED
      BY <2>2, TotalInt
  <2> QED
    BY <2>3 DEF HandedOverOn, Handed
<1>3. /\ IsFiniteSet(Days) /\ DOMAIN f = Days /\ DOMAIN g = Days /\ DOMAIN h = Days
      /\ \A day \in Days : f[day] \in Int /\ g[day] \in Int /\ h[day] = f[day] - g[day]
  BY <1>1, <1>2, CashRows
<1>4. SumFunction(f) = CashCollected(r) /\ SumFunction(g) = HandedOver(r)
  BY CollectedDaily, HandedDaily
<1>5. /\ SumFunction(h) = SumFunction(f) - SumFunction(g)
      /\ SumFunction(f) \in Int /\ SumFunction(g) \in Int
  <2> HIDE DEF f, g, h
  <2>1. Differ(Days, f, g, h)
    BY <1>3 DEF Differ
  <2> QED
    BY <2>1, SumsDiffer
<1>6. RiderPaid(r) \in Int
  <2>1. Worth(expenses, Spends(r)) \in Int
    <3>1. Spends(r) \in [ExpenseRow -> Int]
      BY RiderWeights
    <3> QED
      BY <3>1, WorthInt DEF FieldTyped, CashTables
  <2> QED
    BY <2>1, BalanceWorth
<1>7. \A a, b, p \in Int : a - b = a - p - b + p
  OBVIOUS
<1>8. SumFunction(h) = RiderCashBalance(r) + RiderPaid(r)
  <2>1. SumFunction(h) = CashCollected(r) - HandedOver(r) /\ CashCollected(r) \in Int /\ HandedOver(r) \in Int
    <3> HIDE DEF f, g, h
    <3> QED
      BY <1>4, <1>5
  <2> HIDE DEF h
  <2> QED
    BY <1>6, <1>7, <2>1 DEF RiderCashBalance
<1> QED
  BY <1>8

(* What the collection report counts, collector by collector, is what was  *)
(* received on visits, customer by customer.                               *)
LEMMA CollectedByAll ==
    ASSUME FieldTyped
    PROVE  SumFunction([r \in Riders |-> CollectedBy(r, Days)])
           = SumFunction([v \in DOMAIN visits |-> visits[v].amount])
<1> DEFINE R == DOMAIN visits
           f == [v \in R |-> visits[v].amount]
           key == [v \in R |-> visits[v].collector]
           g == [r \in Riders |-> CollectedBy(r, Days)]
<1>1. \A v \in R : f[v] \in Int /\ key[v] \in Riders
  BY CashRows
<1>2. \A r \in Riders : g[r] = SumFunction([v \in {x \in R : key[x] = r} |-> f[v]])
  <2> SUFFICES ASSUME NEW r \in Riders
               PROVE  CollectedBy(r, Days) = SumFunction([v \in {x \in R : key[x] = r} |-> f[v]])
    OBVIOUS
  <2>1. {x \in R : key[x] = r} = {v \in DOMAIN visits : visits[v].collector = r /\ visits[v].day \in Days}
    BY CashRows
  <2>2. [v \in {x \in R : key[x] = r} |-> f[v]]
        = [v \in {v \in DOMAIN visits : visits[v].collector = r /\ visits[v].day \in Days} |-> visits[v].amount]
    BY <2>1
  <2> QED
    BY <2>2 DEF CollectedBy
<1>3. f = [v \in R |-> f[v]] /\ g = [r \in Riders |-> g[r]]
  OBVIOUS
<1>5. IsFiniteSet(R) /\ IsFiniteSet(Riders)
  BY CashRows
<1> HIDE DEF f, key, g
<1>6. Parted(R, Riders, f, key, g)
  BY <1>1, <1>2, <1>3, <1>5 DEF Parted
<1>7. SumFunction(g) = SumFunction(f)
  BY <1>6, SumOfParts
<1> QED
  BY <1>7 DEF f, g

LEMMA VisitedAll ==
    ASSUME FieldTyped
    PROVE  SumFunction([c \in Customers |-> Worth(visits, Visited(c))])
           = SumFunction([v \in DOMAIN visits |-> visits[v].amount])
<1> DEFINE R == DOMAIN visits
           f == [v \in R |-> visits[v].amount]
           key == [v \in R |-> visits[v].who]
           g == [c \in Customers |-> Worth(visits, Visited(c))]
<1>1. \A v \in R : f[v] \in Int /\ key[v] \in Customers
  BY CashRows
<1>2. \A c \in Customers : g[c] = SumFunction([v \in {x \in R : key[x] = c} |-> f[v]])
  <2> SUFFICES ASSUME NEW c \in Customers
               PROVE  Worth(visits, Visited(c)) = SumFunction([v \in {x \in R : key[x] = c} |-> f[v]])
    OBVIOUS
  <2> DEFINE T == {x \in R : key[x] = c}
             q == [v \in T |-> f[v]]
             w == Visited(c)
  <2>1. T \in SUBSET (DOMAIN visits) /\ DOMAIN q = T /\ (\A v \in T : q[v] = visits[v].amount)
        /\ T = {v \in DOMAIN visits : visits[v].who = c}
    OBVIOUS
  <2>2. visits \in Seq(VisitRow) /\ w \in [VisitRow -> Int]
    BY VisitWeights DEF FieldTyped, CashTables
  <2>3. \A v \in DOMAIN visits : w[visits[v]] = IF visits[v].who = c THEN visits[v].amount ELSE 0
    BY CashRows DEF Visited
  <2> HIDE DEF T, q, w
  <2>4. (\A i \in T : q[i] = w[visits[i]]) /\ \A i \in DOMAIN visits : i \notin T => w[visits[i]] = 0
    BY <2>1, <2>3
  <2>5. SumFunction(q) = Worth(visits, w)
    BY <2>1, <2>2, <2>4, WorthWithin
  <2> QED
    BY <2>5 DEF q, w, T
<1>3. f = [v \in R |-> f[v]] /\ g = [c \in Customers |-> g[c]]
  OBVIOUS
<1>5. IsFiniteSet(R) /\ IsFiniteSet(Customers)
  BY CashRows
<1> HIDE DEF f, key, g
<1>6. Parted(R, Customers, f, key, g)
  BY <1>1, <1>2, <1>3, <1>5 DEF Parted
<1>7. SumFunction(g) = SumFunction(f)
  BY <1>6, SumOfParts
<1> QED
  BY <1>7 DEF f, g

LEMMA ReceivedAll ==
    ASSUME FieldTyped
    PROVE  SumFunction([c \in Customers |-> Worth(receipts, Received(c))])
           = SumFunction([p \in DOMAIN receipts |-> receipts[p].amount])
<1> DEFINE R == DOMAIN receipts
           f == [p \in R |-> receipts[p].amount]
           key == [p \in R |-> receipts[p].who]
           g == [c \in Customers |-> Worth(receipts, Received(c))]
<1>1. \A p \in R : f[p] \in Int /\ key[p] \in Customers
  BY CashRows
<1>2. \A c \in Customers : g[c] = SumFunction([p \in {x \in R : key[x] = c} |-> f[p]])
  <2> SUFFICES ASSUME NEW c \in Customers
               PROVE  Worth(receipts, Received(c)) = SumFunction([p \in {x \in R : key[x] = c} |-> f[p]])
    OBVIOUS
  <2> DEFINE T == {x \in R : key[x] = c}
             q == [p \in T |-> f[p]]
             w == Received(c)
  <2>1. T \in SUBSET (DOMAIN receipts) /\ DOMAIN q = T /\ (\A p \in T : q[p] = receipts[p].amount)
        /\ T = {p \in DOMAIN receipts : receipts[p].who = c}
    OBVIOUS
  <2>2. receipts \in Seq(ReceiptRow) /\ w \in [ReceiptRow -> Int]
    BY VisitWeights DEF FieldTyped, CashTables
  <2>3. \A p \in DOMAIN receipts : w[receipts[p]] = IF receipts[p].who = c THEN receipts[p].amount ELSE 0
    BY CashRows DEF Received
  <2> HIDE DEF T, q, w
  <2>4. (\A i \in T : q[i] = w[receipts[i]]) /\ \A i \in DOMAIN receipts : i \notin T => w[receipts[i]] = 0
    BY <2>1, <2>3
  <2>5. SumFunction(q) = Worth(receipts, w)
    BY <2>1, <2>2, <2>4, WorthWithin
  <2> QED
    BY <2>5 DEF q, w, T
<1>3. f = [p \in R |-> f[p]] /\ g = [c \in Customers |-> g[c]]
  OBVIOUS
<1>5. IsFiniteSet(R) /\ IsFiniteSet(Customers)
  BY CashRows
<1> HIDE DEF f, key, g
<1>6. Parted(R, Customers, f, key, g)
  BY <1>1, <1>2, <1>3, <1>5 DEF Parted
<1>7. SumFunction(g) = SumFunction(f)
  BY <1>6, SumOfParts
<1> QED
  BY <1>7 DEF f, g

LEMMA ReportAddsUp ==
    ASSUME FieldTyped, Settling, \A c \in Customers : Apart(Customer(c)) /\ ~AtVisit(c)
    PROVE  SumFunction([r \in Riders |-> CollectedBy(r, Days)])
           = SumFunction([p \in DOMAIN receipts |-> receipts[p].amount])
<1>1. \A c \in Customers : Worth(visits, Visited(c)) = Worth(receipts, Received(c))
  <2> SUFFICES ASSUME NEW c \in Customers PROVE Worth(visits, Visited(c)) = Worth(receipts, Received(c))
    OBVIOUS
  <2>1. \A k \in Desks : ~Due(k, c)
    BY DEF AtVisit, Due, Holds, FieldTyped, FieldFrame, VisitFrame
  <2> QED
    BY <2>1 DEF Settling, Paid, Even
<1>2. [c \in Customers |-> Worth(visits, Visited(c))] = [c \in Customers |-> Worth(receipts, Received(c))]
  BY <1>1
<1> QED
  BY <1>2, CollectedByAll, VisitedAll, ReceivedAll

LEMMA VisitsBooked ==
    ASSUME FieldTyped, Linked, Accounted
    PROVE  /\ \A v \in DOMAIN visits : LET p == visits[v].receipt IN
                  p # 0 => /\ VisitOf(p) = {v} /\ p \in Live(receipts)
                           /\ receipts[p].who = visits[v].who /\ receipts[p].amount = visits[v].amount
           /\ \A p \in Live(receipts) :
                  Apart(Customer(receipts[p].who)) /\ ~AtVisit(receipts[p].who) => VisitOf(p) # {}
<1>1. ASSUME NEW v \in DOMAIN visits, visits[v].receipt # 0
      PROVE  LET p == visits[v].receipt IN
                 /\ VisitOf(p) = {v} /\ p \in Live(receipts)
                 /\ receipts[p].who = visits[v].who /\ receipts[p].amount = visits[v].amount
  BY <1>1 DEF Linked, Booked, VisitOf, Live
<1>2. ASSUME NEW p \in Live(receipts), Apart(Customer(receipts[p].who)), ~AtVisit(receipts[p].who)
      PROVE  VisitOf(p) # {}
  <2>1. p \in DOMAIN receipts /\ receipts[p].live /\ p # 0
    BY CashRows, SeqDomain DEF Live, FieldTyped, CashTables
  <2>2. \A k \in Desks : ~(OnVisit(k) /\ desk[k].row.receipt = p)
    <3> SUFFICES ASSUME NEW k \in Desks, OnVisit(k), desk[k].row.receipt = p PROVE FALSE
      OBVIOUS
    <3>1. desk[k].row.who = receipts[p].who
      BY <2>1 DEF Linked, VisitMade
    <3>2. Customer(desk[k].row.who) \in desk[k].on
      BY DEF FieldTyped, FieldFrame, OnVisit, VisitFrame
    <3> QED
      BY <1>2, <3>1, <3>2 DEF AtVisit, OnVisit, Holds
  <2>3. \E v \in DOMAIN visits : visits[v].receipt = p
    BY <1>2, <2>1, <2>2 DEF Accounted
  <2> QED
    BY <2>3 DEF VisitOf
<1> QED
  BY <1>1, <1>2

(* What the dashboard shows of a rider's days, and the runs of his cash,   *)
(* add up to the balance that bounds his handovers; an expense he paid     *)
(* names him; a payment made on a visit is in the books of that visit      *)
(* alone, and the collection report counts what the payments say.          *)
THEOREM CashAddsUp == Spec => []CashAgrees
<1>1. FieldTyped /\ Payers /\ Linked /\ Accounted /\ Settling => CashAgrees
  <2> SUFFICES ASSUME FieldTyped, Payers, Linked, Accounted, Settling PROVE CashAgrees
    OBVIOUS
  <2>1. \A r \in Riders :
            /\ SumFunction([day \in Days |-> CollectedOn(r, day) - HandedOverOn(r, day)])
               = RiderCashBalance(r) + RiderPaid(r)
            /\ SumFunction([t \in {t \in DOMAIN trips : trips[t].rider = r} |-> RunCash(t)]) = CashCollected(r)
    BY RiderAddsUp, RunsOfRider
  <2>2. \A x \in Live(expenses) : Apart(Expense(x)) => HasPayer(expenses[x])
    BY DEF Payers, Live
  <2>3. (\A c \in Customers : Apart(Customer(c)) /\ ~AtVisit(c)) =>
            SumFunction([r \in Riders |-> CollectedBy(r, Days)])
            = SumFunction([p \in DOMAIN receipts |-> receipts[p].amount])
    BY ReportAddsUp
  <2> QED
    BY <2>1, <2>2, <2>3, VisitsBooked DEF CashAgrees
<1> QED
  BY <1>1, FieldTypedAlways, PayersAlways, LinkedAlways, SettlingAlways, PTL
=============================================================================
