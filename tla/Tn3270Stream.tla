---------------------------- MODULE Tn3270Stream ----------------------------
(***************************************************************************)
(* The formatted screen of a 3270 terminal (class Tn3270Stream).  The host *)
(* sends records: a command and orders, which draw text and start fields.  *)
(* The user types into unprotected fields, and a key such as Enter sends   *)
(* the fields that were changed.  A record is processed in one call; here  *)
(* it is an order at a time, while the keyboard waits.                     *)
(***************************************************************************)
EXTENDS Integers, Sequences, SequencesExt

CONSTANTS
    Rows, Cols,
    MaxFields,  \* bound: fields
    MaxOrders   \* bound: orders of a record

VARIABLES
    cells,      \* m_cells: blank, drawn by the host, or typed
    cursor,     \* m_cursor
    fields,     \* m_fields
    orders,     \* orders of the record that may still come, -1 between records
    hostCells   \* history: what the host knows of the cells

screenVars == <<cells, cursor, fields, orders, hostCells>>

CellCount == Rows * Cols
AllCells == 0 .. CellCount - 1
Blank == " "
Host == "h"
Typed == "t"

Init ==
    /\ cells = [c \in AllCells |-> Blank] /\ hostCells = cells
    /\ cursor = 0 /\ fields = << >> /\ orders = -1

AtCursor(cell) == IF cell < 0 THEN 0 ELSE cell % CellCount
Clamped(cell) == IF cell < 0 THEN 0 ELSE IF cell >= CellCount THEN CellCount - 1 ELSE cell

Inside(cell, field) == field.start < cell /\ cell < field.end
\* fieldIndexForCell(), as the set of that index, or of none.
FieldAt(cell) ==
    LET in == {i \in DOMAIN fields : Inside(Clamped(cell), fields[i])}
    IN  {i \in in : \A j \in in : i <= j}
InputAt(cell) == {i \in FieldAt(cell) : ~fields[i].protected}

FirstInputCell(among) ==
    LET inputs == {i \in DOMAIN among : ~among[i].protected /\ among[i].start + 1 < among[i].end}
    IN  IF inputs = {} THEN 0
        ELSE among[CHOOSE i \in inputs : \A j \in inputs : i <= j].start + 1

-----------------------------------------------------------------------------
(* Records. *)

\* The command: an erasing one resets the screen.
BeginRecord(erases) ==
    /\ orders = -1 /\ orders' = MaxOrders
    /\ IF erases THEN /\ cells' = [c \in AllCells |-> Blank] /\ hostCells' = cells'
                      /\ cursor' = 0 /\ fields' = << >>
       ELSE UNCHANGED <<cells, hostCells, cursor, fields>>

Taken == orders > 0 /\ orders' = orders - 1

Drawn(f, where, what) == [c \in AllCells |-> IF c \in where THEN what ELSE f[c]]
Draw(where, what) ==
    cells' = Drawn(cells, where, what) /\ hostCells' = Drawn(hostCells, where, what)

PutChar ==
    /\ Taken /\ Draw({cursor}, Host) /\ cursor' = AtCursor(cursor + 1)
    /\ UNCHANGED fields

SetBufferAddress(address) ==
    /\ Taken /\ cursor' = address /\ UNCHANGED <<cells, hostCells, fields>>

ProgramTab ==
    /\ Taken /\ cursor' = FirstInputCell(fields) /\ UNCHANGED <<cells, hostCells, fields>>

\* Insert cursor, set attribute and modify field are skipped.
SkippedOrder == Taken /\ UNCHANGED <<cells, hostCells, cursor, fields>>

\* startFieldExtended(); the new field has no end before the record does.  A
\* record that starts fields has the host know the screen as it is.
StartField(protected) ==
    /\ Taken /\ Len(fields) < MaxFields
    /\ cells' = Drawn(cells, {cursor}, Blank) /\ hostCells' = cells'
    /\ fields' = Append(fields, [start |-> cursor, end |-> 0,
                                 protected |-> protected, modified |-> FALSE])
    /\ cursor' = AtCursor(cursor + 1)

\* From the cursor up to the address; an address behind it stands for the end.
Span(address) == IF cursor <= address THEN cursor .. address - 1 ELSE cursor .. CellCount - 1
Past(address) == IF cursor <= address THEN address ELSE 0

RepeatToAddress(address) ==
    /\ Taken /\ Draw(Span(address), Host) /\ cursor' = Past(address)
    /\ UNCHANGED fields

EraseUnprotectedToAddress(address) ==
    /\ Taken /\ Draw({c \in Span(address) : InputAt(c) # {}}, Blank) /\ cursor' = Past(address)
    /\ UNCHANGED fields

\* rebuildFieldEnds(): by their starts, each up to the next.  The order of two
\* that start at the same cell is not defined.
Ended(sorted) ==
    [i \in DOMAIN sorted |->
        [sorted[i] EXCEPT !.end = IF i < Len(sorted) THEN sorted[i + 1].start ELSE CellCount]]
Orderings ==
    {[i \in DOMAIN fields |-> fields[p[i]]] : p \in
        {q \in [DOMAIN fields -> DOMAIN fields] :
            /\ \A i, j \in DOMAIN fields : i < j => fields[q[i]].start <= fields[q[j]].start
            /\ \A i, j \in DOMAIN fields : q[i] = q[j] => i = j}}

EndRecord ==
    /\ orders >= 0 /\ orders' = -1
    /\ \E sorted \in Orderings :
          /\ fields' = Ended(sorted)
          /\ cursor' = IF fields = << >> THEN cursor ELSE FirstInputCell(fields')
    /\ UNCHANGED <<cells, hostCells>>

ProcessRecord ==
    \/ \E erases \in BOOLEAN : BeginRecord(erases)
    \/ PutChar \/ ProgramTab \/ SkippedOrder \/ EndRecord
    \/ \E protected \in BOOLEAN : StartField(protected)
    \/ \E address \in AllCells : \/ SetBufferAddress(address) \/ RepeatToAddress(address)
                                 \/ EraseUnprotectedToAddress(address)

-----------------------------------------------------------------------------
(* The keyboard. *)

Modified_Untouched(i) == fields
Modified(i) == [fields EXCEPT ![i].modified = TRUE]

\* insertText(), a character: in the last cell of a field the cursor stays, but
\* for the last cell of the screen, from which it goes to the first.
InsertText ==
    /\ orders = -1 /\ UNCHANGED <<orders, hostCells>>
    /\ \/ /\ InputAt(cursor) = {} /\ cursor' = FirstInputCell(fields)
          /\ UNCHANGED <<cells, fields>>
       \/ \E i \in InputAt(cursor) :
             /\ cells' = [cells EXCEPT ![cursor] = Typed] /\ fields' = Modified(i)
             /\ cursor' = LET next == AtCursor(cursor + 1)
                          IN  IF next >= fields[i].end THEN fields[i].end - 1 ELSE next

Backspace ==
    /\ orders = -1 /\ UNCHANGED <<orders, hostCells>>
    /\ \E i \in InputAt(cursor - 1) :
          /\ cursor' = AtCursor(cursor - 1)
          /\ cells' = [cells EXCEPT ![cursor'] = Blank] /\ fields' = Modified(i)

InputStarts == {fields[i].start : i \in {j \in DOMAIN fields : ~fields[j].protected}}
Least(s) == CHOOSE x \in s : \A y \in s : x <= y
Greatest(s) == CHOOSE x \in s : \A y \in s : x >= y

NextField ==
    LET after == {s \in InputStarts : s > cursor}
    IN  IF after = {} THEN FirstInputCell(fields) ELSE AtCursor(Least(after) + 1)
PrevField ==
    LET before == {s \in InputStarts : s < cursor - 1}
    IN  IF InputStarts = {} THEN cursor
        ELSE AtCursor(Greatest(IF before = {} THEN InputStarts ELSE before) + 1)

MoveCursor ==
    /\ orders = -1 /\ UNCHANGED <<orders, hostCells, cells, fields>>
    /\ \/ cursor' \in {AtCursor(cursor + delta) : delta \in {1, -1, Cols, -Cols}}
       \/ cursor' = FirstInputCell(fields)  \* home
       \/ fields # << >> /\ cursor' \in {NextField, PrevField}

\* submit() of Enter or a function key: every unprotected field that was
\* modified.  PA keys and Clear send the cursor only, and change nothing.
Sent(i) == ~fields[i].protected /\ fields[i].modified /\ fields[i].start + 1 < fields[i].end

Submit ==
    /\ orders = -1 /\ UNCHANGED <<orders, cells, cursor>>
    /\ hostCells' = [c \in AllCells |-> IF \E i \in DOMAIN fields : Sent(i) /\ Inside(c, fields[i])
                                        THEN cells[c] ELSE hostCells[c]]
    /\ fields' = [i \in DOMAIN fields |-> IF Sent(i) THEN [fields[i] EXCEPT !.modified = FALSE]
                                          ELSE fields[i]]

Next == ProcessRecord \/ InsertText \/ Backspace \/ MoveCursor \/ Submit

Spec == Init /\ [][Next]_screenVars

-----------------------------------------------------------------------------
(* Properties. *)

StartsDiffer == \A i, j \in DOMAIN fields : fields[i].start = fields[j].start => i = j

\* Between records the fields divide the screen, and whatever the user made of
\* it that the host has not been told is in a field which the next Enter sends:
\* typing reaches no protected cell, and no record that only draws loses it.
\* A host that starts a field again where one starts leaves both, in an order
\* that the sort does not define, and forfeits this until it erases the screen.
NothingUnsent ==
    (orders = -1 /\ StartsDiffer) =>
        /\ \A i, j \in DOMAIN fields : i < j => fields[i].end <= fields[j].start
        /\ \A c \in AllCells :
              cells[c] # hostCells[c] => \E i \in FieldAt(c) : Sent(i)
=============================================================================
