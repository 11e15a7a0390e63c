--------------------------- MODULE TransferTable ---------------------------
(***************************************************************************)
(* The list of transfers of all tabs (class TransferQueueWidget).  A row   *)
(* is found through m_rows, from a session and the number it gave to the   *)
(* transfer; removing finished rows shifts the others, and the object of a *)
(* session that was closed may come back at the same address.              *)
(***************************************************************************)
EXTENDS Integers, Sequences, FiniteSets, SequencesExt

CONSTANTS
    Addresses,     \* where session objects are
    MaxTransfers,  \* bound: transfers of all sessions
    MaxRows        \* bound: rows of the table

VARIABLES
    table,   \* m_table: what each row shows
    rows,    \* m_rows: index of the row of <<session, id>>
    live,    \* per address: the transfers that have not ended of the session there
    issued,  \* per address: m_nextId of the session there, 0 where there is none
    total    \* transfers of all sessions so far, which number them apart

tableVars == <<table, rows, live, issued, total>>

TableInit ==
    /\ table = << >> /\ rows = [k \in {} |-> 0] /\ total = 0
    /\ live = [s \in Addresses |-> {}] /\ issued = [s \in Addresses |-> 0]

Shows(transfer, status) == [transfer |-> transfer, status |-> status]
Key(s, t) == <<s, t.id>>
Placed(f, k, x) == [l \in DOMAIN f \union {k} |-> IF l = k THEN x ELSE f[l]]
Forget(f, keys) == [k \in DOMAIN f \ keys |-> f[k]]

AttachSession(s) ==
    /\ issued[s] = 0 /\ issued' = [issued EXCEPT ![s] = 1]
    /\ UNCHANGED <<table, rows, live, total>>

\* Each session counts its transfers from 1; `number' tells them apart here.
OnQueued(s) ==
    /\ issued[s] > 0 /\ total < MaxTransfers /\ Len(table) < MaxRows
    /\ LET t == [id |-> issued[s], number |-> total + 1]
       IN  /\ table' = Append(table, Shows(t.number, "Queued"))
           /\ rows' = Placed(rows, Key(s, t), Len(table'))
           /\ live' = [live EXCEPT ![s] = @ \union {t}]
    /\ issued' = [issued EXCEPT ![s] = @ + 1] /\ total' = total + 1

Progressed(row) == [row EXCEPT !.status = "Transferring"]
OnProgress(s, t) ==
    /\ t \in live[s]
    /\ table' = IF Key(s, t) \in DOMAIN rows
                THEN [table EXCEPT ![rows[Key(s, t)]] = Progressed(@)] ELSE table
    /\ UNCHANGED <<rows, live, issued, total>>

Erased(s, t) == Forget(rows, {Key(s, t)})

OnFinished(s, t) ==
    /\ t \in live[s] /\ live' = [live EXCEPT ![s] = @ \ {t}]
    /\ \E status \in {"Done", "Failed"} :
          table' = IF Key(s, t) \in DOMAIN rows
                   THEN [table EXCEPT ![rows[Key(s, t)]].status = status] ELSE table
    /\ rows' = Erased(s, t)
    /\ UNCHANGED <<issued, total>>

\* destroyed() of a session whose tab was closed.
ForgetSession(s) ==
    /\ issued[s] > 0
    /\ LET gone == {k \in DOMAIN rows : k[1] = s}
       IN  /\ table' = [i \in DOMAIN table |->
                           IF \E k \in gone : rows[k] = i
                           THEN [table[i] EXCEPT !.status = "Disconnected"] ELSE table[i]]
           /\ rows' = Forget(rows, gone)
    /\ live' = [live EXCEPT ![s] = {}] /\ issued' = [issued EXCEPT ![s] = 0]
    /\ UNCHANGED total

\* The index of a row that stays, once those before it that do not are removed.
Compacted_Same(i, kept) == i
Compacted(i, kept) == Cardinality({j \in kept : j <= i})

ClearFinished ==
    LET kept == {rows[k] : k \in DOMAIN rows}
    IN  /\ kept # DOMAIN table
        /\ table' = [i \in 1 .. Cardinality(kept) |->
                        table[CHOOSE j \in kept : Cardinality({g \in kept : g <= j}) = i]]
        /\ rows' = [k \in DOMAIN rows |-> Compacted(rows[k], kept)]
        /\ UNCHANGED <<live, issued, total>>

TableNext == \/ \E s \in Addresses : AttachSession(s) \/ OnQueued(s) \/ ForgetSession(s)
                                \/ \E t \in live[s] : OnProgress(s, t) \/ OnFinished(s, t)
        \/ ClearFinished

TableSpec == TableInit /\ [][TableNext]_tableVars

-----------------------------------------------------------------------------
(* Properties. *)

\* Each transfer that has not ended is shown in a row of its own, as queued or
\* transferring, and every other row tells how its transfer ended:
\* through rows that are removed above it, and an address that is used again.
RowsTrue ==
    /\ \A s \in Addresses : \A t \in live[s] :
          /\ Key(s, t) \in DOMAIN rows /\ rows[Key(s, t)] \in DOMAIN table
          /\ table[rows[Key(s, t)]].transfer = t.number
          /\ table[rows[Key(s, t)]].status \in {"Queued", "Transferring"}
    /\ \A i \in DOMAIN table :
          table[i].status \in {"Queued", "Transferring"} =>
              \E s \in Addresses : \E t \in live[s] : table[i].transfer = t.number
=============================================================================
