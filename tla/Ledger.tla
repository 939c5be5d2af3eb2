------------------------------- MODULE Ledger -------------------------------
(***************************************************************************)
(* The append-only ledger of banking/models.py.  An account has no balance *)
(* column: its balance is the sum of its posted LedgerEntry rows and its   *)
(* holds are its pending rows (always negative amounts).                   *)
(*                                                                         *)
(* A ledger is a set of rows.  The field id stands for the row's origin,   *)
(* the pair (source_type, source_id), made unique per row by the modules   *)
(* that write rows; description, provider_ref and the dates are left out.  *)
(***************************************************************************)
EXTENDS Integers, FiniteSetsExt

EntryStatus == {"pending", "posted", "failed"}

\* A LedgerEntry row.  amount > 0 is a credit, amount < 0 a debit.
Entry(id, a, amount, status) ==
    [id |-> id, account |-> a, amount |-> amount, status |-> status]

\* The rows whose origins are ids, on the given accounts.
EntriesOf(ids, accounts) ==
    [id : ids, account : accounts, amount : Int, status : EntryStatus]

\* aggregate(Sum("amount_cents")) over the rows of a with one status; the
\* SUM of no rows is NULL, which the code turns into 0.
SumOfStatus(rows, a, status) ==
    MapThenSumSet(LAMBDA e : e.amount,
                  {e \in rows : e.account = a /\ e.status = status})

BalanceCents(rows, a) == SumOfStatus(rows, a, "posted")

HeldCents(rows, a) == SumOfStatus(rows, a, "pending")

\* available_cents as one query would compute it.  The code issues two (see
\* Withdrawals): this is the value the two agree on when nothing intervenes.
AvailableCents(rows, a) == BalanceCents(rows, a) + HeldCents(rows, a)

\* LedgerEntry.objects.filter(<origin id>, status__in=from).update(status=to)
SetStatusOfAll(rows, id, from, to) ==
    {IF e.status \in from THEN [e EXCEPT !.status = to] ELSE e : e \in rows}
SetStatus(rows, id, from, to) ==
    {IF e.id = id /\ e.status \in from THEN [e EXCEPT !.status = to] ELSE e : e \in rows}

HasEntry(rows, id, status) == \E e \in rows : e.id = id /\ e.status = status
=============================================================================
