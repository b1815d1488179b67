---------------------------- MODULE ChangeLedger ----------------------------
(***************************************************************************)
(* What the write paths promise: the record tables, the change log and the *)
(* table of processed mutations only ever change together, by a whole      *)
(* transaction.  There are no handlers, locks or requests here.            *)
(***************************************************************************)
EXTENDS Integers

CONSTANTS Records, NoRow

VARIABLES row, log, processed

ledger == <<row, log, processed>>

Init ==
    /\ row = [r \in Records |-> NoRow]
    /\ log = {}
    /\ processed = {}

New == log' \ log

Of(r) == {e \in New : e.rec = r}

(* e is the change of the transaction that comes next after f on a record. *)
Follows(e, f) ==
    /\ f.rec = e.rec
    /\ f.id < e.id
    /\ \A g \in Of(e.rec) : g.id <= f.id \/ g.id >= e.id

(* Every change of a record starts from the row the transaction's previous *)
(* change of it left, the first from the row committed before it.  An      *)
(* insert does not know of a row that was inserted meanwhile.              *)
StartsFrom(e, r) ==
    \/ \E f \in Of(r) : Follows(e, f) /\ e.base = f.row
    \/ (\A f \in Of(r) : e.id <= f.id) /\ e.base \in {row[r], NoRow}

Transaction ==
    /\ log \subseteq log'
    /\ \A e \in New : \A f \in log' : e # f => e.id # f.id
    /\ \A r \in Records :
          /\ \A e \in Of(r) : StartsFrom(e, r)
          /\ Of(r) = {} => row'[r] = row[r]
          /\ \A e \in Of(r) : (\A f \in Of(r) : f.id <= e.id) => row'[r] = e.row
    /\ processed' = processed \cup {<<e.device, e.mid>> : e \in New}

Spec == Init /\ [][Transaction]_ledger
=============================================================================
