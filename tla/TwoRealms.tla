------------------------------ MODULE TwoRealms ------------------------------
(***************************************************************************)
(* What the move of the administrators to a realm of their own promises:   *)
(* customers and administrators are two tables of accounts that change     *)
(* because somebody joins or leaves one of them, and for no other reason;  *)
(* an account keeps the id it was given.                                   *)
(***************************************************************************)
EXTENDS Naturals

CONSTANTS People, MaxId

Ids == 1 .. MaxId
Accounts == [id : Ids, who : People]

VARIABLES customers, staff

Distinct(rows) == \A r, s \in rows : r.id = s.id \/ r.who = s.who => r = s

Init == /\ customers \in SUBSET Accounts /\ Distinct(customers)
        /\ staff \in SUBSET Accounts /\ Distinct(staff)

\* The account a is one that may join the table.
New(a, rows) == \A r \in rows : r.id # a.id /\ r.who # a.who

Next == \E a \in Accounts :
          \/ New(a, customers) /\ customers' = customers \union {a} /\ UNCHANGED staff
          \/ customers' = customers \ {a} /\ UNCHANGED staff
          \/ New(a, staff) /\ staff' = staff \union {a} /\ UNCHANGED customers
          \/ staff' = staff \ {a} /\ UNCHANGED customers

Spec == Init /\ [][Next]_<<customers, staff>>
=============================================================================
