---------------------------- MODULE EarnedEscrow ----------------------------
(***************************************************************************)
(* What a stream promises its two parties about the money, without times,  *)
(* rates, pauses, cliffs or checkpoints: an escrow with a meter of what    *)
(* the recipient has earned and not received.  Only what is due is paid,   *)
(* only what is not due goes back, and the settlement splits everything    *)
(* between the two, once.                                                  *)
(***************************************************************************)
EXTENDS Integers

VARIABLES
    held,       \* tokens in escrow
    due,        \* earned and not yet paid; it may exceed what is held
    paid,       \* tokens paid to the recipient
    returned,   \* tokens given back to the sender
    open,       \* not settled
    loops       \* a payee is the escrow itself: part of a payment comes back

escrowVars == <<held, due, paid, returned, open, loops>>

Reserved == IF due < held THEN due ELSE held

EscrowInit ==
    /\ held \in Nat /\ due \in Nat
    /\ paid = 0 /\ returned = 0
    /\ open = TRUE
    /\ loops \in BOOLEAN

(* Time passes, or the parties change the terms *)
Meter ==
    /\ open
    /\ due' \in Nat
    /\ loops' \in BOOLEAN
    /\ UNCHANGED <<held, paid, returned, open>>

(* Tokens arrive, with new terms or, at any time, without being asked for *)
Receive ==
    /\ held' \in Nat /\ held' > held
    /\ due' \in Nat /\ due' >= due /\ (~open => due' = due)
    /\ UNCHANGED <<paid, returned, open, loops>>

(* How much of a payment may come back *)
Back(amount) == IF loops THEN 0 .. amount ELSE {0}

Pay ==
    \E amount \in 1 .. Reserved :
        \E back \in Back(amount) :
            /\ open
            /\ held' = held - amount + back
            /\ due' = due - amount
            /\ paid' = paid + amount
            /\ UNCHANGED <<returned, open, loops>>

Return ==
    /\ open
    /\ held' = Reserved
    /\ returned' = returned + held - Reserved
    /\ UNCHANGED <<due, paid, open, loops>>

Settle ==
    /\ open
    /\ open' = FALSE
    /\ paid' = paid + Reserved
    /\ returned' = returned + held - Reserved
    /\ held' \in Back(Reserved)
    /\ due' = 0
    /\ UNCHANGED loops

EscrowNext == Meter \/ Receive \/ Pay \/ Return \/ Settle

EscrowSpec == EscrowInit /\ [][EscrowNext]_escrowVars
=============================================================================
