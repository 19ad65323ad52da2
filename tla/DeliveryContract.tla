--------------------------- MODULE DeliveryContract ---------------------------
(***************************************************************************)
(* What the store-and-forward buffer promises of the usage records it        *)
(* accepts, whatever deques, builds and batches they pass through: a record  *)
(* is held from the moment it is accepted until the moment it leaves; it     *)
(* leaves once, with one outcome, and never comes back; and it is evicted    *)
(* only when more records are held than there is room for.                   *)
(***************************************************************************)
EXTENDS Naturals, FiniteSets

CONSTANTS
    Records,      \* the usage records
    Outcomes,     \* how a record can leave; "evicted" is one of them
    Room          \* how many records can always be held

VARIABLES
    held,         \* the records held
    outcome       \* per record, how it left, or "none"

vars == <<held, outcome>>

Init ==
    /\ held = {}
    /\ outcome = [r \in Records |-> "none"]

Fresh == {r \in Records : r \notin held /\ outcome[r] = "none"}

\* At most one record is accepted, and others leave, by eviction only for want of room.
Exchange(new, gone, how) ==
    /\ Cardinality(new) <= 1
    /\ held' = (held \cup new) \ gone
    /\ outcome' = [r \in Records |-> IF r \in gone THEN how[r] ELSE outcome[r]]
    /\ (\E r \in gone : how[r] = "evicted") => Cardinality(held \cup new) > Room

Next ==
    \E new \in SUBSET Fresh, gone \in SUBSET held :
        \E how \in [gone -> Outcomes] : Exchange(new, gone, how)

Spec == Init /\ [][Next]_vars
=============================================================================
