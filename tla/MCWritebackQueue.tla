-------------------------- MODULE MCWritebackQueue --------------------------
(* Small instances of WritebackQueue for TLC.                              *)
EXTENDS WritebackQueue, TLC

Booking(type, location, target, parses) ==
    [type |-> type, location |-> location, subject |-> "7", session |-> "3",
     target |-> target, parses |-> parses]

\* Two keys: an admissible cancellation, and a booking only prod mode lets in.
MCMixed == {Booking("cancel_booking", "l1", "whitelisted", TRUE),
            Booking("create_booking", "l1", "other", TRUE)}

\* A malformed booking, a reschedule in another studio with the same key, and a
\* cancellation.
MCMalformed == {Booking("cancel_booking", "l1", "whitelisted", TRUE),
                Booking("create_booking", "l1", "whitelisted", FALSE),
                Booking("reschedule_booking", "l2", "whitelisted", TRUE)}

MCLive == {[mode |-> "prod", dryRun |-> FALSE]}
MCModes == MCLive \cup {[mode |-> "dev", dryRun |-> TRUE]}

ProcSymmetry == Permutations(Proc)

=============================================================================
