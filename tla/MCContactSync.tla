---------------------------- MODULE MCContactSync ----------------------------
(* Small instances of ContactSync for TLC.                                 *)
EXTENDS ContactSync

CONSTANTS c1, c2

\* What run_bootstrap writes: it leaves sessions remaining, sessions per week and
\* the expiry date NULL.
Ingested(active, trial, other, attended, idle) ==
    [active |-> active, trial |-> trial, other |-> other, named |-> active = "membership",
     attended |-> attended, idle |-> idle, quiet |-> FALSE, dropped |-> FALSE,
     remaining |-> "null", frequent |-> FALSE, expiry |-> "null"]

\* A new trial, a card bought after it, and the card alone when the trial has
\* left the 30 day window and the last booking is older still.
MCFacts ==
    {Ingested("trial", TRUE, FALSE, FALSE, "to14"),
     Ingested("card", TRUE, TRUE, TRUE, "to14"),
     Ingested("card", FALSE, TRUE, TRUE, "over30")}

=============================================================================
