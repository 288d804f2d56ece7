------------------------------- MODULE MCIngest -------------------------------
(***************************************************************************)
(* Ingest with three exports of one studio.                                *)
(***************************************************************************)
EXTENDS Ingest, TLC

CONSTANTS ann, ben, eve, ida, yoga, open, r1, r2, q1, q2

Booked(who, class, mark) == [kind |-> "booking", who |-> who, class |-> class, mark |-> mark]
Missed(who, class, mark) == [kind |-> "noshow", who |-> who, class |-> class, mark |-> mark]
Held(class) == [kind |-> "activity", who |-> None, class |-> class, mark |-> None]

\* An upload with its no-shows, an export that lists the same two people the other
\* way round, and one with two people on one class who have no address.
MCUploads == {
    <<Booked(ann, yoga, "unknown"), Booked(ben, yoga, "attended"),
      Missed(ann, yoga, "late_cancel"), Held(yoga)>>,
    <<Booked(ben, yoga, "attended"), Booked(ann, yoga, "attended"), Held(open)>>,
    <<Booked(eve, yoga, "attended"), Booked(ida, yoga, "attended"), Missed(eve, yoga, "no_show"),
      Missed(ann, yoga, "no_show"), Held(yoga)>> }

=============================================================================
