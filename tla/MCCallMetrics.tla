--------------------------- MODULE MCCallMetrics ---------------------------
(* Instances of CallMetrics for TLC.                                       *)
EXTENDS CallMetrics

CONSTANTS c1, c2, c3

(* An inbound call of hour 0 that the customer left in the menu.           *)
Inbound ==
    [parent |-> "none", dir |-> "inbound", toVN |-> TRUE, status |-> "completed",
     talked |-> FALSE, leg1 |-> "", leg2 |-> "", hour |-> 0, dur |-> 1]

Talked(r)   == [r EXCEPT !.talked = TRUE, !.hour = 1, !.dur = 2]
Outbound    == [Inbound EXCEPT !.dir = "outbound", !.toVN = FALSE, !.leg1 = "busy"]
CustomerLeg == [Outbound EXCEPT !.parent = c1, !.leg1 = ""]

(* A call of a menu, an agent leg or the customer leg of c1.               *)
MCRecords ==
    {Inbound,
     Talked(Inbound),
     [Inbound EXCEPT !.leg2 = "cancelled", !.hour = 1],
     [Inbound EXCEPT !.status = "in-progress"],
     [Inbound EXCEPT !.dir = "other", !.status = "noanswer", !.leg1 = "failed"],
     [Inbound EXCEPT !.dir = "other", !.toVN = FALSE, !.hour = -1],
     Talked(Outbound),
     CustomerLeg,
     Talked(CustomerLeg)}

(* c1 is nobody's child.                                                   *)
MCDays == {d \in [Calls -> MCRecords] : d[c1].parent = "none"}
=============================================================================
