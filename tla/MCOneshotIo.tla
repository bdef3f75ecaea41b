------------------------------ MODULE MCOneshotIo ------------------------------
(* Loads for model checking OneshotIo. *)
EXTENDS OneshotIo

CONSTANTS t1, t2

\* Tasks awaiting one operation after another, and ending with one in flight.
Sequential ==
    [kinds |-> {"buffered"}, perTask |-> 2, inboxCap |-> 2,
     foreign |-> FALSE, reissue |-> FALSE, refuse |-> FALSE]

\* One operation each, with every disturbance the code meets: wakes from
\* elsewhere, accepts sharing an inbox that overflows, refused cancels.
Disturbed ==
    [kinds |-> {"buffered", "accept"}, perTask |-> 1, inboxCap |-> 1,
     foreign |-> TRUE, reissue |-> TRUE, refuse |-> TRUE]

\* One operation each, the cancels meeting an inbox with room for one, and
\* wakes from elsewhere.
Crowded == [Disturbed EXCEPT !.reissue = FALSE, !.refuse = FALSE]

\* Accepts one after another, with cancels lost to a full inbox and a full ring.
Refused ==
    [Sequential EXCEPT !.kinds = {"accept"}, !.inboxCap = 1, !.refuse = TRUE]

\* A second operation in flight when something else wakes the task.
Stale ==
    [kinds |-> {"buffered"}, perTask |-> 2, inboxCap |-> 2,
     foreign |-> TRUE, reissue |-> FALSE, refuse |-> FALSE]

\* A task that drops an operation and issues another.
Select ==
    [kinds |-> {"buffered", "accept"}, perTask |-> 2, inboxCap |-> 2,
     foreign |-> FALSE, reissue |-> TRUE, refuse |-> FALSE]

CalmLoads == {Sequential, Crowded, Refused, Disturbed}
StaleLoads == {Stale}
SelectLoads == {Select}
=============================================================================
