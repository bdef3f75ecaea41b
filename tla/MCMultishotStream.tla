--------------------------- MODULE MCMultishotStream --------------------------
(* Two tasks: one slot that changes hands, or two slots at once. *)
EXTENDS MultishotStream

\* Accept streams in a cancel ring they share with other futures.
Accepts ==
    [kind |-> "accept", refuse |-> FALSE, slots |-> 1, others |-> 1,
     starts |-> 2, posts |-> 2]
\* Accept streams with the ring to themselves.
AcceptsAlone == [Accepts EXCEPT !.slots = 2, !.others = 0, !.posts = 1]
Receives ==
    [kind |-> "recv", refuse |-> TRUE, slots |-> 1, others |-> 0,
     starts |-> 2, posts |-> 2]
TwoSlots == [Receives EXCEPT !.refuse = FALSE, !.slots = 2, !.posts = 1]
AllLoads == {Accepts, AcceptsAlone, Receives, TwoSlots}

=============================================================================
