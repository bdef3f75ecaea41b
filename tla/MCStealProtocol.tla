-------------------------- MODULE MCStealProtocol --------------------------
(* Instances of StealProtocol for model checking. *)
EXTENDS StealProtocol, TLC

CONSTANTS b1, b2, root, none

\* The root waits for two children, one of which suspends again after a steal.
Flat == [workers |-> 2, slots |-> 3,
         does |-> (root :> {"scope"}) @@ (b1 :> {"sleep"}) @@ (b2 :> {"yield"}),
         polls |-> (root :> 1) @@ (b1 :> 2) @@ (b2 :> 1), repeats |-> 0]

\* A child that opens a scope of its own.
Nested == [workers |-> 2, slots |-> 3,
           does |-> (root :> {"scope"}) @@ (b1 :> {"yield", "scope"}) @@ (b2 :> {"yield"}),
           polls |-> (root :> 1) @@ (b1 :> 2) @@ (b2 :> 2), repeats |-> 0]

\* The root drops its scope and waits for something else while a child lives.
Abandon == [workers |-> 2, slots |-> 2,
            does |-> (root :> {"scope", "wait", "abandon"}) @@ (b1 :> {"wait", "keep"}),
            polls |-> (root :> 2) @@ (b1 :> 3), repeats |-> 0]

\* Two thieves and a single child.
Crew == [workers |-> 3, slots |-> 2,
         does |-> (root :> {"scope"}) @@ (b1 :> {"yield"}),
         polls |-> (root :> 1) @@ (b1 :> 2), repeats |-> 0]

\* A single child that sleeps or waits for outside wakes.
One == [workers |-> 2, slots |-> 2,
        does |-> (root :> {"scope"}) @@ (b1 :> {"sleep", "wait", "keep"}),
        polls |-> (root :> 1) @@ (b1 :> 2), repeats |-> 0]

\* A child woken from outside, more than once by the same waker.
Spurious == [One EXCEPT !.does[b1] = {"wait"}, !.repeats = 1]

\* No child: the crew of three is idle but for the root.
Idle == [workers |-> 3, slots |-> 2, does |-> (root :> {"wait"}), polls |-> (root :> 1), repeats |-> 0]

SafetyPrograms == {Flat, Nested, Abandon, Crew, Spurious}
LivePrograms == {One, Idle}
OnePrograms == {One}
=============================================================================
