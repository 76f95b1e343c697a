---------------------------- MODULE MCHookDelivery ----------------------------
EXTENDS HookDelivery, TLC
CONSTANTS s1, c1, e1, e2, e3, a1, a2, plugin, settings

MCSessionOf == [e \in Event |-> s1]
MCAgentOf == [e \in Event |-> IF e = e3 THEN a2 ELSE a1]
MCLimit == [t \in Budgeted |-> 1]

Calls(t1, t2, t3) == e1 :> t1 @@ e2 :> t2 @@ e3 :> t3

\* Two reads of one agent or of two, or a write of either kind.
MCScenario ==
    {Calls("codegraph", "codegraph", "none"), Calls("codegraph", "grep", "none"),
     Calls("codegraph", "none", "listing"), Calls("context7", "none", "scoped"), Calls("other", "none", "none"),
     Calls("edit", "none", "none"), Calls("bash", "none", "none")}

\* A single edit.
MCOneEdit == {Calls("edit", "none", "none")}

ChannelSymmetry == Permutations({plugin, settings})

\* The session is bound to its change, which is not scaffolded yet.
BoundAtFirst == [x \in Session |-> Fresh(c1)]
PlaceAtFirst == [c \in Change |-> "none"]
===============================================================================
