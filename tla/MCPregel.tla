------------------------------ MODULE MCPregel ------------------------------
(* Small instances of Pregel for TLC: graphs, agent behaviours and bounds. *)
EXTENDS Pregel

Eff(sends, add) == [sends |-> sends, add |-> add, bad |-> FALSE]
M(t, v) == [to |-> t, val |-> v]
Out(sig, res, eff, w) == [signal |-> sig, result |-> res, effects |-> eff, write |-> w]
BadEff == [sends |-> <<>>, add |-> 1, bad |-> TRUE]

NoSends == {<<>>}
NoEff == {NoEffects}

TwoVals == {0, 1}
OneVal == {0}
\* Agent 1 talks to both, halts or not; agent 2 answers and contributes.
TalkOutcomes ==
  <<{Out("value", 1, Eff(<<M(1, 1), M(2, 0)>>, 0), NoVal), Out("halt", 0, NoEffects, NoVal),
     Out("value", 0, Eff(<<M(2, 1)>>, 1), 1)},
    {Out("halt", 1, Eff(<<M(1, 0)>>, 1), NoVal), Out("value", 1, NoEffects, 0)}>>
\* Three agents; the third only reports, may fail, and wakes the first.
TrioEdges == {<<0, 1>>, <<0, 2>>, <<1, 3>>, <<3, 2>>}
TrioCond == {<<1, 3>>}
TrioOutcomes == TalkOutcomes \o
  <<{Out("value", 1, Eff(<<M(1, 1)>>, 2), NoVal), Out("halt", 0, NoEffects, 0)}>>
TrioSizes == <<1, 3, 2>>
EvenSizes == <<1, 1>>
UnevenSizes == <<1, 2>>
AddHook == {Eff(<<>>, 1), Eff(<<M(2, 1)>>, 0)}

\* Hooks: agent 1 sends itself two messages (a combiner folds them) and one to agent
\* 2, or contributes to an aggregator nobody declared, which is found out after agent
\* 2, the larger one, was folded in; agent 2 may address a name no agent has.
HookOutcomes ==
  <<{Out("value", 0, Eff(<<M(1, 0), M(1, 0), M(2, 0)>>, 1), NoVal),
     Out("value", 0, BadEff, NoVal), Out("halt", 0, NoEffects, NoVal)},
    {Out("value", 0, Eff(<<M(3, 0)>>, 0), NoVal), Out("halt", 0, Eff(<<M(1, 0)>>, 0), 0)}>>
HookSet == {Eff(<<M(1, 0)>>, 0), Eff(<<M(3, 0)>>, 0), BadEff}
CallerMail == {<<>>, <<M(1, 0), M(1, 0)>>, <<M(3, 0)>>}
\* An edge to a name no agent has: activating it runs nothing, unless mail waits.
HookEdges == {<<0, 1>>, <<0, 3>>, <<0, 2>>}
HookCond == {<<0, 3>>}

\* Two agents that wake each other by messages only; either may vote to halt.
ChatEdges == {<<0, 1>>}
ChatOutcomes ==
  <<{Out("value", 1, Eff(<<M(2, 1)>>, 1), NoVal), Out("halt", 0, Eff(<<M(2, 0)>>, 0), NoVal)},
    {Out("value", 0, Eff(<<M(1, 0)>>, 0), NoVal), Out("value", 1, NoEffects, NoVal)}>>
=============================================================================
