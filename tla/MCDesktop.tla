------------------------------ MODULE MCDesktop ------------------------------
(***************************************************************************)
(* DesktopPublish for TLC: two sites, one of them not there yet, one role, *)
(* one agent, whose block in agent-keys.txt has a label of the user's, and *)
(* another agent to be added.                                              *)
(***************************************************************************)
EXTENDS DesktopPublish, TLC

MCSiteOf == [o \in {"s1.a", "s1.b", "s2.a"} |-> IF o = "s2.a" THEN "s2" ELSE "s1"]

MCFirstConfig ==
    [agents |-> [a \in Agent |-> IF a = "bot" THEN 2 ELSE Nil], admin |-> 1,
     granted |-> {<<"dev", "s1.a">>}, sites |-> {"s1"}, off |-> {}]

MCFirstKeys == <<[label |-> "admin", token |-> 1], [label |-> "hand", token |-> 2]>>

MCFirstMade == <<"admin", "bot">>

Dev == {"dev"}

MCEdit ==
    { [kind |-> "add", id |-> "s1.b", roles |-> Dev],
      [kind |-> "grants", id |-> "s1.a", roles |-> {}],
      [kind |-> "grants", id |-> "s1.b", roles |-> Dev],
      [kind |-> "remove", id |-> "s1.a"],
      [kind |-> "service", site |-> "s2", ids |-> {"s2.a"}, roles |-> Dev],
      [kind |-> "disable", site |-> "s1"],
      [kind |-> "enable", site |-> "s1"],
      [kind |-> "regenerate", agent |-> "bot"],
      [kind |-> "agent", agent |-> "new"],
      [kind |-> "admin"] }

MCOrder ==
    { [kind |-> "publish", restart |-> FALSE], [kind |-> "publish", restart |-> TRUE],
      [kind |-> "service", svc |-> "stop"], [kind |-> "service", svc |-> "start"],
      [kind |-> "use", remember |-> TRUE], [kind |-> "use", remember |-> FALSE] }

\* The handlers are all alike.
MCSymmetry == Permutations(Handler)
=============================================================================
