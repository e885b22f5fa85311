----------------------------- MODULE MCDefender -----------------------------
(***************************************************************************)
(* Small instances of Defender: the addresses, the scenarios Kimi may      *)
(* propose, and the bounds, for runs that look at the containment, at the  *)
(* evidence and at what must eventually happen.                            *)
(***************************************************************************)
EXTENDS Defender

Address(version, net, host) == [version |-> version, net |-> net, host |-> host]

Visitor == Address(4, "public", 1)
Operator == Address(4, "ignored", 3)
Service == Address(4, "private", 4)
Loopback6 == Address(6, "loopback", 5)
NotAnAddress == Address(4, "none", 6)

BlockScenario(a, duration) == [type |-> "block_ip", ip |-> a, duration |-> duration]
Shell == [type |-> "shell", ip |-> NotAnAddress, duration |-> 0]

\* containment: one visitor to block for a second or two, and scenarios that the
\* policy must turn down
OneVisitor == {Visitor}
VisitorAndService == {Visitor, Service}
ContainmentScenarios ==
    {BlockScenario(Visitor, 1), BlockScenario(Visitor, 2), BlockScenario(Visitor, 3),
     BlockScenario(Service, 1), BlockScenario(NotAnAddress, 1)}

\* evidence: a visitor and an operator whose lines are ignored; a block is
\* evidence of a group of its own, and a batch of one group cuts off the other
VisitorsAndOperator == {Visitor, Operator}
FewScenarios == {BlockScenario(Visitor, 1), Shell}

\* documentation
LocalAddresses == {Visitor, Loopback6}
LocalScenarios == {BlockScenario(Loopback6, 1), BlockScenario(Visitor, 2)}
=============================================================================
