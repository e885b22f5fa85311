------------------------------- MODULE Policy -------------------------------
(***************************************************************************)
(* The Defender's local policy and its block list (defender/policy.py), as *)
(* operators.  An address is a record: its IP version, the kind of network *)
(* it lies in, and a host.  A block list is a function from addresses to   *)
(* the time their block expires, 0 for an address that has no record.      *)
(***************************************************************************)
EXTENDS Naturals

CONSTANTS
    Addresses,     \* source addresses that occur
    SubSecond,     \* clock ticks in a second
    MaxDuration    \* the longest block the policy allows, 3600 seconds

ASSUME AddressAssumption ==
    \A a \in Addresses :
        /\ a.version \in {4, 6}
        /\ a.net \in {"loopback", "private", "ignored", "allowed", "public"}
ASSUME TimeAssumption == SubSecond \in Nat \ {0} /\ MaxDuration \in Nat \ {0}

ReadActions == {"observe_logs", "inspect_scanner_results", "active_scan", "verify_containment"}

\* K3DF_IGNORE_NETWORKS and K3DF_ALLOW_NETWORKS may name networks of either
\* version; PROTECTED_NETWORKS names four of version 4, and no address of
\* version 6 is in a network of version 4.
IsProtected(a) ==
    \/ a.net \in {"ignored", "allowed"}
    \/ a.version = 4 /\ a.net \in {"loopback", "private"}

\* Mutant: the protected networks are not looked at.
AllowsAnyAddress(scenario) ==
    \/ scenario.type \in ReadActions
    \/ scenario.type = "block_ip" /\ scenario.duration \in 1..MaxDuration

\* validate_scenario; any other type, an ip that does not parse and a scenario
\* without an action object are refused.
Allows(scenario) ==
    \/ scenario.type \in ReadActions
    \/ /\ scenario.type = "block_ip"
       /\ scenario.ip \in Addresses
       /\ ~IsProtected(scenario.ip)
       /\ scenario.duration \in 1..MaxDuration

Blocks(scenario) == Allows(scenario) /\ scenario.type = "block_ip"

NoBlocks == [a \in Addresses |-> 0]

\* isoformat(timespec="seconds") cuts the fraction of a second off the expiry.
Expiry(now, duration) == (now - (now % SubSecond)) + duration * SubSecond

\* Mutant: a renewed block is added to what is left of the old one.
BlockIpExtends(blocks, a, duration, now) ==
    [blocks EXCEPT ![a] = Expiry(IF @ > now THEN @ ELSE now, duration)]

\* block_ip: the record of an address already listed is replaced.
BlockIp(blocks, a, duration, now) == [blocks EXCEPT ![a] = Expiry(now, duration)]

\* Mutant: an expired record takes its address out of the list's domain.
PruneRemoves(blocks, now) ==
    [a \in {x \in DOMAIN blocks : blocks[x] > now} |-> blocks[a]]

\* active_block drops the expired records, then looks the address up.
Prune(blocks, now) == [a \in Addresses |-> IF blocks[a] > now THEN blocks[a] ELSE 0]

ActiveBlock(blocks, a, now) == Prune(blocks, now)[a] # 0
=============================================================================
