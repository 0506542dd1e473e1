--------------------------- MODULE MCRegistration ---------------------------
(* A small instance of Registration for TLC.                               *)
EXTENDS Registration, TLC

CONSTANTS a1, a2, a3, h1, h2, n1, good, bad, six, none

\* The second agent has the name of the first on another machine, the third runs on the
\* machine of the first under no name.
ThreeAgents == {a1, a2, a3}
ThreeNames == {h1, h2, n1}
Settings ==
    a1 :> [host |-> h1, name |-> n1, addr |-> [kind |-> "https", host |-> h1]] @@
    a2 :> [host |-> h2, name |-> n1, addr |-> [kind |-> "none", host |-> h2]] @@
    a3 :> [host |-> h1, name |-> none, addr |-> [kind |-> "http", host |-> good]]

\* One public and one blocked IPv4 address, and the blocked one mapped to IPv6.
SomeIPs == {good, bad, six}
FourAnd == [ip \in SomeIPs |-> IF ip = six THEN bad ELSE ip]
Resolved == <<good>>
SomeAnswers == {<< >>, <<good>>, <<six, good>>}
SomePolicies ==
    {[env |-> "production", nets |-> {}, names |-> {}],
     [env |-> "staging", nets |-> {good}, names |-> {h1}]}
=============================================================================
