--------------------------- MODULE UpstreamGuard ----------------------------
(***************************************************************************)
(* Which upstream addresses are accepted, and what a connection is pinned  *)
(* to (server/inferna_server/services/upstream_guard.py, and the end of    *)
(* _resolve_target in api/gateway.py).                                     *)
(*                                                                         *)
(* A target is a host, as _extract_host reads the normalised address: a    *)
(* name, or an IP literal.  (normalize_worker_address drops the brackets   *)
(* of an IPv6 literal, and _extract_host then takes what precedes its      *)
(* first colon for a name: such an address is a name here too.)            *)
(* A policy p is what the settings say:                                    *)
(*   p.env     environment: "production", "development", or another word,  *)
(*             which is neither                                            *)
(*   p.nets    the IPs that the literals and networks of the allowlist     *)
(*             match                                                       *)
(*   p.names   its hostname entries                                        *)
(* A DNS answer is the list of IPs of a name; << >> when it has none.      *)
(***************************************************************************)
EXTENDS Integers, Sequences, SequencesExt

CONSTANTS
    Names,     \* host names
    IPs,       \* IP addresses
    V4,        \* the IPv4 addresses among them
    Blocked,   \* those in _BLOCKED_NETWORKS
    Mapped     \* [IPs -> IPs], the IPv4 address an IPv4-mapped one stands for

ASSUME GuardAssumption ==
    /\ Names \cap IPs = {}
    /\ V4 \subseteq IPs /\ Blocked \subseteq IPs
    /\ Mapped \in [IPs -> IPs]
    /\ \A ip \in IPs : Mapped[Mapped[ip]] = Mapped[ip]

Refusal == [ok |-> FALSE, to |-> << >>]
PinTo(x) == [ok |-> TRUE, to |-> <<x>>]

HasAllowlist(p) == p.nets # {} \/ p.names # {}
Allowed(p, ip) == Mapped[ip] \in p.nets
IpIsBlocked(ip) == Mapped[ip] \in Blocked

\* _prefer_ipv4: the first IPv4 address of the answer, or else the first of all.
PreferIpv4(ips) ==
    LET v4 == {i \in DOMAIN ips : ips[i] \in V4}
    IN  IF v4 # {} THEN ips[CHOOSE i \in v4 : \A j \in v4 : i <= j] ELSE ips[1]

\* What the policy says of one IP that no hostname entry vouches for.
IpAccepted(p, ip) ==
    IF HasAllowlist(p) THEN Allowed(p, ip) ELSE p.env = "development" \/ ~IpIsBlocked(ip)

\* resolve_and_validate of a name, with the answer that DNS gives.  A name without an
\* answer is passed through where an entry vouches for it, except in production, and in
\* development without an allowlist.
ValidateName(p, host, ips) ==
    LET passThrough == /\ ips = << >>
                       /\ \/ host \in p.names /\ p.env # "production"
                          \/ ~HasAllowlist(p) /\ p.env = "development"
        vouched == host \in p.names \/ \A ip \in ToSet(ips) : IpAccepted(p, ip)
    IN  CASE passThrough -> PinTo(host)
          [] ~passThrough /\ ips # << >> /\ vouched -> PinTo(PreferIpv4(ips))
          [] OTHER -> Refusal

ValidateLiteral(p, ip) == IF IpAccepted(p, ip) THEN PinTo(Mapped[ip]) ELSE Refusal

resolve_and_validate(p, host, dns) ==
    IF host \in IPs THEN ValidateLiteral(p, host) ELSE ValidateName(p, host, dns[host])

\* validate_worker_address: a malformed address is refused, an empty one accepted.
validate_worker_address(p, addr, dns) ==
    CASE addr.kind = "none" -> TRUE
      [] addr.kind = "malformed" -> FALSE
      [] OTHER -> resolve_and_validate(p, addr.host, dns).ok

\* Mutant: an https host that cannot be pinned is passed through without a trust anchor.
HttpsUnanchored(p, addr, pin) ==
    IF addr.kind # "https" \/ ~pin.ok THEN pin ELSE PinTo(addr.host)

\* The gateway's rule for https: an address cannot be pinned without breaking TLS, so the
\* name goes through where it is itself trusted, and the request is refused elsewhere.  An
\* IPv6 literal differs from its bracketed pin and counts as such a name.
HttpsRule(p, addr, pin) ==
    LET same == pin.to = <<addr.host>> /\ (addr.host \in V4 \/ addr.host \in Names)
    IN  CASE ~pin.ok \/ addr.kind # "https" \/ same -> pin
          [] /\ pin.ok /\ addr.kind = "https" /\ ~same
             /\ p.env = "development" \/ addr.host \in p.names -> PinTo(addr.host)
          [] OTHER -> Refusal
=============================================================================
