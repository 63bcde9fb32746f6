----------------------------- MODULE TrafficPlan ----------------------------
(***************************************************************************)
(* From a configuration file to where a packet goes.  Four places of the   *)
(* code read the same address ranges, each with a parser and a mask of its *)
(* own: the configuration checks, the routes, the filters (nftables on     *)
(* SteamOS, WFP on Windows) and the packet core behind the tunnel device.  *)
(*                                                                         *)
(* An address has Bits bits instead of 32, a range is its address and      *)
(* prefix length as the file spells them, with NoPrefix where it has none. *)
(* The rules of the SteamOS plan are added one at a time, and packets flow *)
(* all the while; which rules a crash leaves behind is SteamNetwork's.     *)
(***************************************************************************)
EXTENDS Integers, Sequences, FiniteSets

CONSTANTS
    Bits,         \* bits of an address
    MaxExempt,    \* bound: underlayExemptions of one file
    MaxRoutes,    \* MAX_PROTECTED_ROUTES (256)
    Identities    \* the identity settings of Windows files: [mesh, policy, mode, registry]

NoPrefix == -1

Addresses == 0 .. 2 ^ Bits - 1

\* Ranges as files spell them: any address, any prefix length, one past the end included.
Ranges == [address : Addresses, prefix : {NoPrefix} \cup 0 .. Bits + 1]

SeqsUpTo(S, n) == UNION {[1 .. k -> S] : k \in 0 .. n}

RangeOf(s) == {s[k] : k \in DOMAIN s}

VARIABLES
    config,   \* the file in force, NoConfig before one is accepted
    rules,    \* SteamOS: the nftables rules added so far
    todo      \* SteamOS: the rules of the plan still to be added

trafficVars == <<config, rules, todo>>

NoConfig == [host |-> "none"]

-----------------------------------------------------------------------------
(* Masks.  An address without its low bits.                                 *)

Masked(a, bits) == (a \div 2 ^ bits) * 2 ^ bits

\* mask of routing.rs; prefix 0 is a case of its own, since a shift by the whole width is
\* no shift.
And_mask(a, prefix) == IF prefix = 0 THEN 0 ELSE Masked(a, Bits - prefix)

And_mask_off_by_one(a, prefix) == IF prefix = 0 THEN 0 ELSE Masked(a, Bits - prefix + 1)

\* prefix_to_mask of wfp.rs
And_prefix_to_mask(a, prefix) == IF prefix = 0 THEN 0 ELSE Masked(a, Bits - prefix)

\* OverlayNetwork::mask has no such case: only prefixes from 1 come here.
And_overlay_mask(a, network) == Masked(a, Bits - network.prefix)

contains(network, a) == And_overlay_mask(a, network) = network.address

overlaps_inner(network, other) == contains(network, other.address)

overlaps(network, other) ==
    contains(network, other.address) \/ contains(other, network.address)

\* Ipv4Cidr::parse drops the host bits; a range without a prefix is an error.
Ipv4Cidr(r) == [network |-> And_mask(r.address, r.prefix), prefix |-> r.prefix]

Parses(r) == r.prefix \in 0 .. Bits

cidr_contains(c, a) == And_mask(a, c.prefix) = c.network

-----------------------------------------------------------------------------
(* The packet core: RoutePolicy.                                            *)

\* RoutePolicy::new
RoutePolicy(mode, protected, excluded) ==
    [mode |-> mode, protected |-> protected, excluded |-> excluded]

\* RoutePolicy::protects
protects(policy, a) ==
    /\ ~\E r \in policy.excluded : cidr_contains(Ipv4Cidr(r), a)
    /\ \/ policy.mode = "full"
       \/ \E r \in policy.protected : cidr_contains(Ipv4Cidr(r), a)

-----------------------------------------------------------------------------
(* SteamOS: DaemonConfig::validate and LinuxRuntimePlan::from_config.       *)

\* validate_overlay_cidr; parse_underlay_exemption asks the same of an exemption.
validate_cidr(r) ==
    /\ r.prefix \in 1 .. Bits
    /\ And_overlay_mask(r.address, r) = r.address

validate_underlay_exemptions(exempt, overlay) ==
    \A k \in DOMAIN exempt :
        /\ validate_cidr(exempt[k])
        /\ ~overlaps(exempt[k], overlay)
        /\ \A j \in 1 .. k - 1 : exempt[j] # exempt[k]

\* Texts are empty, malformed or well formed.
Texts == {"", "malformed", "wellFormed"}

validate_interface_name(name) == name = "wellFormed"

validate_server_entries(entries) == "" \notin entries

\* The servers stand for every field that may not be blank.
validate(c) ==
    /\ validate_interface_name(c.interface)
    /\ validate_server_entries(c.servers)
    /\ validate_cidr(c.overlay)
    /\ contains(c.overlay, c.address)
    /\ validate_underlay_exemptions(c.exempt, c.overlay)

WholeInternet == [address |-> 0, prefix |-> 0]

protected_cidr_for_route_mode(c) == IF c.mode = "full" THEN WholeInternet ELSE c.overlay

\* NftablesOperation: what rules match and do.
Rule(chain, kind, range) == [chain |-> chain, kind |-> kind, range |-> range]

Bypasses(chain, exempt) == [k \in DOMAIN exempt |-> Rule(chain, "bypass", exempt[k])]

\* NftablesPlan::fail_closed_with_exemptions
fail_closed_with_exemptions(c) ==
    Bypasses("route", c.exempt)
        \o <<Rule("route", "mark", protected_cidr_for_route_mode(c))>>
        \o Bypasses("filter", c.exempt)
        \o <<Rule("filter", "drop_outside", protected_cidr_for_route_mode(c))>>

\* NftablesPlan::game_only_fail_closed: nothing is marked before a game is launched.
game_only_fail_closed(c) ==
    Bypasses("route", c.exempt) \o Bypasses("filter", c.exempt)
        \o <<Rule("filter", "drop_unmarked", c.overlay),
             Rule("filter", "drop_outside", c.overlay)>>

\* NftablesPlan::game_process_mark_operations, for the ports of one game.
game_process_mark_operations(c) == <<Rule("route", "mark_game", c.overlay)>>

\* A plan is refused for a full tunnel without exemptions, and for a game on port 0.
PlanExists(c) ==
    /\ validate(c)
    /\ c.mode = "full" => c.exempt # <<>>
    /\ ~c.portZero

Plan(c) == IF c.mode = "game" THEN game_only_fail_closed(c) ELSE fail_closed_with_exemptions(c)

route_mode_for_packet_core(mode) == IF mode = "full" THEN "full" ELSE "prefixes"

packet_core_from_parts(c) ==
    RoutePolicy(route_mode_for_packet_core(c.mode), {protected_cidr_for_route_mode(c)}, {})

-----------------------------------------------------------------------------
(* Windows: validate_configuration, the routes and the WFP filters.         *)

\* effective_mesh_trust_policy
effective_mesh_trust_policy(i) ==
    IF i.mesh = "public" THEN "publicRequired"
    ELSE IF i.mesh = "private" THEN "privatePreferred"
    ELSE i.policy

PublicMesh(i) == i.mesh = "public" \/ effective_mesh_trust_policy(i) = "publicRequired"

\* A public mesh needs verified identities and a complete registry setting.
validate_dytallix_identity_policy(i) ==
    PublicMesh(i) => i.mode # "off" /\ i.registry = "complete"

\* host:port, with a port other than 0.
validate_socket_endpoint(endpoint) == endpoint = "wellFormed"

\* c.values: MTU, rekey limits, addresses and DNS are in range.  The routes are parsed by
\* the packet core alone.
validate_configuration(c) ==
    /\ c.values
    /\ \A endpoint \in c.servers : validate_socket_endpoint(endpoint)
    /\ c.routes # <<>> /\ Len(c.routes) <= MaxRoutes
    /\ \A j, k \in DOMAIN c.routes : c.routes[j] = c.routes[k] => j = k
    /\ \A r \in RangeOf(c.routes) \cup RangeOf(c.excluded) : Parses(r)
    /\ validate_dytallix_identity_policy(c.identity)

\* packet_core_config_json
packet_core_config(c) == RoutePolicy(c.mode, RangeOf(c.routes), RangeOf(c.excluded))

\* A range without a prefix is a single address, to the routes and to the filters.
validate_route(r) == IF r.prefix = NoPrefix THEN [r EXCEPT !.prefix = Bits] ELSE r

parse_v4_cidr(r) == IF r.prefix = NoPrefix THEN [r EXCEPT !.prefix = Bits] ELSE r

\* canonical_v4_cidr
canonical_v4_cidr(r) ==
    LET cidr == parse_v4_cidr(r)
    IN  [address |-> And_prefix_to_mask(cidr.address, cidr.prefix), prefix |-> cidr.prefix]

\* build_filter_plan_for_luid with the adapter up: per canonical route a block, and a
\* permit for the adapter that weighs more.
build_filter_plan(c) ==
    UNION {{[action |-> "block", range |-> canonical_v4_cidr(r)],
            [action |-> "permit", range |-> canonical_v4_cidr(r)]} : r \in RangeOf(c.routes)}

-----------------------------------------------------------------------------
(* What the kernels make of it.                                             *)

\* A destination matches a range when it has the range's network bits.
Matches(r, a) == Masked(a, Bits - r.prefix) = Masked(r.address, Bits - r.prefix)

\* The first rule of the chain that ends it, or changes the mark, decides.
Before(chain, kind, n, p) ==
    \E k \in 1 .. n - 1 :
        rules[k].chain = chain /\ rules[k].kind = kind /\ Matches(rules[k].range, p.to)

\* p.game: UDP of the game, from its cgroup and on one of its ports.
Marked(p) ==
    \E n \in DOMAIN rules :
        /\ \/ rules[n].kind = "mark"
           \/ rules[n].kind = "mark_game" /\ p.game
        /\ Matches(rules[n].range, p.to)
        /\ ~Before("route", "bypass", n, p)

\* ip rule and ip route: the mark selects the table with the tunnel's route.
Outgoing(p) ==
    IF Marked(p) /\ Matches(protected_cidr_for_route_mode(config), p.to)
    THEN "tunnel" ELSE "underlay"

Dropped(p) ==
    \E n \in DOMAIN rules :
        /\ \/ rules[n].kind = "drop_outside" /\ Outgoing(p) # "tunnel"
           \/ rules[n].kind = "drop_unmarked" /\ ~Marked(p)
        /\ Matches(rules[n].range, p.to)
        /\ ~Before("filter", "bypass", n, p)

Fate(p) == IF Dropped(p) THEN "dropped" ELSE Outgoing(p)

Packets == [to : Addresses, game : BOOLEAN]

\* add_route: one route of the adapter per protected route, host bits and all.
Routed(a) == \E r \in RangeOf(config.routes) : Matches(validate_route(r), a)

\* The permit decides for the adapter, the block for every other interface.
Permitted(a, interface) ==
    \/ ~\E f \in build_filter_plan(config) : f.action = "block" /\ Matches(f.range, a)
    \/ /\ interface = "tunnel"
       /\ \E f \in build_filter_plan(config) : f.action = "permit" /\ Matches(f.range, a)

-----------------------------------------------------------------------------
TrafficInit == config = NoConfig /\ rules = <<>> /\ todo = <<>>

\* A file without a plan is refused, and nothing is installed.
LoadSteam(c) ==
    /\ PlanExists(c)
    /\ config' = c
    /\ todo' = Plan(c)
    /\ UNCHANGED rules

AddRule ==
    /\ todo # <<>>
    /\ rules' = Append(rules, Head(todo))
    /\ todo' = Tail(todo)
    /\ UNCHANGED config

Launched == \E n \in DOMAIN rules : rules[n].kind = "mark_game"

\* begin_game_classification, and the rules going away with the game.
LaunchGame ==
    /\ config.host = "steam" /\ config.mode = "game" /\ todo = <<>> /\ ~Launched
    /\ rules' = rules \o game_process_mark_operations(config)
    /\ UNCHANGED <<config, todo>>

EndGame ==
    /\ Launched
    /\ rules' = SelectSeq(rules, LAMBDA r : r.kind # "mark_game")
    /\ UNCHANGED <<config, todo>>

\* load_for_connect and the activation that follows.
LoadWindows(c) ==
    /\ validate_configuration(c)
    /\ config' = c
    /\ UNCHANGED <<rules, todo>>

\* DaemonConfig and TunnelConfiguration, as far as traffic depends on them.
SteamFiles ==
    LET ranges == {r \in Ranges : r.prefix # NoPrefix}
    IN  [host : {"steam"}, overlay : ranges, address : Addresses,
         mode : {"game", "prefixes", "full"}, exempt : SeqsUpTo(ranges, MaxExempt),
         interface : Texts, servers : {{}, {""}}, portZero : BOOLEAN]

WindowsFiles ==
    [host : {"windows"}, routes : SeqsUpTo(Ranges, MaxRoutes), excluded : SeqsUpTo(Ranges, 1),
     mode : {"split", "full"}, identity : Identities, servers : {{}, {"malformed"}},
     values : BOOLEAN]

TrafficNext ==
    \/ config = NoConfig /\ \E c \in SteamFiles : LoadSteam(c)
    \/ AddRule
    \/ LaunchGame
    \/ EndGame
    \/ config = NoConfig /\ \E c \in WindowsFiles : LoadWindows(c)

TrafficSpec == TrafficInit /\ [][TrafficNext]_trafficVars

-----------------------------------------------------------------------------
(* Properties                                                               *)

Exempt(a) == \E k \in DOMAIN config.exempt : Matches(config.exempt[k], a)

\* A destination that underlayExemptions lists goes out on the underlay from the first
\* rule of the activation on, in every mode: the rules that return it come before the
\* ones that mark and drop (NftablesPlan::fail_closed_with_exemptions), so the tunnel's
\* own traffic is never caught half way.
ExemptStaysOutside ==
    config.host = "steam" =>
        \A p \in Packets : Exempt(p.to) => Fate(p) = "underlay"

\* Once the plan is in place, traffic for the overlay network goes to the tunnel or
\* nowhere, whatever exemptions validate accepted; only a launched game gets there in
\* game mode.  Other traffic is tunnelled exactly in full-tunnel mode.  The packet core
\* accepts all that arrives.
PlanSteersTraffic ==
    (config.host = "steam" /\ todo = <<>>) =>
        \A p \in Packets :
            LET inOverlay == Matches(config.overlay, p.to)
            IN  /\ inOverlay =>
                     Fate(p) = IF config.mode = "game" /\ ~(Launched /\ p.game)
                               THEN "dropped" ELSE "tunnel"
                /\ (~inOverlay /\ ~Exempt(p.to)) =>
                     Fate(p) = IF config.mode = "full" THEN "tunnel" ELSE "underlay"
                /\ Fate(p) = "tunnel" =>
                     protects(packet_core_from_parts(config), p.to)

\* On Windows the routes, the filters and the packet core mean the same destinations:
\* what is routed to the adapter may leave through it and no other interface, what is not
\* routed is left alone, and the core drops none of it but what excludedRoutes names.
RoutesFiltersAndCoreAgree ==
    config.host = "windows" =>
        \A a \in Addresses :
            /\ Permitted(a, "tunnel")
            /\ Routed(a) = ~Permitted(a, "underlay")
            /\ (Routed(a) /\ ~\E r \in RangeOf(config.excluded) : Matches(r, a)) =>
                 protects(packet_core_config(config), a)

\* The Steam rule set steers every packet as configured: exempt destinations during and
\* after the activation, all others once it is complete.
SteamTrafficIsSteered == ExemptStaysOutside /\ PlanSteersTraffic

=============================================================================
