------------------------------ MODULE MCLinks -------------------------------
(***************************************************************************)
(* How packets travel: a carrier session, the sessions of a datagram       *)
(* listener, the race of the probes, a TURN allocation, and the rules by   *)
(* which a Steam and a Windows host steer traffic into the tunnel, and     *)
(* what qlinkd reports of all that, each on a small instance of its own.   *)
(* They share no state; a behaviour is of one of them, which part names.   *)
(***************************************************************************)
EXTENDS Naturals

CONSTANTS NoPeer

VARIABLES
    part,   \* the component this behaviour is about
    x1, x2, x3, x4, x5, x6, x7, x8, x9, x10, x11, x12, x13, x14

\* Datagrams of three units, fragments of two, messages of one and of two datagrams.
MCLengths == {1, 4}

\* Hosts at the candidates' addresses: the peer's, one of somebody else at a stale
\* address, and the peer again through its NAT; the last address does not parse.
Host(holder, valid) == [holder |-> holder, valid |-> valid]
MCCandidates ==
    <<Host("peer", TRUE), Host("other", TRUE), Host("peer", TRUE), Host("nobody", FALSE)>>

\* Two ports of the permitted host and one of another.
MCPeers == {"a1", "a2", "b1"}
MCIpOf == [p \in MCPeers |-> IF p = "b1" THEN "b" ELSE "a"]

\* Identity settings of each kind: accepted and refused, public and not.
MCIdentities ==
    {[mesh |-> "public", policy |-> "developmentOptional", mode |-> "verified", registry |-> "complete"],
     [mesh |-> "public", policy |-> "developmentOptional", mode |-> "off", registry |-> "complete"],
     [mesh |-> "development", policy |-> "publicRequired", mode |-> "verified", registry |-> "partial"],
     [mesh |-> "private", policy |-> "publicRequired", mode |-> "off", registry |-> "none"]}

\* The status: a record that lives for one second and a clock of two; one way for the
\* node's own enrolment to fail, and one for the peer's trust.
MCBindingFailures == {"Unavailable"}
MCTrustFailures == {<<"Revoked", "Degraded">>}

\* A host that has everything, and those that lack one thing.
Complete == [cgroup |-> TRUE, tun |-> "device", systemd |-> TRUE, nft |-> "works",
             policykit |-> TRUE, sessions |-> TRUE]
MCHosts ==
    {Complete} \cup {[Complete EXCEPT ![f] = FALSE] :
                         f \in {"cgroup", "systemd", "policykit", "sessions"}}
               \cup {[Complete EXCEPT !.tun = t] : t \in {"file", "missing"}}
               \cup {[Complete EXCEPT !.nft = n] : n \in {"refused", "fails", "leaves table"}}

Carrier == INSTANCE CarrierSession WITH
    WholeMax <- 3, FragmentMax <- 2, MessageMax <- 4, WantedAuthMax <- 3,
    ParkedAuthMax <- 4, MaxReassembly <- 2, MaxCompleted <- 1, MaxPending <- 1,
    Lengths <- MCLengths, MaxSent <- 3, MaxReceived <- 5, sent <- x1, nextId <- x2,
    closed <- x3, received <- x4, rpc <- x5, pending <- x6, reassembly <- x7,
    completed <- x8, assembled <- x9, completions <- x10

Direct == INSTANCE DirectSession WITH
    MaxAttempts <- 2, MaxGeneration <- 2, MaxSessions <- 1, QueueDepth <- 1,
    AcceptDepth <- 1, MaxParked <- 1, MaxFrames <- 1, ipc <- x1, linkedTo <- x2,
    sentFrames <- x3, wire <- x4, answers <- x5, entry <- x6, addr <- x7,
    queue <- x8, accepts <- x9, rpc <- x10, seen <- x11, parked <- x12,
    surfaced <- x13, cut <- x14

Race == INSTANCE ProbeRace WITH
    Candidates <- MCCandidates, Owner <- "peer", Nobody <- "nobody",
    ProbeTimeout <- 2, IceTimeout <- 1, Deadline <- 3, Pacing <- 1, ice <- x1,
    record <- x2, store <- x3, probe <- x4, reply <- x5, session <- x6, race <- x7,
    winner <- x8, cached <- x9, elapsed <- x10

Turn == INSTANCE TurnRelay WITH
    Peers <- MCPeers, IpOf <- MCIpOf, Permitted <- "a", HasPassword <- TRUE,
    NonceLife <- 9, MaxPeriods <- 3, MaxFaults <- 1, MaxSends <- 2, client <- x1,
    refreshing <- x2, kind <- x3, server <- x4, toServer <- x5, toClient <- x6,
    relayed <- x7, now <- x8, faults <- x9, starved <- x10

Traffic == INSTANCE TrafficPlan WITH
    Bits <- 2, MaxExempt <- 2, MaxRoutes <- 2, Identities <- MCIdentities,
    config <- x1, rules <- x2, todo <- x3

Status == INSTANCE SteamStatus WITH
    TTL <- 1, BindingFailures <- MCBindingFailures,
    TrustFailures <- MCTrustFailures, Hosts <- MCHosts, MaxTime <- 2, now <- x1,
    required <- x2, loop <- x3, network <- x4, owned <- x5, transport <- x6,
    snap <- x7, reported <- x8, plane <- x9

ASSUME Carrier!CarrierAssumption
ASSUME Direct!DirectAssumption
ASSUME Turn!TurnAssumption

mcVars == <<part, x1, x2, x3, x4, x5, x6, x7, x8, x9, x10, x11, x12, x13, x14>>

-----------------------------------------------------------------------------
\* The variables that a component does not use.
Unused3 == <<x4, x5, x6, x7, x8, x9, x10, x11, x12, x13, x14>>
Unused9 == <<x10, x11, x12, x13, x14>>
Unused10 == <<x11, x12, x13, x14>>

MCInit ==
    \/ part = "carrier" /\ Carrier!Init /\ x11 = 0 /\ x12 = 0 /\ x13 = 0 /\ x14 = 0
    \/ part = "direct" /\ Direct!Init
    \/ part = "race" /\ Race!RaceInit /\ x11 = 0 /\ x12 = 0 /\ x13 = 0 /\ x14 = 0
    \/ part = "turn" /\ Turn!TurnInit /\ x11 = 0 /\ x12 = 0 /\ x13 = 0 /\ x14 = 0
    \/ part = "traffic" /\ Traffic!TrafficInit /\ x4 = 0 /\ x5 = 0 /\ x6 = 0
       /\ x7 = 0 /\ x8 = 0 /\ x9 = 0 /\ x10 = 0 /\ x11 = 0 /\ x12 = 0 /\ x13 = 0
       /\ x14 = 0
    \/ part = "status" /\ Status!StatusInit /\ x10 = 0 /\ x11 = 0 /\ x12 = 0
       /\ x13 = 0 /\ x14 = 0

MCNext ==
    \/ part = "carrier" /\ Carrier!Next /\ UNCHANGED <<part, Unused10>>
    \/ part = "direct" /\ Direct!Next /\ UNCHANGED part
    \/ part = "race" /\ Race!RaceNext /\ UNCHANGED <<part, Unused10>>
    \/ part = "turn" /\ Turn!TurnNext /\ UNCHANGED <<part, Unused10>>
    \/ part = "traffic" /\ Traffic!TrafficNext /\ UNCHANGED <<part, Unused3>>
    \/ part = "status" /\ Status!StatusNext /\ UNCHANGED <<part, Unused9>>

MCSpec == MCInit /\ [][MCNext]_mcVars

-----------------------------------------------------------------------------
\* A carrier session delivers what was sent, once as long as it remembers it.
ReassemblyIsFaithful == part = "carrier" => Carrier!ReassemblyIsFaithful

\* No receive_message sleeps on a message that is parked for it.
NoReceiverSleepsOnParked == part = "carrier" => Carrier!NoReceiverSleepsOnParked

\* Initiator, session task and dispatcher of the listener agree on every session.
SessionsAgree == part = "direct" => Direct!SessionsAgree

\* A connect leaves the winner's session open and no other.
LosersAreClosed == part = "race" => Race!LosersAreClosed

\* A resident relay socket is served for as long as its refreshes get through.
ResidentIsServed == part = "turn" => Turn!ResidentIsServed

\* The Steam rule set steers every packet as configured.
SteamTrafficIsSteered == part = "traffic" => Traffic!SteamTrafficIsSteered

\* doctor, checklist and launcher judge every status alike.
VerdictsAgree == part = "status" => Status!VerdictsAgree

\* On Windows the routes, the filters and the packet core mean the same destinations.
RoutesFiltersAndCoreAgree == part = "traffic" => Traffic!RoutesFiltersAndCoreAgree
=============================================================================
