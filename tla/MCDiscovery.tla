---------------------------- MODULE MCDiscovery -----------------------------
(***************************************************************************)
(* How nodes find each other: the publication worker of a Steam node, the  *)
(* publish-self loop of qlinkctl, and the connector that resolves, vets    *)
(* and dials a peer. They meet only in the records a rendezvous hands out, *)
(* which the connector takes in every state they can have; so each is      *)
(* explored by itself, and part names the one a behaviour is about.        *)
(***************************************************************************)
EXTENDS Publication

CONSTANTS k1, k2, m1, m2, a1, a2, s1, r0, None

VARIABLES
    part,   \* the component this behaviour is about
    x1, x2, x3, x4, x5, x6, x7, x8, x9, x10, x11

-----------------------------------------------------------------------------
(* The connector: one peer with four records, of which one is of another    *)
(* mesh and one does not verify.                                            *)

MCPolicies == {"public", "private"}
MCAcl == [allow |-> {k1}, deny |-> {}]

Candidate(type, addr, priority) == [type |-> type, addr |-> addr, priority |-> priority]

PeerRecordOf(seq, mesh, expires, endpoints, cert, signed) ==
    [seq |-> seq, key |-> k1, mesh |-> mesh, issued |-> 1, expires |-> expires,
     endpoints |-> endpoints, cert |-> cert, signed |-> signed]

MCRecords ==
    {PeerRecordOf(1, m1, 2, <<Candidate("srflx", a2, 1), Candidate("host", a1, 2)>>, TRUE, TRUE),
     PeerRecordOf(2, m1, 3, <<Candidate("relay", a2, 1), Candidate("qlink_relay", s1, 1)>>,
                  FALSE, TRUE),
     PeerRecordOf(3, m2, 3, <<>>, TRUE, TRUE),
     PeerRecordOf(3, m1, 3, <<>>, TRUE, FALSE)}

RegistryRecordOf(v, status, expires, key, record, scope) ==
    [version |-> v, status |-> status, expires |-> expires, key |-> key,
     record |-> record, scope |-> scope, maxTtl |-> 2]

MCRegistry ==
    {RegistryRecordOf(1, "active", None, k1, 1, None),
     RegistryRecordOf(1, "active", 2, k1, 2, None),
     RegistryRecordOf(1, "revoked", None, k1, 1, None),
     RegistryRecordOf(2, "active", None, k1, 0, m1),
     RegistryRecordOf(2, "active", 2, k1, 0, None),
     RegistryRecordOf(2, "suspended", None, k1, 0, None),
     RegistryRecordOf(2, "active", None, k2, 0, None)}

MCObservations == {[addr |-> a1, key |-> k1], [addr |-> a1, key |-> k2]}

MCAssertions ==
    {[key |-> k1, mesh |-> m1, at |-> 1, signed |-> TRUE],
     [key |-> k1, mesh |-> m1, at |-> 3, signed |-> TRUE]}

(* publish-self: two STUN servers, which may report the host's own address, *)
(* and a TURN server.                                                       *)
MCStunServers == <<"s1", "s2">>
MCTurnServers == <<"t1">>
MCMapped == {"m"}
MCRelayed == {"r"}

Connect == INSTANCE Connector WITH
    Policies <- MCPolicies, Mesh <- m1, Peer <- k1, Acl <- MCAcl,
    SignedRecords <- MCRecords, RegistryRecords <- MCRegistry,
    Observations <- MCObservations, Assertions <- MCAssertions, RelayServer <- r0,
    HostPriority <- 2, ProbeTimeout <- 2, Deadline <- 3, Pacing <- 1,
    ObservationTtl <- 1, AssertionMaxAge <- 1, MaxClock <- 3, policy <- x1,
    version <- x2, clock <- x3, elapsed <- x4, rendezvous <- x5, registry <- x6,
    peerStore <- x7, lastGood <- x8, mdns <- x9, task <- x10, inbound <- x11

Self == INSTANCE SelfPublisher WITH
    StunServers <- MCStunServers, TurnServers <- MCTurnServers, Host <- "h",
    Mapped <- MCMapped, Relayed <- MCRelayed, QlinkRelay <- "q", Ttl <- 8,
    StunTimeout <- 1, TurnTimeout <- 1, MaxNow <- 20, run <- x1, gathered <- x2,
    failed <- x3, published <- x4, held <- x5, now <- x6

mcVars == <<part, x1, x2, x3, x4, x5, x6, x7, x8, x9, x10, x11, vars>>

-----------------------------------------------------------------------------
\* The variables that a component does not use.
Unused6 == <<x7, x8, x9, x10, x11>>

MCInit ==
    \/ part = "publication" /\ Init /\ x1 = 0 /\ x2 = 0 /\ x3 = 0 /\ x4 = 0 /\ x5 = 0 /\ x6 = 0 /\ x7 = 0 /\ x8 = 0 /\ x9 = 0 /\ x10 = 0 /\ x11 = 0
    \/ part = "connector" /\ Connect!ConnectorInit /\ Init /\ ~faults
    \/ part = "self" /\ Self!PublisherInit /\ x7 = 0 /\ x8 = 0 /\ x9 = 0 /\ x10 = 0
       /\ x11 = 0 /\ Init /\ ~faults

MCNext ==
    \/ part = "publication" /\ Next /\ UNCHANGED <<part, x1, x2, x3, x4, x5, x6, x7, x8, x9, x10, x11>>
    \/ part = "connector" /\ Connect!ConnectorNext /\ UNCHANGED <<part, vars>>
    \/ part = "self" /\ Self!PublisherNext /\ UNCHANGED <<part, Unused6, vars>>

MCSpec == MCInit /\ [][MCNext]_mcVars

-----------------------------------------------------------------------------
\* The connector takes nobody for trusted whom the registry does not vouch for.
TrustedIsVouched == part = "connector" => Connect!TrustedIsVouched

\* The connector dials no address but those of the verified record and those
\* announced lately under its key.
OnlyVouchedAddressesDialed == part = "connector" => Connect!OnlyVouchedAddressesDialed

\* The record of a node that runs publish-self does not lapse between two rounds.
NoLapseWhileRunning == part = "self" => Self!NoLapseWhileRunning
=============================================================================
