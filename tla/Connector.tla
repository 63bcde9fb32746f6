----------------------------- MODULE Connector ------------------------------
(***************************************************************************)
(* The connector of qlink-core (src/mesh_connection.rs) towards one peer:  *)
(* finding the peer's record, deciding on its trust, gathering and         *)
(* ordering candidates, probing them in turn over native UDP, falling back *)
(* to the relays; beside it the caches that other tasks write, the trust   *)
(* revalidation, and the responder's decision on an inbound session.       *)
(*                                                                         *)
(* clock is in the unit of record lifetimes; elapsed is the time of the    *)
(* running connect, in the unit of its timeouts.  Both start where a test  *)
(* of the code would start them and are bounded.                           *)
(***************************************************************************)
EXTENDS TrustPolicy, Sequences, SequencesExt

CONSTANTS
    Policies,               \* the MeshTrustPolicy values looked at
    Mesh, Acl, Peer,        \* the configured mesh and access list; the peer's key
    SignedRecords,          \* the records that the rendezvous may hand out
    RegistryRecords,        \* the records that the registry may hold
    Observations,           \* what mDNS may announce: an address and a fingerprint
    Assertions,             \* the inbound assertions that may arrive
    RelayServer,            \* the configured relay, or None
    HostPriority,           \* HOST_PRIORITY, the priority of an observed address
    ProbeTimeout, Deadline, Pacing,     \* of one probe, of the connect, between probes
    ObservationTtl, AssertionMaxAge,    \* in units of clock
    MaxClock                            \* bound on clock

VARIABLES
    policy, version,    \* MeshTrustPolicy and binding version, fixed at start
    clock, elapsed,
    rendezvous,         \* the record that the rendezvous holds, or None
    registry,           \* the record that the registry holds, or None
    peerStore,          \* the PeerStore's record of the peer, or None
    lastGood,           \* LastGoodCache's address of the peer, or None
    mdns,               \* MdnsObservationCache's entries of the peer
    task,               \* the running connect
    inbound             \* the inbound session being decided, or None

connectorVars == <<policy, version, clock, elapsed, rendezvous, registry, peerStore,
                   lastGood, mdns, task, inbound>>

NoTask == [at |-> "idle", rec |-> None, reg |-> None, decided |-> 0,
           seen |-> {}, todo |-> <<>>, endpoints |-> <<>>]

\* A connector without a peer to call, and one without a responder: the two
\* only read the registry and the clock in common.
OffTask == [NoTask EXCEPT !.at = "off"]

OffInbound == [at |-> "off"]

ConnectorInit ==
    /\ policy \in Policies
    /\ version \in {1, 2}
    /\ clock = 1
    /\ elapsed = 0
    /\ rendezvous = None
    /\ registry = None
    /\ peerStore = None
    /\ lastGood = None
    /\ mdns = {}
    /\ \/ task = NoTask /\ inbound = OffInbound
       \/ task = OffTask /\ inbound = None

-----------------------------------------------------------------------------
(* Candidates.                                                             *)

CandidateRank(c) ==
    CASE c.type = "host" -> 0 [] c.type = "srflx" -> 1
      [] c.type = "relay" -> 2 [] c.type = "qlink_relay" -> 3

PathKind(c) == IF c.type \in {"host", "srflx"} THEN "direct" ELSE "relay"

\* A stable sort by rank, then by falling priority.
Before(s, i, j) ==
    \/ CandidateRank(s[i]) < CandidateRank(s[j])
    \/ /\ CandidateRank(s[i]) = CandidateRank(s[j])
       /\ s[i].priority > s[j].priority \/ (s[i].priority = s[j].priority /\ i < j)

\* The last good address goes first, if it is still a candidate.
CachedAlwaysFirst(endpoints, cached) ==
    LET direct == SelectSeq(endpoints, LAMBDA c : c.type # "qlink_relay")
    IN  IF cached = None THEN direct
        ELSE <<[type |-> "host", addr |-> cached, priority |-> HostPriority]>> \o direct

OrderDirectCandidates(endpoints, cached) ==
    LET direct == SelectSeq(endpoints, LAMBDA c : c.type # "qlink_relay")
        order == SetToSortSeq(DOMAIN direct, LAMBDA i, j : Before(direct, i, j))
        sorted == [i \in DOMAIN direct |-> direct[order[i]]]
        hits == {i \in DOMAIN sorted : sorted[i].addr = cached}
        hit == CHOOSE i \in hits : \A j \in hits : i <= j
    IN  IF hits = {} THEN sorted ELSE <<sorted[hit]>> \o RemoveAt(sorted, hit)

\* What observations_for leaves in the cache, and hands out.
FreshObservations(now) == {o \in mdns : now - o.at <= ObservationTtl}

\* The signed endpoints, and the observed addresses that are not among them.
AllEndpoints(rec, now) ==
    LET listed == {rec.endpoints[i].addr : i \in DOMAIN rec.endpoints}
        seen == {o.addr : o \in {o \in FreshObservations(now) : o.key = rec.key}}
    IN  rec.endpoints \o
        SetToSeq({[type |-> "host", addr |-> a, priority |-> HostPriority] :
                    a \in seen \ listed})

RelayServerCandidates(endpoints) ==
    LET published == {endpoints[i].addr : i \in
                        {i \in DOMAIN endpoints : endpoints[i].type = "qlink_relay"}}
    IN  (IF RelayServer = None THEN <<>> ELSE <<RelayServer>>)
        \o SetToSeq(published \ {RelayServer})

RemainingProbeBudget(spent) ==
    IF Deadline - spent < ProbeTimeout THEN SaturatingSub(Deadline, spent) ELSE ProbeTimeout

-----------------------------------------------------------------------------
(* connect, from one await to the next.                                    *)

\* connect, or reconnect, which first drops the cached path.  The access list
\* is asked before anything reaches the network.
Connect(again) ==
    /\ task = NoTask
    /\ EvaluateAcl(Acl, Peer)
    /\ lastGood' = IF again THEN None ELSE lastGood
    /\ task' = [NoTask EXCEPT !.at = "lookup"]
    /\ elapsed' = 0
    /\ UNCHANGED <<policy, version, clock, rendezvous, registry, peerStore, mdns, inbound>>

\* PeerStore::store: expired entries go, a lower or equal sequence is ignored.
Stored(rec) ==
    IF peerStore # None /\ peerStore.expires > clock /\ rec.seq <= peerStore.seq
    THEN peerStore ELSE rec

\* The rendezvous answers, says it knows no such peer, or fails (answered);
\* the record used is the fresh one or the stored one.
Fetched(answered, rec) ==
    IF answered /\ rendezvous # None
    THEN /\ rec = rendezvous
         /\ peerStore' = IF VerifyRecord(rec, Mesh, clock) THEN Stored(rec) ELSE peerStore
    ELSE rec = peerStore /\ UNCHANGED peerStore

Lookup ==
    /\ task.at = "lookup"
    /\ \E answered \in BOOLEAN, rec \in SignedRecords \cup {None} :
        /\ Fetched(answered, rec)
        /\ task' = IF rec # None /\ VerifyRecord(rec, Mesh, clock)
                   THEN [task EXCEPT !.at = "registry", !.rec = rec] ELSE NoTask
    /\ UNCHANGED <<policy, version, clock, elapsed, rendezvous, registry, lastGood, mdns, inbound>>

\* A failing lookup ends a public connect and counts as no record elsewhere.
LookupResults == {registry} \cup (IF policy = "public" THEN {} ELSE {None})

DecideTrust ==
    /\ task.at = "registry"
    /\ \/ /\ policy = "public"
          /\ task' = NoTask
          /\ UNCHANGED mdns
       \/ \E reg \in LookupResults :
            IF VerifyLookupBinding(task.rec, reg, version, policy, clock) = "error"
            THEN task' = NoTask /\ UNCHANGED mdns
            ELSE LET endpoints == AllEndpoints(task.rec, clock) IN
                 /\ mdns' = FreshObservations(clock)
                 /\ task' = [task EXCEPT !.at = "probing", !.reg = reg, !.decided = clock,
                                !.endpoints = endpoints, !.seen = mdns,
                                !.todo = OrderDirectCandidates(endpoints, lastGood)]
    /\ UNCHANGED <<policy, version, clock, elapsed, rendezvous, registry, peerStore,
                   lastGood, inbound>>

\* The pacing sleep before every probe but the first.
Paced ==
    IF Len(task.todo) = Len(OrderDirectCandidates(task.endpoints, None))
    THEN elapsed ELSE elapsed + Pacing

\* One probe: it takes d and succeeds, fails, or runs into its budget.
Probe(d, established) ==
    /\ task.at = "probing" /\ task.todo # <<>>
    /\ Paced < Deadline
    /\ d \in 0..RemainingProbeBudget(Paced)
    /\ elapsed' = IF established THEN 0 ELSE Paced + d
    /\ lastGood' = IF established THEN Head(task.todo).addr ELSE lastGood
    /\ task' = IF established THEN NoTask ELSE [task EXCEPT !.todo = Tail(@)]
    /\ UNCHANGED <<policy, version, clock, rendezvous, registry, peerStore, mdns, inbound>>

\* No candidate is left, or no time: the cached path goes, and the relays are
\* next; without one the connect fails.
Exhausted ==
    /\ task.at = "probing"
    /\ task.todo = <<>> \/ Paced >= Deadline
    /\ lastGood' = IF OrderDirectCandidates(task.endpoints, None) = <<>>
                   THEN lastGood ELSE None
    /\ LET servers == RelayServerCandidates(task.endpoints) IN
       IF servers = <<>>
       THEN task' = NoTask /\ elapsed' = 0
       ELSE /\ task' = [task EXCEPT !.at = "relay", !.todo = servers]
            /\ elapsed' = IF task.todo = <<>> THEN elapsed ELSE Paced
    /\ UNCHANGED <<policy, version, clock, rendezvous, registry, peerStore, mdns, inbound>>

\* One relay: every one has the whole deadline, and needs the peer's published
\* certificate.
ConnectViaRelay(d, established) ==
    /\ task.at = "relay"
    /\ d \in 0..Deadline
    /\ established => task.rec.cert
    /\ IF established \/ Len(task.todo) = 1
       THEN task' = NoTask /\ elapsed' = 0
       ELSE task' = [task EXCEPT !.todo = Tail(@)] /\ elapsed' = elapsed + d
    /\ UNCHANGED <<policy, version, clock, rendezvous, registry, peerStore, lastGood, mdns,
                   inbound>>

-----------------------------------------------------------------------------
(* The other tasks.                                                        *)

\* PathChanged and PostWake; the other events leave the caches alone.
HandleNetworkEvent ==
    /\ lastGood # None
    /\ lastGood' = None
    /\ UNCHANGED <<policy, version, clock, elapsed, rendezvous, registry, peerStore, mdns,
                   task, inbound>>

\* An observation replaces one of the same address.
RecordMdnsObservation(o) ==
    LET entry == [addr |-> o.addr, key |-> o.key, at |-> clock] IN
    /\ entry \notin mdns
    /\ mdns' = {e \in mdns : e.addr # o.addr} \cup {entry}
    /\ UNCHANGED <<policy, version, clock, elapsed, rendezvous, registry, peerStore,
                   lastGood, task, inbound>>

\* revalidate_peer_trust: the record is fetched, verified and stored; the
\* registry's answer decides for the caller and changes nothing here.
RevalidatePeerTrust ==
    /\ EvaluateAcl(Acl, Peer)
    /\ \E answered \in BOOLEAN, rec \in SignedRecords \cup {None} : Fetched(answered, rec)
    /\ peerStore' # peerStore
    /\ UNCHANGED <<policy, version, clock, elapsed, rendezvous, registry, lastGood, mdns,
                   task, inbound>>

\* The responder: the assertion, then the registry, then the session.
ReceiveInbound(a) ==
    /\ inbound = None
    /\ EvaluateInbound(a, Mesh, AssertionMaxAge, Acl, clock)
    /\ inbound' = [at |-> "registry", assertion |-> a, reg |-> None, decided |-> clock]
    /\ UNCHANGED <<policy, version, clock, elapsed, rendezvous, registry, peerStore,
                   lastGood, mdns, task>>

DecideInbound ==
    /\ inbound # None /\ inbound.at = "registry"
    /\ \/ policy = "public" /\ inbound' = None
       \/ \E reg \in LookupResults :
            inbound' =
                IF VerifyInboundLookupBinding(inbound.assertion, reg, version, policy, Mesh,
                                              AssertionMaxAge, clock) = "error"
                THEN None
                ELSE [inbound EXCEPT !.at = "session", !.reg = reg, !.decided = clock]
    /\ UNCHANGED <<policy, version, clock, elapsed, rendezvous, registry, peerStore,
                   lastGood, mdns, task>>

InboundCloses ==
    /\ inbound # None /\ inbound.at = "session"
    /\ inbound' = None
    /\ UNCHANGED <<policy, version, clock, elapsed, rendezvous, registry, peerStore,
                   lastGood, mdns, task>>

\* The peer publishes, the owner writes to the registry, time passes.
World ==
    /\ \/ rendezvous' \in SignedRecords \ {rendezvous} /\ UNCHANGED <<registry, clock>>
       \/ /\ registry' \in {r \in RegistryRecords : r.version = version} \ {registry}
          /\ UNCHANGED <<rendezvous, clock>>
       \/ clock < MaxClock /\ clock' = clock + 1 /\ UNCHANGED <<rendezvous, registry>>
    /\ UNCHANGED <<policy, version, elapsed, peerStore, lastGood, mdns, task, inbound>>

ConnectorNext ==
    \/ \E again \in BOOLEAN : Connect(again)
    \/ Lookup
    \/ DecideTrust
    \/ \E d \in 0..ProbeTimeout, established \in BOOLEAN : Probe(d, established)
    \/ Exhausted
    \/ \E d \in {0, Deadline}, established \in BOOLEAN : ConnectViaRelay(d, established)
    \/ HandleNetworkEvent
    \/ \E o \in Observations : RecordMdnsObservation(o)
    \/ RevalidatePeerTrust
    \/ \E a \in Assertions : ReceiveInbound(a)
    \/ DecideInbound
    \/ InboundCloses
    \/ World

ConnectorSpec == ConnectorInit /\ [][ConnectorNext]_connectorVars

-----------------------------------------------------------------------------
(* Properties.                                                             *)

\* What a registry record vouches for, stated apart from the code's checks.
Vouches(reg, key, now) ==
    reg.key = key /\ reg.status = "active" /\ (reg.expires # None => now < reg.expires)

\* Nobody is dialled and no inbound session is served against what the registry
\* said: a record that was read vouches for the peer's key under every trust
\* policy, and a public mesh has read one, also when the registry fails or the
\* record comes from the peer store (verify_registry_lookup_binding,
\* verify_inbound_registry_lookup_binding).  The peer's own record is then
\* still unexpired; without a registry record it was so before the lookup only,
\* for version 2 excuses a record that expired while the lookup was failing.
TrustedIsVouched ==
    /\ task.at \in {"probing", "relay"} =>
        /\ task.rec.signed /\ task.rec.mesh = Mesh
        /\ task.reg # None => /\ Vouches(task.reg, task.rec.key, task.decided)
                              /\ task.decided < task.rec.expires
        /\ policy = "public" => task.reg # None
    /\ inbound # None /\ inbound.at = "session" =>
        /\ inbound.reg # None => Vouches(inbound.reg, inbound.assertion.key, inbound.decided)
        /\ policy = "public" => inbound.reg # None

\* Only vouched addresses are dialled: every candidate is an endpoint of the
\* verified record, or was announced over mDNS under that record's key within
\* the lifetime of an observation.  A last good address from before, kept by a
\* connect that overlapped the event that cleared the cache, can only reorder
\* candidates, never add one (order_direct_candidates, observations_for).
OnlyVouchedAddressesDialed ==
    task.at = "probing" =>
        \A i \in DOMAIN task.todo :
            \/ task.todo[i] \in {task.rec.endpoints[j] : j \in DOMAIN task.rec.endpoints}
            \/ \E o \in task.seen :
                /\ o.addr = task.todo[i].addr
                /\ o.key = task.rec.key
                /\ task.decided - o.at <= ObservationTtl

=============================================================================
