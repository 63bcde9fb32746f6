------------------------------ MODULE TurnRelay ------------------------------
(***************************************************************************)
(* A client of a TURN server (src/qlink-core/src/turn.rs): Allocate with   *)
(* the 401 challenge, CreatePermission, the resident allocation with its   *)
(* refresh task, and the relay socket that wraps datagrams in Send and     *)
(* Data indications.  The server is the development server of the same     *)
(* file ("dev") or coturn as deploy's template sets it up ("coturn").      *)
(* The network may lose, repeat, reorder or cut a datagram.                *)
(*                                                                         *)
(* Time is counted in refresh periods: the refresh interval is             *)
(* (lifetime / 2).clamp(30, 300) = 300 s for the 600 s lifetime in use, so *)
(* an allocation lives two periods, a permission (300 s) one, and a nonce  *)
(* NonceLife periods (stale-nonce=600 is two).                             *)
(***************************************************************************)
EXTENDS Naturals, FiniteSets

CONSTANTS Peers,        \* transport addresses of possible remote peers
          IpOf,         \* IpOf[p]: the IP of a peer's address
          Permitted,    \* permitted_peer_ip of allocate_resident
          HasPassword,  \* are credentials configured on the client
          NonceLife,    \* how long the server honours a nonce, in periods
          MaxPeriods,   \* bound: how long the model runs
          MaxFaults,    \* bound: faults of the network
          MaxSends,     \* bound: datagrams in flight for one side
          NoPeer        \* the relay socket has not heard anyone yet

TurnAssumption ==
    /\ NonceLife \in Nat /\ MaxPeriods \in Nat \ {0}
    /\ \E p \in Peers : IpOf[p] = Permitted
    /\ NoPeer \notin Peers

VARIABLES client,    \* [phase, tx, auth, peer, sent]: the TurnClient
          refreshing,\* is the refresh task running
          kind,      \* which server answers: "dev" or "coturn"
          server,    \* [alloc, perms, issued]: what the server holds
          toServer, toClient, \* datagrams in flight
          relayed,   \* peers a Send indication was relayed to
          now,       \* the current refresh period
          faults,    \* faults so far
          starved    \* a refresh was lost, so a lapse has an excuse

turnVars == <<client, refreshing, kind, server, toServer, toClient, relayed,
              now, faults, starved>>

Ips == {IpOf[p] : p \in Peers}
NoNonce == MaxPeriods + 10
Forever == MaxPeriods + 5
Calling == {"allocating", "retrying", "permitting"}

Message(type, tx, nonce, peer) ==
    [type |-> type, tx |-> tx, nonce |-> nonce, peer |-> peer, whole |-> TRUE]

(***************************************************************************)
(* The messages.  A request names a fresh random transaction id; an        *)
(* authenticated one also carries the nonce its integrity tag is for.      *)
(***************************************************************************)
build_allocate_request(tx, nonce) == Message("allocate", tx, nonce, NoPeer)
build_create_permission_request(tx, nonce) == Message("permission", tx, nonce, NoPeer)
build_refresh_request(nonce) == Message("refresh", 0, nonce, NoPeer)
build_send_indication(peer, nonce) == Message("send", 0, nonce, peer)
build_data_indication(peer) == Message("data", 0, NoNonce, peer)

\* The answers of the development server.
build_dev_allocate_success(tx) == Message("allocated", tx, NoNonce, NoPeer)
build_success_response(type, tx) == Message(type, tx, NoNonce, NoPeer)

\* The allocate exchange reads one datagram, whatever it is: a cut one, one
\* of another transaction or one of another method ends the call.
parse_allocate_response(m, tx) ==
    IF ~m.whole \/ m.tx # tx THEN "invalid"
    ELSE IF m.type = "allocated" THEN "success"
    ELSE IF m.type = "challenge" THEN "unauthorized"
    ELSE IF m.type = "refused" THEN "error" ELSE "invalid"

\* The CreatePermission exchange goes on reading past anything that is not
\* an answer to it; only a cut answer of its own kind is an error.
parse_simple_response(m, tx) ==
    IF m.type \notin {"permitted", "unpermitted"} THEN "ignored"
    ELSE IF ~m.whole THEN "invalid"
    ELSE IF m.tx # tx THEN "ignored"
    ELSE IF m.type = "permitted" THEN "success" ELSE "error"

parse_data_indication(m) ==
    IF m.type # "data" THEN "none" ELSE IF m.whole THEN "data" ELSE "invalid"

parse_send_indication(m) ==
    IF m.type # "send" THEN "none" ELSE IF m.whole THEN "send" ELSE "invalid"

parse_create_permission_peer(m) == m.type = "permission" /\ m.whole

-----------------------------------------------------------------------------
TurnInit ==
    /\ kind \in {"dev", "coturn"}
    /\ client = [phase |-> "idle", tx |-> 0, auth |-> NoNonce, peer |-> NoPeer,
                 sent |-> 0]
    /\ refreshing = FALSE
    /\ server = [alloc |-> 0, perms |-> [i \in Ips |-> 0], issued |-> NoNonce]
    /\ toServer = {} /\ toClient = {} /\ relayed = {}
    /\ now = 1 /\ faults = 0 /\ starved = FALSE

Transmit(m) == toServer' = toServer \cup {m}
Deliver(m) == toClient' = toClient \cup {m}
Took(m) == toClient' = toClient \ {m}

(***************************************************************************)
(* The client.                                                             *)
(***************************************************************************)
\* TurnClient::allocate and allocate_resident: bind, connect, and the first,
\* unauthenticated attempt of allocate_on_socket.
Allocate ==
    /\ client.phase = "idle"
    /\ client' = [client EXCEPT !.phase = "allocating", !.tx = 1]
    /\ Transmit(build_allocate_request(1, NoNonce))
    /\ UNCHANGED <<refreshing, kind, server, toClient, relayed, now, faults, starved>>

Fail == client' = [client EXCEPT !.phase = "failed", !.auth = NoNonce]

\* allocate_on_socket: what the answer to either attempt leads to.  Success
\* ends allocate, whose socket closes, and takes allocate_resident on to the
\* permission; the first challenge is retried with its nonce.
AllocateAnswered(m) ==
    LET parsed == parse_allocate_response(m, client.tx) IN
    /\ client.phase \in {"allocating", "retrying"}
    /\ m \in toClient /\ Took(m)
    /\ \/ parsed = "success" /\ client' = [client EXCEPT !.phase = "gathered"]
          /\ UNCHANGED toServer
       \/ /\ parsed = "success"
          /\ client' = [client EXCEPT !.phase = "permitting", !.tx = 3]
          /\ Transmit(build_create_permission_request(3, client.auth))
       \/ /\ parsed = "unauthorized" /\ client.phase = "allocating" /\ HasPassword
          /\ client' = [client EXCEPT !.phase = "retrying", !.tx = 2, !.auth = m.nonce]
          /\ Transmit(build_allocate_request(2, m.nonce))
       \/ /\ parsed = "unauthorized" /\ (client.phase = "retrying" \/ ~HasPassword)
          /\ Fail /\ UNCHANGED toServer
       \/ /\ parsed \in {"error", "invalid"}
          /\ Fail /\ UNCHANGED toServer
    /\ UNCHANGED <<refreshing, kind, server, relayed, now, faults, starved>>

\* exchange_simple_success for CreatePermission, then the refresh task is
\* spawned; its interval ticks at once.
PermissionAnswered(m) ==
    LET parsed == parse_simple_response(m, client.tx) IN
    /\ client.phase = "permitting"
    /\ m \in toClient /\ Took(m)
    /\ \/ /\ parsed = "success"
          /\ client' = [client EXCEPT !.phase = "resident", !.sent = now - 1]
          /\ refreshing' = TRUE
       \/ parsed \in {"invalid", "error"} /\ Fail /\ UNCHANGED refreshing
       \/ parsed = "ignored" /\ UNCHANGED <<client, refreshing>>
    /\ UNCHANGED <<kind, server, toServer, relayed, now, faults, starved>>

\* tokio::time::timeout around either exchange: nothing is sent again.
ExchangeTimedOut ==
    /\ client.phase \in Calling
    /\ Fail
    /\ UNCHANGED <<refreshing, kind, server, toServer, toClient, relayed, now,
                   faults, starved>>

RefreshAllocationOnly ==
    /\ refreshing /\ client.sent < now
    /\ client' = [client EXCEPT !.sent = now]
    /\ Transmit(build_refresh_request(client.auth))
    /\ UNCHANGED <<refreshing, kind, server, toClient, relayed, now, faults, starved>>

\* One round of run_refresh_loop: Refresh, then CreatePermission, with the
\* nonce of the first challenge.  The answers are left to the relay socket.
Refresh ==
    /\ refreshing /\ client.sent < now
    /\ client' = [client EXCEPT !.sent = now]
    /\ toServer' = toServer \cup {build_refresh_request(client.auth),
                                  build_create_permission_request(0, client.auth)}
    /\ UNCHANGED <<refreshing, kind, server, toClient, relayed, now, faults, starved>>

\* A failed send (an ICMP error on the connected socket is one) ends the
\* refresh task for good.
RefreshEnds ==
    /\ refreshing /\ client.sent < now /\ faults < MaxFaults
    /\ refreshing' = FALSE /\ faults' = faults + 1
    /\ UNCHANGED <<client, kind, server, toServer, toClient, relayed, now, starved>>

\* TurnRelaySocket::recv: anything but a Data indication is skipped; its peer
\* becomes the one the socket answers.
Recv(m) ==
    /\ client.phase = "resident" /\ m \in toClient /\ Took(m)
    /\ client' = IF parse_data_indication(m) = "data"
                 THEN [client EXCEPT !.peer = m.peer] ELSE client
    /\ UNCHANGED <<refreshing, kind, server, toServer, relayed, now, faults, starved>>

\* TurnRelaySocket::send and try_send: an error until a peer has been heard.
Send ==
    /\ client.phase = "resident" /\ client.peer # NoPeer
    /\ Cardinality(toServer) < MaxSends
    /\ Transmit(build_send_indication(client.peer, client.auth))
    /\ UNCHANGED <<client, refreshing, kind, server, toClient, relayed, now,
                   faults, starved>>

\* Drop of the ResidentTurnAllocation aborts the refresh task; clones of its
\* relay socket go on.
DropAllocation ==
    /\ refreshing
    /\ refreshing' = FALSE
    /\ UNCHANGED <<client, kind, server, toServer, toClient, relayed, now,
                   faults, starved>>

-----------------------------------------------------------------------------
(***************************************************************************)
(* The servers.                                                            *)
(***************************************************************************)
Serve(m) == m \in toServer /\ toServer' = toServer \ {m}
                /\ UNCHANGED <<client, refreshing, kind, relayed, now, faults, starved>>

\* DevTurnState::allocate, permit and allocation_for_peer.
Permit(until) == [server EXCEPT !.alloc = IF kind = "dev" THEN Forever ELSE @,
                                !.perms[Permitted] = until]
allocation_for_peer(peer) == server.perms[IpOf[peer]] >= now

\* serve_dev_turn, one arm per request; a request it cannot read gets nothing.
DevServes(m) ==
    /\ kind = "dev" /\ Serve(m)
    /\ \/ /\ m.type = "allocate"
          /\ server' = [server EXCEPT !.alloc = Forever]
          /\ Deliver(build_dev_allocate_success(m.tx))
       \/ /\ parse_create_permission_peer(m)
          /\ server' = Permit(Forever)
          /\ Deliver(build_success_response("permitted", m.tx))
       \/ /\ m.type = "refresh"
          /\ Deliver(build_success_response("refreshed", m.tx))
          /\ UNCHANGED server
       \/ /\ m.type = "permission" /\ ~parse_create_permission_peer(m)
          /\ UNCHANGED <<server, toClient>>

\* coturn with lt-cred-mech and stale-nonce: an unauthenticated Allocate is
\* challenged; a request under an expired nonce is refused and changes nothing.
Honoured(m) == m.nonce # NoNonce /\ m.nonce = server.issued /\ now < m.nonce + NonceLife

CoturnServes(m) ==
    /\ kind = "coturn" /\ Serve(m)
    /\ \/ /\ m.type = "allocate" /\ m.whole /\ ~Honoured(m)
          /\ server' = [server EXCEPT !.issued = now]
          /\ Deliver(Message("challenge", m.tx, now, NoPeer))
       \/ /\ m.type = "allocate" /\ m.whole /\ Honoured(m)
          /\ server' = [server EXCEPT !.alloc = now + 2]
          /\ Deliver(Message("allocated", m.tx, NoNonce, NoPeer))
       \/ /\ m.type = "permission" /\ m.whole /\ Honoured(m) /\ server.alloc >= now
          /\ server' = Permit(now + 1)
          /\ Deliver(Message("permitted", m.tx, NoNonce, NoPeer))
       \/ /\ m.type = "permission" /\ m.whole /\ (~Honoured(m) \/ server.alloc < now)
          /\ Deliver(Message("unpermitted", m.tx, NoNonce, NoPeer))
          /\ UNCHANGED server
       \/ /\ m.type = "refresh" /\ m.whole /\ Honoured(m) /\ server.alloc >= now
          /\ server' = [server EXCEPT !.alloc = now + 2]
          /\ Deliver(Message("refreshed", m.tx, NoNonce, NoPeer))
       \/ /\ m.type = "refresh" /\ m.whole /\ (~Honoured(m) \/ server.alloc < now)
          /\ Deliver(Message("refused", m.tx, NoNonce, NoPeer))
          /\ UNCHANGED server
       \/ /\ m.type \in {"allocate", "permission", "refresh"} /\ ~m.whole
          /\ UNCHANGED <<server, toClient>>

\* A Send indication from a client with an allocation goes out to its peer;
\* the development server does not look at the permission here.
Relays(m) ==
    /\ m \in toServer /\ m.type = "send" /\ toServer' = toServer \ {m}
    /\ relayed' = IF parse_send_indication(m) = "send" /\ server.alloc >= now
                  THEN relayed \cup {m.peer} ELSE relayed
    /\ UNCHANGED <<client, refreshing, kind, server, toClient, now, faults, starved>>

\* A peer's datagram reaches the relayed address: without a permission for
\* its IP it is dropped.
PeerSends(p) ==
    /\ Cardinality(toClient) < MaxSends
    /\ server.alloc >= now /\ allocation_for_peer(p)
    /\ Deliver(build_data_indication(p))
    /\ UNCHANGED <<client, refreshing, kind, server, toServer, relayed, now,
                   faults, starved>>

-----------------------------------------------------------------------------
(***************************************************************************)
(* The network and the clock.                                              *)
(***************************************************************************)
Excuse(m) == starved' = (starved \/ (m.type \in {"refresh", "permission"} /\ m.tx = 0))

Lose(m) ==
    /\ faults < MaxFaults /\ faults' = faults + 1
    /\ \/ m \in toServer /\ toServer' = toServer \ {m} /\ Excuse(m) /\ UNCHANGED toClient
       \/ m \in toClient /\ Took(m) /\ UNCHANGED <<toServer, starved>>
    /\ UNCHANGED <<client, refreshing, kind, server, relayed, now>>

Cut(m) ==
    /\ faults < MaxFaults /\ faults' = faults + 1 /\ m.whole
    /\ \/ /\ m \in toServer /\ toServer' = (toServer \ {m}) \cup {[m EXCEPT !.whole = FALSE]}
          /\ Excuse(m) /\ UNCHANGED toClient
       \/ /\ m \in toClient /\ toClient' = (toClient \ {m}) \cup {[m EXCEPT !.whole = FALSE]}
          /\ UNCHANGED <<toServer, starved>>
    /\ UNCHANGED <<client, refreshing, kind, server, relayed, now>>

\* The server's answer to a request is delivered a second time.
Repeat(m) ==
    /\ faults < MaxFaults /\ faults' = faults + 1
    /\ client.phase \in Calling /\ m.tx \in 1..client.tx - 1
    /\ m.type = "challenge" /\ m \notin toClient /\ m.nonce = server.issued
    /\ Deliver(m)
    /\ UNCHANGED <<client, refreshing, kind, server, toServer, relayed, now, starved>>

\* A period passes.  Datagrams take far less than one, and a running refresh
\* task keeps its interval.
PeriodPasses ==
    /\ client.phase = "resident" /\ now < MaxPeriods
    /\ refreshing => client.sent = now
    /\ \A m \in toServer : m.type = "send"
    /\ now' = now + 1
    /\ UNCHANGED <<client, refreshing, kind, server, toServer, toClient, relayed,
                   faults, starved>>

TurnNext ==
    \/ Allocate \/ ExchangeTimedOut \/ Refresh \/ RefreshEnds \/ Send
    \/ DropAllocation \/ PeriodPasses
    \/ \E m \in toClient : AllocateAnswered(m) \/ PermissionAnswered(m) \/ Recv(m)
    \/ \E m \in toServer : DevServes(m) \/ CoturnServes(m) \/ Relays(m)
    \/ \E m \in toServer \cup toClient : Lose(m) \/ Cut(m)
    \/ Repeat(Message("challenge", 1, server.issued, NoPeer))
    \/ \E p \in Peers : PeerSends(p)

TurnSpec == TurnInit /\ [][TurnNext]_turnVars

-----------------------------------------------------------------------------
\* "the resident proof path keeps a TURN allocation alive, refreshes it,
\* installs a peer permission" (docs/security.md:30): while the refresh task
\* runs, and once its round of this period has been answered, the server
\* holds the allocation and the permission into the next period, unless a
\* refresh was lost on the way.  It relates the task's schedule, the nonce it
\* keeps and the server's expiry.
ResidentIsServed ==
    refreshing /\ client.sent = now /\ ~starved
        /\ {m \in toServer : m.type # "send"} = {}
    => server.alloc > now /\ server.perms[Permitted] > now

=============================================================================
