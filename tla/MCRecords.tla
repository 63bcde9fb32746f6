----------------------------- MODULE MCRecords ------------------------------
(***************************************************************************)
(* What is kept: the encrypted peer store, the peers of a Steam node as    *)
(* qlinkctl edits and qlinkd reads them, the rendezvous service, the node  *)
(* registry and its provisioning clients, and the secrets of a device.     *)
(* They share no state; a behaviour is of one of them, which part names.   *)
(* The actors of all of them are drawn from the same interchangeable       *)
(* values.  The secrets have variables of their own, the others share a    *)
(* pool of variables.                                                      *)
(***************************************************************************)
EXTENDS DeviceSecrets, TLC

CONSTANTS n1, n2, n3, v1, v2, d1, d2, Nil, NoOne

VARIABLES
    part,   \* the component this behaviour is about
    x1, x2, x3, x4, x5, x6, x7, x8, x9

Two == {n1, n2}
MCConns == {n1, n2, n3}
MCWallets == {v1, v2}
RecordSymmetry == Permutations(Two) \cup Permutations(MCWallets)

\* The peer store: two session managers, two keys and one peer.
MCStored == {"a"}
MCKeys == {"k"}

\* The registry: two wallets and two clients that provision the same node.
MCBodies == {"b1"}

\* The peers of a Steam node: two invites for one peer and one for another.
MCInvites == {[peer |-> d1, expires |-> 1, mode |-> "private"],
              [peer |-> d1, expires |-> 3, mode |-> "public"],
              [peer |-> d2, expires |-> 3, mode |-> "private"]}
MCSettings == {[active |-> NoOne, binding |-> "v2"], [active |-> d1, binding |-> "none"]}

\* The rendezvous service: three connections, two of them interchangeable, from one address over two slots.
MCIps == {"ip"}
MCIpOf == [c \in MCConns |-> "ip"]

Store == INSTANCE PeerStore WITH
    Writers <- Two, Peers <- MCStored, Keys <- MCKeys, NoKey <- "plain",
    MaxSeq <- 2, MaxTime <- 1, kind <- x1, mem <- x2, key <- x3, op <- x4,
    temp <- x5, path <- x6, settled <- x7, now <- x8

Registry == INSTANCE NodeRegistry WITH
    Clients <- Two, Wallets <- MCWallets, Bodies <- MCBodies, MaxAt <- 3,
    MaxEvents <- 2, MaxCalls <- 3, None <- Nil, version <- x1, node <- x2,
    log <- x3, pool <- x4, fate <- x5, client <- x6, held <- x7, receipts <- x8

Steam == INSTANCE SteamPeers WITH
    Invites <- MCInvites, Commands <- Two, Settings <- MCSettings,
    MaxPeerClock <- 2, peerFile <- x1, command <- x2, resident <- x3,
    settings <- x4, peerClock <- x5, overdue <- x6

Rendezvous == INSTANCE RendezvousService WITH
    Conns <- MCConns, Ips <- MCIps, IpOf <- MCIpOf, MaxConns <- 2, MaxLine <- 1,
    MaxEvents <- 1, MaxSeq <- 1, MaxLines <- 2, tls <- x1, up <- x2, task <- x3,
    bucket <- x4, held <- x5, count <- x6, lines <- x7, dropped <- x8, scrape <- x9

poolVars == <<x1, x2, x3, x4, x5, x6, x7, x8, x9>>
mcVars == <<part, poolVars, secretVars>>

-----------------------------------------------------------------------------
\* The variables that a component does not use.
Unused6 == <<x7, x8, x9>>
Unused8 == <<x9>>

\* The secrets while a behaviour is about another component.
SecretsRest ==
    /\ host = "steam" /\ file = 0 /\ temp = 0 /\ loader = 0 /\ used = 0
    /\ device = {} /\ overlap = FALSE

PoolRests ==
    /\ x1 = 0 /\ x2 = 0 /\ x3 = 0 /\ x4 = 0 /\ x5 = 0
    /\ x6 = 0 /\ x7 = 0 /\ x8 = 0 /\ x9 = 0

MCInit ==
    \/ part = "store" /\ Store!StoreInit /\ x9 = 0 /\ SecretsRest
    \/ part = "registry" /\ Registry!Init /\ x9 = 0 /\ SecretsRest
    \/ part = "secrets" /\ SecretsInit /\ PoolRests
    \/ part = "steam" /\ Steam!PeersInit /\ x7 = 0 /\ x8 = 0 /\ x9 = 0 /\ SecretsRest
    \/ part = "rendezvous" /\ Rendezvous!ServiceInit /\ SecretsRest

MCNext ==
    \/ part = "store" /\ Store!StoreNext /\ UNCHANGED <<part, Unused8, secretVars>>
    \/ part = "registry" /\ Registry!Next /\ UNCHANGED <<part, Unused8, secretVars>>
    \/ part = "secrets" /\ SecretsNext /\ UNCHANGED <<part, poolVars>>
    \/ part = "steam" /\ Steam!PeersNext /\ UNCHANGED <<part, Unused6, secretVars>>
    \/ part = "rendezvous" /\ Rendezvous!ServiceNext /\ UNCHANGED <<part, secretVars>>

MCSpec == MCInit /\ [][MCNext]_mcVars

-----------------------------------------------------------------------------
\* The file of the peer store holds what its memory holds once a lone write is done.
FileHoldsMemory == part = "store" => Store!FileHoldsMemory

\* Receipts, stored record and event log tell one history of a node.
HistoryIsOne == part = "registry" => Registry!HistoryIsOne

\* A peer that is no longer authorized is dropped at the next check.
UnauthorizedPeerIsDropped == part = "steam" => Steam!UnauthorizedPeerIsDropped

\* The counters of the rendezvous service add up, also in a scrape.
CountersAgree == part = "rendezvous" => Rendezvous!CountersAgree
=============================================================================
