----------------------------- MODULE SteamPeers -----------------------------
(***************************************************************************)
(* The trusted peers of a SteamOS host.  peers.json is shared by qlinkctl  *)
(* processes, each of which loads it, changes its copy and renames a new   *)
(* file over it without a lock, and by qlinkd, which picks the transport's *)
(* peer from it once, at start, and reloads it every second to decide      *)
(* whether the transport may stay.                                         *)
(*                                                                         *)
(* A load looks at the path, opens it and compares the two inodes; a       *)
(* rename that lands in between makes it fail.  One tick of peerClock is   *)
(* TRUSTED_PEER_RECHECK_INTERVAL, in which the resident loop checks once.  *)
(***************************************************************************)
EXTENDS Naturals, FiniteSets

CONSTANTS Invites,      \* what can be imported: [peer, expires, mode]
          Commands,     \* qlinkctl processes
          Settings,     \* daemon configurations: activePeerId, NoOne when it is not
                        \* set, and the registry binding, "none", "v1" or "v2"
          NoOne,
          MaxPeerClock

VARIABLES
    peerFile,   \* NoOne before the first store, else [selected, peers]
    command,    \* what each qlinkctl process is doing
    resident,   \* qlinkd's transport and its reload
    settings,   \* the daemon's configuration: [active, binding]
    peerClock,
    overdue     \* ticks since the last check at which the peer was not authorized

peersVars == <<peerFile, command, resident, settings, peerClock, overdue>>

PeerIds == {i.peer : i \in Invites}

StoredPeerOf(i) == [revoked |-> FALSE, expires |-> i.expires, mode |-> i.mode]

EmptyStore == [selected |-> NoOne, peers |-> <<>>]

\* Peers of the store that may be dialled at time t.
DialCandidates(store, t) ==
    {p \in DOMAIN store.peers : ~store.peers[p].revoked /\ store.peers[p].expires > t}

\* An operation of qlinkctl: [kind, peer], and the invite of an import.
Operations ==
    [kind : {"import"}, peer : PeerIds, invite : Invites]
        \cup [kind : {"remove", "revoke", "select", "clear"}, peer : PeerIds, invite : {NoOne}]

Deselect(store, p) == IF store.selected = p THEN NoOne ELSE store.selected

Upsert(store, p, stored) ==
    [store EXCEPT !.peers = [q \in DOMAIN @ \cup {p} |-> IF q = p THEN stored ELSE @[q]]]

Remove(store, p) ==
    [selected |-> Deselect(store, p),
     peers |-> [q \in DOMAIN store.peers \ {p} |-> store.peers[q]]]

Revoke(store, p) ==
    [selected |-> Deselect(store, p), peers |-> [store.peers EXCEPT ![p].revoked = TRUE]]

\* The operation is refused as naming an unknown peer.
Refused(op, store) ==
    \/ op.kind \in {"remove", "revoke"} /\ op.peer \notin DOMAIN store.peers
    \/ op.kind = "select" /\ op.peer \notin DialCandidates(store, peerClock)

Result(op, store) ==
    CASE op.kind = "import" -> Upsert(store, op.peer, StoredPeerOf(op.invite))
      [] op.kind = "remove" -> Remove(store, op.peer)
      [] op.kind = "revoke" -> Revoke(store, op.peer)
      [] op.kind = "select" -> [store EXCEPT !.selected = op.peer]
      [] op.kind = "clear"  -> [store EXCEPT !.selected = NoOne]

IdleCommand == [at |-> "idle", store |-> EmptyStore, changed |-> FALSE]
Down == [at |-> "down", peer |-> NoOne, changed |-> FALSE, checked |-> FALSE]

PeersInit ==
    /\ peerFile = NoOne
    /\ command = [c \in Commands |-> IdleCommand]
    /\ resident = Down
    /\ settings \in Settings
    /\ peerClock = 0
    /\ overdue = 0

---------------------------------------------------------------------------
(* qlinkctl: invite import, and peer remove, revoke, select and clear.     *)

\* The store's path has been looked at.
CommandStart(c) ==
    /\ command[c].at = "idle"
    /\ command' = [command EXCEPT ![c] = [IdleCommand EXCEPT !.at = "open"]]
    /\ UNCHANGED <<peerFile, resident, settings, peerClock, overdue>>

\* An expired invite is refused.  Else the store is read, or is taken to be
\* empty when there is none, and the operation applied to the copy.
CommandLoad(c, op) ==
    LET store == IF peerFile = NoOne THEN EmptyStore ELSE peerFile
        fails == command[c].changed \/ Refused(op, store) IN
    /\ command[c].at = "open"
    /\ op.kind = "import" => op.invite.peer = op.peer /\ op.invite.expires > peerClock
    /\ command' = [command EXCEPT ![c] =
           IF fails THEN IdleCommand
           ELSE [IdleCommand EXCEPT !.at = "store", !.store = Result(op, store)]]
    /\ UNCHANGED <<peerFile, resident, settings, peerClock, overdue>>

\* The rename: a reader that has looked at the path and not opened it fails.
CommandStore(c) ==
    /\ command[c].at = "store"
    /\ peerFile' = command[c].store
    /\ command' = [d \in Commands |->
           IF d = c THEN IdleCommand
           ELSE [command[d] EXCEPT !.changed = command[d].at = "open" /\ peerFile # NoOne]]
    /\ resident' = [resident EXCEPT !.changed =
                        resident.at \in {"select", "check"} /\ peerFile # NoOne]
    /\ UNCHANGED <<settings, peerClock, overdue>>

\* The process is killed, or writing the temporary file fails.
CommandFails(c) ==
    /\ command[c].at = "store"
    /\ command' = [command EXCEPT ![c] = IdleCommand]
    /\ UNCHANGED <<peerFile, resident, settings, peerClock, overdue>>

---------------------------------------------------------------------------
(* qlinkd: the transport's peer.                                           *)

Loaded == IF peerFile = NoOne THEN EmptyStore ELSE peerFile

ResidentStarts ==
    /\ resident.at = "down"
    /\ resident' = [Down EXCEPT !.at = "select"]
    /\ UNCHANGED <<peerFile, command, settings, peerClock, overdue>>

\* select_packet_peer: the configured peer before the selected one, and with
\* neither the only candidate there is; NoOne for an error.
SelectPacketPeer(store) ==
    LET candidates == DialCandidates(store, peerClock)
        wanted == IF settings.active # NoOne THEN settings.active ELSE store.selected IN
    IF wanted # NoOne
    THEN IF wanted \in candidates THEN wanted ELSE NoOne
    ELSE IF Cardinality(candidates) = 1 THEN CHOOSE p \in candidates : TRUE ELSE NoOne

\* The trust modes a resident transport is configured for.
ModeAccepted(mode) ==
    \/ mode = "private"
    \/ mode = "public" /\ settings.binding = "v2"

\* The transport is built, once.  Everything that fails leaves the daemon up and
\* without one.
ResidentSelects ==
    LET p == IF resident.changed THEN NoOne ELSE SelectPacketPeer(Loaded) IN
    /\ resident.at = "select"
    /\ resident' = [Down EXCEPT
           !.at = "up",
           !.peer = IF p # NoOne /\ ModeAccepted(Loaded.peers[p].mode) THEN p ELSE NoOne]
    /\ overdue' = 0
    /\ UNCHANGED <<peerFile, command, settings, peerClock>>

CheckStarts ==
    /\ resident.at = "up" /\ resident.peer # NoOne /\ ~resident.checked
    /\ resident' = [resident EXCEPT !.at = "check", !.changed = FALSE]
    /\ UNCHANGED <<peerFile, command, settings, peerClock, overdue>>

\* selected_peer_is_authorized
Authorized(store, p) ==
    p \in DialCandidates(store, peerClock) /\ store.selected \in {NoOne, p}

\* Mutant: a reload that fails keeps the transport.
CheckKeepsOnError ==
    /\ resident.at = "check"
    /\ resident' = IF resident.changed \/ Authorized(Loaded, resident.peer)
                   THEN [resident EXCEPT !.at = "up", !.checked = TRUE, !.changed = FALSE]
                   ELSE [Down EXCEPT !.at = "up"]
    /\ overdue' = IF resident.changed THEN overdue ELSE 0
    /\ UNCHANGED <<peerFile, command, settings, peerClock>>

\* A peer that is no longer authorized, and a reload that fails, drop the
\* transport for good: it is built at start only.
CheckEnds ==
    /\ resident.at = "check"
    /\ resident' = IF ~resident.changed /\ Authorized(Loaded, resident.peer)
                   THEN [resident EXCEPT !.at = "up", !.checked = TRUE]
                   ELSE [Down EXCEPT !.at = "up"]
    /\ overdue' = 0
    /\ UNCHANGED <<peerFile, command, settings, peerClock>>

\* The publication expires, a signal arrives or the control socket fails.
ResidentStops ==
    /\ resident.at = "up"
    /\ resident' = Down
    /\ overdue' = 0
    /\ UNCHANGED <<peerFile, command, settings, peerClock>>

\* A second passes.  The loop has made its check in it.
PeersTick ==
    /\ peerClock < MaxPeerClock
    /\ resident.peer # NoOne => resident.at = "up" /\ resident.checked
    /\ peerClock' = peerClock + 1
    /\ overdue' = IF resident.peer # NoOne /\ ~Authorized(Loaded, resident.peer)
                  THEN overdue + 1 ELSE 0
    /\ resident' = [resident EXCEPT !.checked = FALSE]
    /\ UNCHANGED <<peerFile, command, settings>>

PeersNext ==
    \/ \E c \in Commands :
         \/ \E op \in Operations : CommandLoad(c, op)
         \/ CommandStart(c) \/ CommandStore(c) \/ CommandFails(c)
    \/ ResidentStarts \/ ResidentSelects \/ CheckStarts \/ CheckEnds \/ ResidentStops
    \/ PeersTick

PeersSpec == PeersInit /\ [][PeersNext]_peersVars

---------------------------------------------------------------------------
(* Properties.                                                             *)

\* "The daemon drops the complete transport if the selected peer is removed,
\* revoked, expired, or replaced on disk" (README of the SteamOS client), and
\* does so at its next check: no transport is kept over two ticks for which
\* peers.json did not authorize its peer, whatever the qlinkctl processes did
\* to the file around the reload.
UnauthorizedPeerIsDropped == overdue <= 1

=============================================================================
