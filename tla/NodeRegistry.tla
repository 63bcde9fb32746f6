---------------------------- MODULE NodeRegistry ----------------------------
(***************************************************************************)
(* The node registry contracts (dytallix/quantumlink-node-registry and     *)
(* -v2) and the clients that write to them (qlink-core/src/                *)
(* dytallix_identity.rs and dytallix_provisioning_v2.rs).                  *)
(*                                                                         *)
(* A contract keeps two storage values per peer id, the record and the log *)
(* of events, and touches no other peer's: one peer is modelled.  Version  *)
(* 1 orders records by the time their writer gives them, version 2 by a    *)
(* revision that grows by one.  A signature is the payload it covers.  The *)
(* chain runs the submitted calls one at a time, in any order.             *)
(***************************************************************************)
EXTENDS Integers, Sequences

CONSTANTS
    Clients,    \* processes that provision version 2 identities
    Wallets,    \* the wallets in their keystores
    Bodies,     \* what the owner states: record hash, policy, mesh scope
    MaxAt,      \* bound: u64::MAX, for times (version 1) and revisions (2)
    MaxEvents,  \* events that fit in MAX_STORAGE_VALUE_SIZE
    MaxCalls,   \* bound on submitted calls
    None

VARIABLES
    version,    \* which contract is deployed
    node,       \* storage value "node:<peer>" or "v2:identity:<peer>"
    log,        \* storage value "events:<peer>"
    pool,       \* submitted calls the chain has not run
    fate,       \* by call: "pending", "confirmed" or "failed"
    client,     \* where each client is, the call it waits for, what it expects
    held,       \* history: every record that was stored
    receipts    \* history: the records that receipts named

vars == <<version, node, log, pool, fate, client, held, receipts>>

Idle == [at |-> "idle", call |-> None, expected |-> None]

Init ==
    /\ version \in {1, 2}
    /\ node = None
    /\ log = <<>>
    /\ pool = {}
    /\ fate = <<>>
    /\ client = [c \in Clients |-> Idle]
    /\ held = {}
    /\ receipts = {}

-----------------------------------------------------------------------------
(* The contract.  An operation yields the record to store, or None when it *)
(* refuses the call.                                                       *)

\* The canonical payload of an operation, and the wallet that signed it.
SignedPayload(op, rec) == <<op, rec>>

VerifiedActor(call) ==
    IF call.wallet.over = SignedPayload(call.op, call.rec) THEN call.wallet.by ELSE None

\* Version 1 signs what ties the device to its owner, version 2 the record.
DeviceBindingPayload(rec) == <<rec.owner, rec.body>>
DeviceAuthorizationPayload(rec) == rec

ValidateDeviceBinding(call, rec) == call.device = DeviceBindingPayload(rec)
ValidateDeviceAuthorization(call) == call.device = DeviceAuthorizationPayload(call.rec)

RegisterNode(call) ==
    LET stored == [call.rec EXCEPT !.owner = VerifiedActor(call)] IN
    IF node = None /\ stored.owner # None /\ ValidateDeviceBinding(call, stored)
    THEN stored ELSE None

UpdateNode(call) ==
    LET stored == [call.rec EXCEPT !.owner = VerifiedActor(call)] IN
    IF /\ node # None
       /\ node.owner = stored.owner
       /\ node.status # "revoked"
       /\ call.rec.at > node.at
       /\ ValidateDeviceBinding(call, stored)
    THEN stored ELSE None

RevokeNode(call) ==
    IF /\ node # None
       /\ node.owner = VerifiedActor(call)
       /\ node.status # "revoked"
       /\ call.rec.at > node.at
    THEN [node EXCEPT !.status = "revoked", !.at = call.rec.at] ELSE None

RegisterIdentity(call) ==
    IF /\ node = None
       /\ call.rec.at = 1
       /\ call.rec.status = "active"
       /\ call.rec.owner = VerifiedActor(call)
       /\ ValidateDeviceAuthorization(call)
    THEN call.rec ELSE None

AnyRevision(current, proposed) == proposed >= current

RequireNextRevision(current, proposed) ==
    current < MaxAt /\ proposed = current + 1

UpdateIdentity(call) ==
    IF /\ call.rec.status # "revoked"
       /\ node # None
       /\ node.status # "revoked"
       /\ call.rec.owner = node.owner
       /\ RequireNextRevision(node.at, call.rec.at)
       /\ VerifiedActor(call) = node.owner
       /\ ValidateDeviceAuthorization(call)
    THEN call.rec ELSE None

\* suspend_identity and revoke_identity differ in the status they leave.
SetIdentityStatus(call, status) ==
    IF /\ node # None
       /\ node.status # "revoked"
       /\ RequireNextRevision(node.at, call.rec.at)
       /\ VerifiedActor(call) = node.owner
    THEN [node EXCEPT !.status = status, !.at = call.rec.at] ELSE None

HandleHostNode(call) ==
    CASE call.op = "register" -> RegisterNode(call)
      [] call.op = "update" -> UpdateNode(call)
      [] call.op = "revoke" -> RevokeNode(call)

HandleHostIdentity(call) ==
    CASE call.op = "register" -> RegisterIdentity(call)
      [] call.op = "update" -> UpdateIdentity(call)
      [] call.op = "suspend" -> SetIdentityStatus(call, "suspended")
      [] call.op = "revoke" -> SetIdentityStatus(call, "revoked")

Event(call, rec) == [op |-> call.op, by |-> rec.owner, at |-> rec.at]

Written(rec, events, k) ==
    /\ node' = IF k >= 1 THEN rec ELSE node
    /\ log' = IF k = 2 THEN events ELSE log

\* with_peer_state: load, operate, save, answer.
WithPeerState(call, answeredOk) ==
    LET rec == IF version = 1 THEN HandleHostNode(call) ELSE HandleHostIdentity(call)
        events == Append(log, Event(call, rec))
    IN  IF rec = None \/ Len(log) = MaxEvents
        THEN answeredOk = FALSE /\ UNCHANGED <<node, log, held>>
        ELSE \E k \in 0..2 :
                /\ Written(rec, events, k)
                /\ held' = IF k >= 1 THEN held \cup {rec} ELSE held
                /\ answeredOk = (k = 2)

-----------------------------------------------------------------------------
(* The chain (external): it runs a submitted call, or refuses it because   *)
(* its nonce is used.  A call the contract answers with an error may still *)
(* count as a confirmed transaction; nobody reads the fate in version 1.   *)

RunCall(call) ==
    /\ call \in pool
    /\ pool' = pool \ {call}
    /\ \E ok \in BOOLEAN, f \in {"confirmed", "failed"} :
        /\ ok \/ version = 1 => f = "confirmed"
        /\ fate' = [fate EXCEPT ![call.id] = f]
        /\ WithPeerState(call, ok)
    /\ UNCHANGED <<version, client, receipts>>

DropCall(call) ==
    /\ call \in pool
    /\ pool' = pool \ {call}
    /\ fate' = [fate EXCEPT ![call.id] = "failed"]
    /\ UNCHANGED <<version, node, log, client, held, receipts>>

-----------------------------------------------------------------------------
(* The clients.                                                            *)

Record(owner, status, at, body) ==
    [owner |-> owner, status |-> status, at |-> at, body |-> body]

\* A request and the authorizations its client signs.
SignedCall(wallet, op, rec) ==
    [id |-> 0, op |-> op, rec |-> rec,
     wallet |-> [by |-> wallet, over |-> SignedPayload(op, rec)],
     device |-> CASE op \notin {"register", "update"} -> None
                  [] version = 1 -> DeviceBindingPayload(rec)
                  [] version = 2 -> DeviceAuthorizationPayload(rec)]

\* The call reaches the chain.
Post(call) ==
    /\ Len(fate) < MaxCalls
    /\ pool' = pool \cup {[call EXCEPT !.id = Len(fate) + 1]}
    /\ fate' = Append(fate, "pending")

\* Version 1: a client signs with its clock's time and does not wait.
WriteRecord(wallet, op, at, body) ==
    /\ version = 1
    /\ Post(SignedCall(wallet, op, Record(wallet, "active", at, body)))
    /\ UNCHANGED <<version, node, log, client, held, receipts>>

Revoke(wallet, at) ==
    /\ version = 1
    /\ Post(SignedCall(wallet, "revoke", Record(None, "revoked", at, None)))
    /\ UNCHANGED <<version, node, log, client, held, receipts>>

\* Version 2: a client reads the record, builds the one it expects, and signs;
\* it stops with an error when its wallet is not the owner's.
Ready(c, wallet, op, rec, expected) ==
    /\ client' = [client EXCEPT ![c] = [at |-> "signed",
                                        call |-> SignedCall(wallet, op, rec),
                                        expected |-> expected]]
    /\ UNCHANGED <<version, node, log, pool, fate, held, receipts>>

Register(c, wallet, body) ==
    LET rec == Record(wallet, "active", 1, body) IN
    /\ version = 2 /\ client[c] = Idle
    /\ node = None
    /\ Ready(c, wallet, "register", rec, rec)

\* The status an update leaves; reactivation is an update of a suspended
\* identity.
UpdateStatus(c, reactivate, body) ==
    /\ version = 2 /\ client[c] = Idle
    /\ node # None /\ node.status # "revoked"
    /\ reactivate => node.status = "suspended"
    /\ node.at < MaxAt
    /\ LET rec == Record(node.owner, IF reactivate THEN "active" ELSE node.status,
                         node.at + 1, body)
       IN  Ready(c, node.owner, "update", rec, rec)

StatusMutation(c, op, status) ==
    /\ version = 2 /\ client[c] = Idle
    /\ node # None /\ node.status # "revoked"
    /\ node.at < MaxAt
    /\ Ready(c, node.owner, op, Record(None, status, node.at + 1, None),
             [node EXCEPT !.status = status, !.at = @ + 1])

SignContractCallFails(c) ==
    /\ client[c].at = "signed"
    /\ client' = [client EXCEPT ![c] = Idle]
    /\ UNCHANGED <<version, node, log, pool, fate, held, receipts>>

\* The answer names the transaction, or is lost after the chain took the call.
SubmitAndConfirm(c) ==
    /\ client[c].at = "signed"
    /\ Post(client[c].call)
    /\ client' \in {[client EXCEPT ![c].at = "confirming", ![c].call = Len(fate) + 1],
                    [client EXCEPT ![c] = Idle]}
    /\ UNCHANGED <<version, node, log, held, receipts>>

WaitForConfirmation(c) ==
    /\ client[c].at = "confirming"
    /\ fate[client[c].call] # "pending"
    /\ client' = [client EXCEPT ![c] =
                    IF fate[client[c].call] = "confirmed"
                    THEN [@ EXCEPT !.at = "reading", !.call = None] ELSE Idle]
    /\ UNCHANGED <<version, node, log, pool, fate, held, receipts>>

\* The receipt names what was read back; a later revision is an error.
WaitForReadback(c) ==
    /\ client[c].at = "reading"
    /\ node # None
    /\ \/ node = client[c].expected /\ receipts' = receipts \cup {node}
       \/ node.at > client[c].expected.at /\ UNCHANGED receipts
    /\ client' = [client EXCEPT ![c] = Idle]
    /\ UNCHANGED <<version, node, log, pool, fate, held>>

\* The confirmation timeout, or a failing query.
GiveUp(c) ==
    /\ client[c].at \in {"confirming", "reading"}
    /\ client' = [client EXCEPT ![c] = Idle]
    /\ UNCHANGED <<version, node, log, pool, fate, held, receipts>>

ClientStep(c) ==
    \/ \E wallet \in Wallets, body \in Bodies : Register(c, wallet, body)
    \/ \E reactivate \in BOOLEAN, body \in Bodies : UpdateStatus(c, reactivate, body)
    \/ StatusMutation(c, "suspend", "suspended")
    \/ StatusMutation(c, "revoke", "revoked")
    \/ SignContractCallFails(c)
    \/ SubmitAndConfirm(c)
    \/ WaitForConfirmation(c)
    \/ WaitForReadback(c)
    \/ GiveUp(c)

Next ==
    \/ \E call \in pool : RunCall(call) \/ DropCall(call)
    \/ \E wallet \in Wallets, at \in 1..MaxAt :
        \/ \E op \in {"register", "update"}, body \in Bodies :
            WriteRecord(wallet, op, at, body)
        \/ Revoke(wallet, at)
    \/ \E c \in Clients : ClientStep(c)

Spec == Init /\ [][Next]_vars

-----------------------------------------------------------------------------
(* Properties.                                                             *)

\* Every receipt of a provisioning operation names a record that the contract
\* stored, and a revision names one record: two clients that update the same
\* identity at once, with answers lost and timeouts, cannot both be told that
\* a different record is revision n (wait_for_readback, require_next_revision).
ReceiptsNameOneRecord ==
    version = 2 =>
        /\ receipts \subseteq held
        /\ \A a, b \in held : a.at = b.at => a = b

\* The log never runs ahead of the record: its events are in strict order and
\* none is later than the stored record, also when the second of the two
\* storage writes fails (save_peer_state_writes, save_peer_state).
LogNeverAhead ==
    /\ \A i, j \in 1..Len(log) : i < j => log[i].at < log[j].at
    /\ log # <<>> => node # None /\ log[Len(log)].at <= node.at

\* Receipts, stored record and event log tell one history of the node.
HistoryIsOne == ReceiptsNameOneRecord /\ LogNeverAhead

=============================================================================
