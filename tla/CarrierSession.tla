--------------------------- MODULE CarrierSession ---------------------------
(***************************************************************************)
(* The receiving half of a native UDP carrier session, and the sender that *)
(* fills the network in front of it (qlink-core/src/carrier_transport.rs). *)
(*                                                                         *)
(* A message that does not fit one datagram goes out in fragments under a  *)
(* message id.  The network loses, repeats and reorders datagrams.  The    *)
(* receiver reassembles fragments in a bounded table, remembers the last   *)
(* completed ids, and hands messages to whoever waits for their kind: one  *)
(* receiver reads the socket at a time, under recv_lock, and parks what it *)
(* reads for the other kind in a bounded queue.                            *)
(***************************************************************************)
EXTENDS Naturals, Sequences

CONSTANTS
    WholeMax,          \* MAX_CARRIER_PAYLOAD_LEN (1188)
    FragmentMax,       \* MAX_FRAGMENT_PAYLOAD_LEN (1172)
    MessageMax,        \* MAX_REASSEMBLED_MESSAGE_LEN (1 MiB)
    WantedAuthMax,     \* max_size of receive_authenticated_message's callers
    ParkedAuthMax,     \* MAX_PENDING_AUTHENTICATED_MESSAGE_LEN (64 KiB)
    MaxReassembly,     \* MAX_REASSEMBLY_ENTRIES (64)
    MaxCompleted,      \* MAX_COMPLETED_FRAGMENT_KEYS (256)
    MaxPending,        \* MAX_PENDING_MESSAGES (64)
    Lengths,           \* lengths of the messages sent
    MaxSent,           \* bound: messages sent
    MaxReceived        \* bound: datagrams received

CarrierAssumption ==
    /\ FragmentMax \in Nat \ {0} /\ WholeMax >= FragmentMax
    /\ MessageMax \in Nat /\ WantedAuthMax \in Nat /\ ParkedAuthMax \in Nat
    /\ MaxReassembly \in Nat \ {0} /\ MaxCompleted \in Nat /\ MaxPending \in Nat
    /\ Lengths \subseteq Nat \ {0}

Kinds == {"frame", "auth"}

VARIABLES
    sent,         \* messages sent: kind, length and message id (0: one datagram)
    nextId,       \* next_message_id
    closed,       \* the sender has sent its close datagram
    received,     \* datagrams received so far
    rpc,          \* receive_message: idle, checked (waits for recv_lock) or holding
    pending,      \* pending_frames and pending_authenticated
    reassembly,   \* fragment buffers, oldest first
    completed,    \* completed_fragments.order
    assembled,    \* history: kind and chunks of every message put together
    completions   \* history: fragment keys in the order their messages completed

sendVars == <<sent, nextId, closed>>
vars == <<sendVars, received, rpc, pending, reassembly, completed, assembled, completions>>

Init ==
    /\ sent = <<>> /\ nextId = 1 /\ closed = FALSE
    /\ received = 0
    /\ rpc = [k \in Kinds |-> "idle"]
    /\ pending = [k \in Kinds |-> <<>>]
    /\ reassembly = <<>> /\ completed = <<>>
    /\ assembled = {} /\ completions = <<>>

-----------------------------------------------------------------------------
(* Sending.                                                                 *)

ChunkCount(len) == (len + FragmentMax - 1) \div FragmentMax

\* payload.chunks: the length of chunk i, counted from 0.
ChunkLength(len, i) ==
    IF (i + 1) * FragmentMax <= len THEN FragmentMax ELSE len - i * FragmentMax

FragmentationIdReused(len) == nextId' = nextId

FragmentationId(len) == nextId' = IF len > WholeMax THEN nextId + 1 ELSE nextId

\* send_message.  That its datagrams go out one by one makes no difference to a
\* receiver they reach in any order, or not at all.
SendMessage(kind, len) ==
    /\ Len(sent) < MaxSent
    /\ len <= WholeMax \/ len <= MessageMax
    /\ sent' = Append(sent, [kind |-> kind, len |-> len,
                             id |-> IF len > WholeMax THEN nextId ELSE 0])
    /\ FragmentationId(len)
    /\ UNCHANGED <<closed, received, rpc, pending, reassembly, completed, assembled, completions>>

SendClose ==
    /\ ~closed /\ closed' = TRUE
    /\ UNCHANGED <<sent, nextId, received, rpc, pending, reassembly, completed,
                   assembled, completions>>

\* The datagrams of the n-th message.
Datagrams(n) ==
    LET m == sent[n] IN
    IF m.id = 0
      THEN {[type |-> "whole", kind |-> m.kind, total |-> m.len, of |-> n]}
      ELSE {[type |-> "part", kind |-> m.kind, id |-> m.id, total |-> m.len,
             count |-> ChunkCount(m.len), index |-> i, len |-> ChunkLength(m.len, i),
             of |-> n] : i \in 0 .. ChunkCount(m.len) - 1}

\* What the network may deliver next: anything sent, any number of times.
OnTheWire ==
    UNION {Datagrams(n) : n \in DOMAIN sent}
        \cup (IF closed THEN {[type |-> "close"]} ELSE {})

-----------------------------------------------------------------------------
(* Receiving one datagram: accept_datagram.                                 *)

\* validate_fragment_shape_parts.
ShapeValid(f) ==
    /\ f.total > WholeMax /\ f.total <= MessageMax
    /\ f.count = ChunkCount(f.total)
    /\ f.index < f.count
    /\ f.len = IF f.index + 1 = f.count THEN f.total - FragmentMax * f.index
                                        ELSE FragmentMax

\* ReceiveLimits::for_wanted and validate_message_with_limits.
WithinLimits(wanted, d) ==
    d.kind = "auth" => d.total <= IF wanted = "auth" THEN WantedAuthMax ELSE ParkedAuthMax

KeyOf(f) == <<f.kind, f.id>>

PruneExpired(buffers) == SelectSeq(buffers, LAMBDA b : ~b.stale)

Without(buffers, key) == SelectSeq(buffers, LAMBDA b : b.key # key)

NewBuffer(f) ==
    [key |-> KeyOf(f), total |-> f.total, chunks |-> [i \in 0 .. f.count - 1 |-> 0],
     received |-> 0, stale |-> FALSE]

\* FragmentBuffer::insert: the buffer afterwards, and whether the fragment fits it.
Fits(b, f) ==
    /\ f.total = b.total
    /\ f.count = ChunkCount(b.total)
    /\ b.chunks[f.index] # 0 \/ b.received + f.len <= b.total

Inserted(b, f) ==
    IF b.chunks[f.index] # 0 THEN b
    ELSE [b EXCEPT !.chunks[f.index] = f.of, !.received = @ + f.len]

Complete(b) == \A i \in DOMAIN b.chunks : b.chunks[i] # 0

\* CompletedFragmentKeys::insert.
Remember(keys, key) ==
    LET all == Append(keys, key) IN
    SubSeq(all, IF Len(all) > MaxCompleted THEN 2 ELSE 1, Len(all))

\* What one datagram does: the result, and the reassembly table afterwards.
Outcome(result, buffers) == [result |-> result, buffers |-> buffers]

AcceptFragment(wanted, f) ==
    LET key == KeyOf(f)
        live == PruneExpired(reassembly)
        known == \E i \in DOMAIN live : live[i].key = key
        opened == IF known THEN live ELSE Append(live, NewBuffer(f))
        at == CHOOSE i \in DOMAIN opened : opened[i].key = key
        after == Inserted(opened[at], f)
    IN  IF \E i \in DOMAIN completed : completed[i] = key
          THEN Outcome("nothing", reassembly)
        ELSE IF ~ShapeValid(f) \/ ~WithinLimits(wanted, f)
          THEN Outcome("error", reassembly)
        ELSE IF ~known /\ Len(live) >= MaxReassembly
          THEN Outcome("error", live)
        ELSE IF ~Fits(opened[at], f)
          THEN Outcome("error", Without(opened, key))
        ELSE IF opened[at].chunks[f.index] = 0 /\ Complete(after)
          THEN [result |-> "message", buffers |-> Without(opened, key),
                chunks |-> after.chunks]
        ELSE Outcome("nothing", [opened EXCEPT ![at] = after])

AcceptDatagram(wanted, d) ==
    CASE d.type = "close" -> Outcome("error", reassembly)
      [] d.type = "whole" ->
           IF WithinLimits(wanted, d)
             THEN [result |-> "message", buffers |-> reassembly, chunks |-> [i \in {0} |-> d.of]]
             ELSE Outcome("error", reassembly)
      [] d.type = "part" -> AcceptFragment(wanted, d)

-----------------------------------------------------------------------------
(* receive_message, by the one caller that waits for messages of kind k.    *)

\* A message is taken from the queue.  validate_received_size may still refuse it,
\* which the caller sees as an error; it is gone from the queue either way.
PopPending(k) ==
    /\ pending[k] # <<>>
    /\ pending' = [pending EXCEPT ![k] = Tail(@)]
    /\ rpc' = [rpc EXCEPT ![k] = "idle"]

\* The call looks at the queue before it waits for the lock.
Call(k) ==
    /\ rpc[k] = "idle"
    /\ \/ PopPending(k)
       \/ /\ pending[k] = <<>>
          /\ rpc' = [rpc EXCEPT ![k] = "checked"]
          /\ UNCHANGED pending
    /\ UNCHANGED <<sendVars, received, reassembly, completed, assembled, completions>>

LockUnchecked(k) ==
    /\ rpc[k] = "checked"
    /\ \A j \in Kinds : rpc[j] # "holding"
    /\ rpc' = [rpc EXCEPT ![k] = "holding"]
    /\ UNCHANGED <<sendVars, received, pending, reassembly, completed, assembled, completions>>

\* With the lock it looks again, before it waits for a datagram.
Lock(k) ==
    /\ rpc[k] = "checked"
    /\ \A j \in Kinds : rpc[j] # "holding"
    /\ \/ PopPending(k)
       \/ /\ pending[k] = <<>>
          /\ rpc' = [rpc EXCEPT ![k] = "holding"]
          /\ UNCHANGED pending
    /\ UNCHANGED <<sendVars, received, reassembly, completed, assembled, completions>>

\* A message of the wanted kind ends the call; one of the other kind is parked and
\* the receiver queues for the lock again, or fails when there is no room.
HandOver(k, kind, n) ==
    IF kind = k
      THEN rpc' = [rpc EXCEPT ![k] = "idle"] /\ UNCHANGED pending
    ELSE IF Len(pending[kind]) >= MaxPending
      THEN rpc' = [rpc EXCEPT ![k] = "idle"] /\ UNCHANGED pending
    ELSE /\ pending' = [pending EXCEPT ![kind] = Append(@, n)]
         /\ rpc' = [rpc EXCEPT ![k] = "checked"]

Receive(k, d) ==
    LET out == AcceptDatagram(k, d) IN
    /\ rpc[k] = "holding"
    /\ received < MaxReceived
    /\ received' = received + 1
    /\ reassembly' = out.buffers
    /\ IF out.result = "message"
         THEN /\ HandOver(k, d.kind, d.of)
              /\ assembled' = assembled \cup {[kind |-> d.kind, chunks |-> out.chunks]}
         ELSE /\ rpc' = IF out.result = "error" THEN [rpc EXCEPT ![k] = "idle"] ELSE rpc
              /\ UNCHANGED <<pending, assembled>>
    /\ IF out.result = "message" /\ d.type = "part"
         THEN /\ completed' = Remember(completed, KeyOf(d))
              /\ completions' = Append(completions, KeyOf(d))
         ELSE UNCHANGED <<completed, completions>>
    /\ UNCHANGED sendVars

\* The caller drops the call, from a select or a timeout, where it waits.
Cancel(k) ==
    /\ rpc[k] # "idle"
    /\ rpc' = [rpc EXCEPT ![k] = "idle"]
    /\ UNCHANGED <<sendVars, received, pending, reassembly, completed, assembled, completions>>

\* REASSEMBLY_TTL passes for the i oldest buffers.
Age(i) ==
    /\ ~reassembly[i].stale
    /\ reassembly' = [j \in DOMAIN reassembly |->
                        IF j <= i THEN [reassembly[j] EXCEPT !.stale = TRUE]
                                  ELSE reassembly[j]]
    /\ UNCHANGED <<sendVars, received, rpc, pending, completed, assembled, completions>>

Next ==
    \/ \E k \in Kinds, len \in Lengths : SendMessage(k, len)
    \/ SendClose
    \/ \E k \in Kinds : Call(k) \/ Lock(k) \/ Cancel(k)
    \/ \E k \in Kinds, d \in OnTheWire : Receive(k, d)
    \/ \E i \in DOMAIN reassembly : Age(i)

Spec == Init /\ [][Next]_vars

-----------------------------------------------------------------------------
(* Properties.                                                              *)

\* Reassembly never mixes messages: whatever the network repeats, drops, reorders or
\* delays past REASSEMBLY_TTL, a message that is put together has exactly the chunks
\* of one message that was sent, all of them, and its kind.
AssembledAsSent ==
    \A a \in assembled : \E n \in DOMAIN sent :
        /\ sent[n].kind = a.kind
        /\ \A i \in DOMAIN a.chunks : a.chunks[i] = n
        /\ DOMAIN a.chunks = 0 .. (IF sent[n].id = 0 THEN 0 ELSE ChunkCount(sent[n].len) - 1)

\* A fragmented message is put together a second time only when its key has left
\* completed_fragments: MAX_COMPLETED_FRAGMENT_KEYS others completed in between.
RepeatedOnlyAfterEviction ==
    \A i, j \in DOMAIN completions :
        i < j /\ completions[i] = completions[j] => j - i > MaxCompleted

\* The receiver that waits for a datagram under recv_lock has no message of its kind
\* parked: it would sleep on a message that has arrived, and later ones would
\* overtake it.
NoReceiverSleepsOnParked ==
    \A k \in Kinds : rpc[k] = "holding" => pending[k] = <<>>

\* Reassembly delivers what was sent, and delivers it once for as long as
\* completed_fragments remembers it.
ReassemblyIsFaithful == AssembledAsSent /\ RepeatedOnlyAfterEviction

=============================================================================
