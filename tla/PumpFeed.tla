------------------------------ MODULE PumpFeed ------------------------------
(***************************************************************************)
(* A session feed together with the packet session event channel, as both  *)
(* packet pumps read it: SessionFeed says when leases come, change and go, *)
(* this module to which peer they belong, which directions their links     *)
(* carry, when they expire, and what is written to the channel.            *)
(***************************************************************************)
EXTENDS SessionFeed, PacketCore

CONSTANTS
    Peers,        \* peer ids
    Carries,      \* how a link of the transport may carry: sets of directions
    Overtaking,   \* whether a shutdown may clear a lease before it is announced
    MaxNumber,    \* bound: packet numbers of one generation
    MaxBacklog    \* bound: events waiting in the channel

ASSUME PumpAssumption ==
    /\ Carries \subseteq (SUBSET Directions) \ {{}}
    /\ Overtaking \in BOOLEAN
    /\ MaxNumber \in Nat /\ MaxBacklog \in Nat

VARIABLES
    owner,      \* the peer of each generation
    carries,    \* the directions its link carries
    expired,    \* generations past their lifetime
    events,     \* the packet session event channel
    number      \* the highest packet number received of each generation

sourceVars == <<feedVars, owner, carries, expired, events>>

SourceInit ==
    /\ FeedInit
    /\ owner \in [Generations -> Peers]
    /\ carries \in [Generations -> Carries]
    /\ expired = {}
    /\ events = <<>>
    /\ number = [g \in Generations |-> 0]

Event(kind, dir, g) == [kind |-> kind, dir |-> dir, gen |-> g]

\* The channel gets the outbound event before the inbound one.
Send(kind, dirs, g) ==
    /\ events' = events \o
          (IF "outbound" \in dirs THEN <<Event(kind, "outbound", g)>> ELSE <<>>) \o
          (IF "inbound" \in dirs THEN <<Event(kind, "inbound", g)>> ELSE <<>>)
    /\ Len(events') <= MaxBacklog

\* The lifetime of g is over: an outbound lease of it is not reported any more.
Expire(g) ==
    /\ g \notin expired
    /\ expired' = expired \cup {g}
    /\ IF g = current THEN Retire(g) ELSE UNCHANGED feedVars

\* A responder announces a lease before it can clear it; a shutdown of a session
\* manager can overtake the manager's announcement.
MayClear(g) ==
    \/ carries[g] \X {g} \subseteq readied
    \/ Overtaking /\ "outbound" \in carries[g]

\* A link ends for the directions it carries; the shutdown of a manager clears both.
ClearsOf(g) ==
    IF "outbound" \in carries[g] THEN {carries[g], Directions} ELSE {carries[g]}

\* The bound on packet numbers leaves one for another frame of g.
MayFeed(g) == number[g] + Len(SelectSeq(channel, LAMBDA h : h = g)) < MaxNumber

SourceStep ==
    /\ \E g \in Generations :
        \/ /\ "outbound" \in carries[g] /\ g \notin expired /\ Select(g)
           /\ UNCHANGED <<expired, events>>
        \/ Retire(g) /\ UNCHANGED <<expired, events>>
        \/ Expire(g) /\ UNCHANGED events
        \/ MayFeed(g) /\ Feed(g) /\ UNCHANGED <<expired, events>>
        \/ Ready(g, carries[g]) /\ Send("Ready", carries[g], g) /\ UNCHANGED expired
        \/ \E dirs \in ClearsOf(g) :
              MayClear(g) /\ Clear(g, dirs) /\ Send("Cleared", dirs, g) /\ UNCHANGED expired
    /\ UNCHANGED <<owner, carries, number>>

\* The frame of generation g that is taken now has packet number n.  The link
\* has removed duplicates; within a generation the numbers that arrive grow.
Numbered(g, n) ==
    /\ n > number[g]
    /\ number' = [number EXCEPT ![g] = n]

=============================================================================
