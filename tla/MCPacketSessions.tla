-------------------------- MODULE MCPacketSessions --------------------------
(* Instances of PacketSessions, and its refinement of SessionFeed.          *)
EXTENDS PacketSessions

\* A transport whose caller only ever replaces the default peer, as the Windows
\* service does when the user configures another peer.
ReplaceOnly ==
    \/ \E m \in Managers : ManagerStep(m)
    \/ \E i \in InboundIds : InboundStep(i)
    \/ \E p \in Peers : ReplaceDefaultPeer(p)
    \/ ShutdownStep \/ ReassignDefault \/ AddReplacement
    \/ TakeFrame

ReplaceSpec == Init /\ [][ReplaceOnly]_vars

FairReplaceSpec == ReplaceSpec /\ Fairness

\* The lease of g is published and unexpired, or about to be published.
Held(g) ==
    \E m \in Managers :
        gen[m] = g /\ (pc[m] = "connected" \/ (lease[m] = g /\ ~expired[m]))

SessionFeedOf == INSTANCE SessionFeed WITH
    cleared <- {dg \in Directions \X Generations : clears[dg[1]][dg[2]] > 0},
    retired <- {g \in 1 .. counter : ~Held(g)},
    current <- DefaultPacketSession,
    channel <- [i \in DOMAIN frames |-> frames[i].gen]

\* The session managers, the responder tasks and the transport handle together
\* behave as the session feed the packet pumps are built on: what the pumps see
\* of leases, events and frames is never more than SessionFeed allows.
ImplementsSessionFeed == SessionFeedOf!FeedSpec

=============================================================================
