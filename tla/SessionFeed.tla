---------------------------- MODULE SessionFeed -----------------------------
(***************************************************************************)
(* What a mesh transport promises the packet pump that reads it: the       *)
(* abstract specification of PacketSessions for a host that only ever      *)
(* replaces its default peer, as the Windows service and qlinkd do.        *)
(*                                                                         *)
(* A generation is announced Ready at most once and Cleared at most once   *)
(* per direction, in either order when a shutdown overtakes the            *)
(* announcement.  A lease is given up before it is cleared, and does not   *)
(* come back.  The current session is one whose lease has not been given   *)
(* up, and never an older one than any whose outbound direction has been   *)
(* announced.  Frames carry the generation of the link they came in on,    *)
(* which was announced before, but may be cleared by now.                  *)
(***************************************************************************)
EXTENDS Naturals, Sequences

CONSTANTS
    MaxGeneration,    \* generations drawn in one behaviour
    InboundCapacity   \* capacity of the inbound frame channel (1024)

ASSUME FeedAssumption == MaxGeneration \in Nat /\ InboundCapacity \in Nat \ {0}

Generations == 1 .. MaxGeneration

VARIABLES
    readied,   \* <<d, g>> announced Ready
    cleared,   \* <<d, g>> announced Cleared
    retired,   \* generations whose lease has been taken back or has expired
    current,   \* what default_packet_session answers: a generation, 0 for none
    channel    \* the inbound frame channel: generations

feedVars == <<readied, cleared, retired, current, channel>>

FeedDirections == {"outbound", "inbound"}

FeedInit ==
    /\ readied = {} /\ cleared = {} /\ retired = {}
    /\ current = 0
    /\ channel = <<>>

\* The lease of g becomes what callers see.
Select(g) ==
    /\ g \notin retired
    /\ g # current
    /\ \A h \in Generations : <<"outbound", h>> \in readied => h <= g
    /\ current' = g
    /\ UNCHANGED <<readied, cleared, retired, channel>>

\* The lease of g is taken back, or expires.
Retire(g) ==
    /\ g \notin retired
    /\ retired' = retired \cup {g}
    /\ current' = IF current = g THEN 0 ELSE current
    /\ UNCHANGED <<readied, cleared, channel>>

Ready(g, dirs) ==
    /\ \A d \in dirs : <<d, g>> \notin readied
    /\ "outbound" \in dirs /\ current # 0 => g <= current
    /\ readied' = readied \cup (dirs \X {g})
    /\ UNCHANGED <<cleared, retired, current, channel>>

Clear(g, dirs) ==
    /\ g \in retired
    /\ \A d \in dirs : <<d, g>> \notin cleared
    /\ cleared' = cleared \cup (dirs \X {g})
    /\ UNCHANGED <<readied, retired, current, channel>>

\* A link puts a frame into the inbound channel.
Feed(g) ==
    /\ <<"inbound", g>> \in readied
    /\ Len(channel) < InboundCapacity
    /\ channel' = Append(channel, g)
    /\ UNCHANGED <<readied, cleared, retired, current>>

Take ==
    /\ channel # <<>>
    /\ channel' = Tail(channel)
    /\ UNCHANGED <<readied, cleared, retired, current>>

FeedNext ==
    \/ \E g \in Generations : Select(g) \/ Retire(g) \/ Feed(g)
    \/ \E g \in Generations, dirs \in (SUBSET FeedDirections) \ {{}} :
          Ready(g, dirs) \/ Clear(g, dirs)
    \/ Take

FeedSpec == FeedInit /\ [][FeedNext]_feedVars

=============================================================================
