------------------------------ MODULE ProbeRace ------------------------------
(***************************************************************************)
(* The connector built with the development QUIC carrier                   *)
(* (src/qlink-core/src/mesh_connection.rs, feature dev-quic-carrier): the  *)
(* candidates of a peer are probed in parallel, each paced after the one   *)
(* before, through an ICE check (src/qlink-core/src/ice.rs), the QUIC      *)
(* handshake, the identity assertion and the PQC handshake; the first that *)
(* gets through wins and the rest are aborted, and with none the relays    *)
(* are next.  elapsed is the time since connect began; a timer that is due *)
(* fires before more time passes.                                          *)
(***************************************************************************)
EXTENDS Naturals, FiniteSets, Sequences

CONSTANTS Candidates,   \* the ordered candidates: [valid, holder] each
          Owner,        \* the peer the signed record is about
          Nobody,       \* no ICE responder at an address
          ProbeTimeout, IceTimeout, Deadline, Pacing

VARIABLES ice,      \* has the connector local ICE credentials
          record,   \* the peer record in use: [source, sound, cert], or NoRecord
          store,    \* what the peer store holds for the peer
          probe,    \* probe[i]: [at, started, until] of candidate i's task
          reply,    \* reply[i]: the ICE answer on its way to probe i, or NoReply
          session,  \* session[i]: the carrier session of probe i
          race,     \* "idle", "lookup", "racing", or how the connect went on
          winner,   \* the candidate whose session was returned, or 0
          cached,   \* the candidate of the last good address, or 0
          elapsed

raceVars == <<ice, record, store, probe, reply, session, race, winner, cached, elapsed>>

I == 1..Len(Candidates)
NoRecord == [source |-> "none", sound |-> FALSE, cert |-> FALSE]
NoReply == [class |-> "none", password |-> Nobody, sameTx |-> FALSE]
Waiting == [at |-> "paced", started |-> 0, until |-> 0]
Running == {"ice", "quic", "assertion", "pqc"}
Settled == {"established", "failed", "ice_failed", "timed_out"}

RaceInit ==
    /\ ice \in BOOLEAN
    /\ record = NoRecord /\ race = "idle" /\ winner = 0 /\ cached = 0 /\ elapsed = 0
    /\ store \in {NoRecord, [source |-> "cache", sound |-> TRUE, cert |-> TRUE],
                  [source |-> "cache", sound |-> FALSE, cert |-> TRUE]}
    /\ probe = [i \in I |-> [Waiting EXCEPT !.at = "off"]]
    /\ reply = [i \in I |-> NoReply]
    /\ session = [i \in I |-> "none"]

RemainingBudget(started) ==
    LET own == IF elapsed - started >= ProbeTimeout THEN 0
               ELSE ProbeTimeout - (elapsed - started)
        all == IF elapsed >= Deadline THEN 0 ELSE Deadline - elapsed
    IN  IF own < all THEN own ELSE all

-----------------------------------------------------------------------------
\* The record: fresh from the rendezvous, written through when it verifies;
\* else the stored one.  What is used is verified again, so an expired record
\* out of the store ends the connect, and so does the registry's verdict.
Usable(used, vouched) == used.sound /\ vouched

LookupAnswers(fresh, vouched) ==
    /\ race = "idle"
    /\ LET used == IF fresh = NoRecord THEN store ELSE fresh IN
       /\ store' = IF fresh.sound THEN [fresh EXCEPT !.source = "cache"] ELSE store
       /\ record' = used
       /\ race' = IF Usable(used, vouched) THEN "trusted" ELSE "error"
    /\ UNCHANGED <<ice, probe, reply, session, winner, cached, elapsed>>

\* race_direct_probes up to the spawned tasks: without a published
\* certificate nothing is probed; an address that does not parse is a task
\* that fails at once, without having been launched.
SpawnProbes ==
    /\ race = "trusted"
    /\ race' = "racing"
    /\ probe' = [i \in I |->
         IF ~record.cert THEN [Waiting EXCEPT !.at = "off"]
         ELSE IF ~Candidates[i].valid THEN [Waiting EXCEPT !.at = "failed"]
         ELSE Waiting]
    /\ UNCHANGED <<ice, record, store, reply, session, winner, cached, elapsed>>

Goto(i, at, budget) ==
    probe' = [probe EXCEPT ![i] = IF budget = 0 THEN [@ EXCEPT !.at = "timed_out"]
                                  ELSE [@ EXCEPT !.at = at, !.until = elapsed + budget]]

IceBudget(all) == IF IceTimeout < all THEN IceTimeout ELSE all

\* The pacing sleep is over; past the deadline the probe is not launched.
LaunchProbe(i) ==
    /\ race = "racing" /\ probe[i].at = "paced" /\ elapsed >= Pacing * (i - 1)
    /\ LET all == RemainingBudget(elapsed)
       IN  probe' = [probe EXCEPT ![i] =
             IF elapsed >= Deadline THEN [@ EXCEPT !.at = "timed_out"]
             ELSE [at |-> IF ice THEN "ice" ELSE "quic", started |-> elapsed,
                   until |-> elapsed + (IF ice THEN IceBudget(all) ELSE all)]]
    /\ UNCHANGED <<ice, record, store, reply, session, race, winner, cached, elapsed>>

-----------------------------------------------------------------------------
(***************************************************************************)
(* The ICE check.  The request names the ufrag and is authenticated with   *)
(* the password of the record's owner; the responder authenticates its     *)
(* answer with its own.  Messages are never sent again.                    *)
(***************************************************************************)
\* StunMessage::encode: a class, the transaction and the integrity tag of a
\* password; decode reads the attributes and checks the tag.
encode(class, password, sameTx) ==
    [class |-> class, password |-> password, sameTx |-> sameTx]
Readable(m) == m.class # "cut"
decode(m, password) == Readable(m) /\ m.password = password

\* The request of perform_ice_check: the record owner's ufrag and password.
BindingRequest == encode("request", Owner, TRUE)

\* serve_dev_ice_responder at the candidate's address: a request for another
\* ufrag, or under another password, gets an error answer (send_error).
Answer(i) == LET holder == Candidates[i].holder IN
    IF decode(BindingRequest, holder) THEN "success" ELSE "error"

ResponderAnswers(i) ==
    /\ race = "racing" /\ probe[i].at = "ice" /\ reply[i] = NoReply
    /\ Candidates[i].holder # Nobody
    /\ \E sameTx \in BOOLEAN :
         reply' = [reply EXCEPT ![i] = encode(Answer(i), Candidates[i].holder, sameTx)]
    /\ UNCHANGED <<ice, record, store, probe, session, race, winner, cached, elapsed>>

IceAccepts(m) == decode(m, Owner) /\ m.sameTx /\ m.class = "success"

IceAnswered(i, cut) ==
    /\ race = "racing" /\ probe[i].at = "ice" /\ reply[i] # NoReply
    /\ LET m == IF cut THEN [reply[i] EXCEPT !.class = "cut"] ELSE reply[i] IN
       IF IceAccepts(m) THEN Goto(i, "quic", RemainingBudget(probe[i].started))
       ELSE probe' = [probe EXCEPT ![i].at = "ice_failed"]
    /\ reply' = [reply EXCEPT ![i] = NoReply]
    /\ UNCHANGED <<ice, record, store, session, race, winner, cached, elapsed>>

-----------------------------------------------------------------------------
(***************************************************************************)
(* The session behind the check.  Every failure closes it.                 *)
(***************************************************************************)
Close(i) == session' = [session EXCEPT ![i] = IF @ = "open" THEN "closed" ELSE @]

\* connect_with_trusted_cert: only a holder of the certificate's key answers.
QuicConnected(i) ==
    /\ race = "racing" /\ probe[i].at = "quic" /\ Candidates[i].holder = Owner
    /\ LET left == RemainingBudget(probe[i].started) IN
       /\ Goto(i, "assertion", left)
       /\ session' = [session EXCEPT ![i] = IF left = 0 THEN "closed" ELSE "open"]
    /\ UNCHANGED <<ice, record, store, reply, race, winner, cached, elapsed>>

AssertionSent(i) ==
    /\ race = "racing" /\ probe[i].at = "assertion"
    /\ LET left == RemainingBudget(probe[i].started) IN
       /\ Goto(i, "pqc", left)
       /\ IF left = 0 THEN Close(i) ELSE UNCHANGED session
    /\ UNCHANGED <<ice, record, store, reply, race, winner, cached, elapsed>>

PqcEstablished(i) ==
    /\ race = "racing" /\ probe[i].at = "pqc"
    /\ probe' = [probe EXCEPT ![i].at = "established"]
    /\ UNCHANGED <<ice, record, store, reply, session, race, winner, cached, elapsed>>

\* A stage fails, or its timeout runs out.
ProbeFails(i) ==
    /\ race = "racing" /\ probe[i].at \in {"quic", "assertion", "pqc"}
    /\ probe' = [probe EXCEPT ![i].at = "failed"]
    /\ Close(i)
    /\ UNCHANGED <<ice, record, store, reply, race, winner, cached, elapsed>>

ProbeTimesOut(i) ==
    /\ race = "racing" /\ probe[i].at \in Running /\ elapsed >= probe[i].until
    /\ probe' = [probe EXCEPT ![i].at = IF @ = "ice" THEN "ice_failed" ELSE "timed_out"]
    /\ Close(i)
    /\ UNCHANGED <<ice, record, store, reply, race, winner, cached, elapsed>>

-----------------------------------------------------------------------------
ShutdownRunning(keep) ==
    /\ probe' = [i \in I |-> IF i \in keep \/ probe[i].at \notin Running THEN probe[i]
                             ELSE [probe[i] EXCEPT !.at = "off"]]
    /\ session' = [i \in I |-> IF i \notin keep /\ probe[i].at \in Running /\ session[i] = "open"
                               THEN "closed" ELSE session[i]]
    /\ reply' = [i \in I |-> NoReply]

\* join_set.shutdown: every task still running is aborted, and what it, or a
\* finished task that was not joined, holds is dropped, which closes it.
Shutdown(keep) ==
    /\ probe' = [i \in I |-> IF i \in keep THEN probe[i] ELSE [probe[i] EXCEPT !.at = "off"]]
    /\ session' = [i \in I |-> IF i \notin keep /\ session[i] = "open"
                               THEN "closed" ELSE session[i]]
    /\ reply' = [i \in I |-> NoReply]

LinkMade(i) == race' = "direct" /\ winner' = i /\ cached' = i

\* join_next hands over an established probe: the link is made of it and its
\* address remembered.
JoinWinner(i) ==
    /\ race = "racing" /\ probe[i].at = "established"
    /\ Shutdown({i})
    /\ LinkMade(i)
    /\ UNCHANGED <<ice, record, store, elapsed>>

\* join_next hands over one that failed: it is noted among the attempts.
JoinLoser(i) ==
    /\ race = "racing" /\ probe[i].at \in {"failed", "ice_failed", "timed_out"}
    /\ probe' = [probe EXCEPT ![i].at = "off"]
    /\ UNCHANGED <<ice, record, store, reply, session, race, winner, cached, elapsed>>

\* No task is left, or the race's own deadline fires (which select! may prefer
\* to a probe that has just been established): on to the relays, and the
\* cached address goes when there were candidates.
Exhausted ==
    /\ race = "racing"
    /\ (\A i \in I : probe[i].at = "off") \/ elapsed >= Deadline
    /\ Shutdown({})
    /\ race' = "relay" /\ cached' = IF Candidates = <<>> THEN cached ELSE 0
    /\ UNCHANGED <<ice, record, store, winner, elapsed>>

\* The link or the relay attempt is over and connect is called again.
Again ==
    /\ race \in {"direct", "relay", "error"}
    /\ race' = "idle" /\ elapsed' = 0 /\ winner' = 0 /\ record' = NoRecord
    /\ probe' = [i \in I |-> [Waiting EXCEPT !.at = "off"]]
    /\ session' = [i \in I |-> "none"]
    /\ UNCHANGED <<ice, store, reply, cached>>

TimePasses ==
    /\ race = "racing" /\ elapsed < Deadline
    /\ \A i \in I : /\ probe[i].at \in Running => elapsed < probe[i].until
                    /\ probe[i].at = "paced" => elapsed < Pacing * (i - 1)
                    /\ probe[i].at \notin Settled
    /\ elapsed' = elapsed + 1
    /\ UNCHANGED <<ice, record, store, probe, reply, session, race, winner, cached>>

RaceNext ==
    \/ \E fresh \in {NoRecord} \cup [source : {"live"}, sound : BOOLEAN, cert : BOOLEAN] :
         \E vouched \in BOOLEAN : LookupAnswers(fresh, vouched)
    \/ SpawnProbes \/ Exhausted \/ Again \/ TimePasses
    \/ \E i \in I :
         \/ LaunchProbe(i) \/ ResponderAnswers(i) \/ QuicConnected(i) \/ AssertionSent(i)
         \/ PqcEstablished(i) \/ ProbeFails(i) \/ ProbeTimesOut(i)
         \/ JoinWinner(i) \/ JoinLoser(i)
         \/ \E cut \in BOOLEAN : IceAnswered(i, cut)

RaceSpec == RaceInit /\ [][RaceNext]_raceVars

-----------------------------------------------------------------------------

\* A connect leaves one session behind or none: when it goes on to a link or
\* to the relays every session another probe had opened is closed, also that
\* of a probe which had got through and lost to the winner or to the deadline.
LosersAreClosed ==
    race \in {"direct", "relay"} =>
        \A i \in I : session[i] = "open" <=> i = winner

=============================================================================
