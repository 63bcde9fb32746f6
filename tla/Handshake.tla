------------------------------ MODULE Handshake -----------------------------
(***************************************************************************)
(* The two ML-KEM handshakes of the core, message by message:              *)
(*                                                                         *)
(*   signed  session_crypto.rs: both hellos and the finish are signed with *)
(*           the devices' keys and bound to the context of the session;    *)
(*   bare    crypto.rs: the same exchange without identities, for any of   *)
(*           the three suites.                                             *)
(*                                                                         *)
(* Handshakes run side by side.  A carrier may hand a handshake any        *)
(* message of its type that was ever sent: an old one, one twice, or one   *)
(* of another handshake.  Cryptography is symbolic: nonces and key pairs   *)
(* are fresh (the run that drew them names them), a hash is the tuple of   *)
(* what it absorbs, and a signature verifies for exactly its key and bytes.*)
(***************************************************************************)
EXTENDS Naturals

CONSTANTS
    Devices,      \* device identities
    Initiators,   \* bound: handshakes started
    Responders,   \* bound: handshakes answered
    Carriers,     \* carrier bindings: a certificate, an address or a relay pairing
    Builds        \* PQC_SESSION_VERSION and PQC_SESSION_SUITE of the builds in use

Runs == Initiators \cup Responders

HandshakeAssumption == Initiators \cap Responders = {}

VARIABLES
    key,      \* the DeviceKeypair of a device
    build,    \* the build a device runs
    stage,    \* of a handshake: unused, waiting, done or failed
    owner,    \* the device that runs it
    hello,    \* the initiator hello it sent or answered
    answer,   \* the responder hello it sent or accepted
    keys,     \* the SessionKeys of one that is done
    wire      \* the messages sent so far

handshakeVars == <<key, build, stage, owner, hello, answer, keys, wire>>

None == [type |-> "none"]

-----------------------------------------------------------------------------
(* Device keys and suites.                                                  *)

Suites == {"FIPS203", "FIPS204", "FIPS205"}

\* suite_from_identifier and validate_suite: the identifiers of this version, no other.
Supported(suite) == suite \in Suites

\* QlinkCryptoSuite::device_signature_algorithm
device_signature_algorithm(suite) ==
    IF suite = "FIPS205" THEN "SLH-DSA-SHAKE-128S" ELSE "ML-DSA-65"

\* DeviceKeypair::generate_for_suite, and the public key of the pair it makes.
generate_for_suite(d, suite) ==
    [algorithm |-> device_signature_algorithm(suite), bytes |-> d]

\* Every chunk is absorbed with its length: other chunks, another digest.
shake256_xof(domain, chunks) == <<domain, chunks>>

\* DevicePublicKey::peer_id
peer_id(k) == shake256_xof("peer id", <<k.algorithm, k.bytes>>)

sign(k, message) == [by |-> k, over |-> message]

verify(k, message, signature) == signature = [by |-> k, over |-> message]

\* validate_ml_dsa_public_key: sessions take no other algorithm.
validate_ml_dsa_public_key(k) == k.algorithm = "ML-DSA-65"

ensure_peer_id(k, expected) == peer_id(k) = expected

-----------------------------------------------------------------------------
(* What is signed, hashed and derived.                                      *)

PqcSessionContext(i, r, carrier) ==
    [initiator |-> i, responder |-> r, carrier |-> carrier]

initiator_hello_signing_bytes(suite, context, nonce, k) ==
    <<"initiator_hello", suite, context, nonce, k>>

\* The whole initiator hello is part of what the responder signs.
responder_hello_signing_bytes(ih, suite, context, nonce, ek, k) ==
    <<"responder_hello", ih, suite, context, nonce, ek, k>>

initiator_finish_signing_bytes(ih, rh, ciphertext, hash) ==
    <<"initiator_finish", ih, rh, rh.suite, ciphertext, hash>>

transcript_hash(ih, rh) == <<"transcript", ih, rh>>

\* The same of a bare handshake.
hash_transcript(ih, rh) == shake256_xof("transcript hash", <<ih, rh>>)

\* MlKem768: the run that answers draws the key pair, the run that finishes the secret.
encapsulate(ek, s) == [ek |-> ek, secret |-> s]

\* A ciphertext for another key decapsulates to an unrelated secret, not to an error.
decapsulate(dk, ciphertext) ==
    IF ciphertext.ek = dk THEN ciphertext.secret ELSE <<"implicit rejection", dk, ciphertext>>

one_way_keys(shared, hash, suite, direction) ==
    [tx |-> <<"i2r", suite, shared, hash>>, rx |-> <<"r2i", suite, shared, hash>>]

\* derive_directional_keys: what one end sends under, the other receives under.
derive_directional_keys(shared, hash, suite, direction) ==
    LET i2r == <<"i2r", suite, shared, hash>>
        r2i == <<"r2i", suite, shared, hash>>
    IN  IF direction = "initiator" THEN [tx |-> i2r, rx |-> r2i]
                                   ELSE [tx |-> r2i, rx |-> i2r]

\* derive_directional_keys of crypto.rs, a digest per direction.
bare_directional_keys(shared, hash, suite, direction) ==
    LET i2r == shake256_xof("initiator-to-responder", <<suite, shared, hash>>)
        r2i == shake256_xof("responder-to-initiator", <<suite, shared, hash>>)
    IN  IF direction = "initiator" THEN [tx |-> i2r, rx |-> r2i]
                                   ELSE [tx |-> r2i, rx |-> i2r]

SessionKeys(suite, hash, pair) == [suite |-> suite, handshake_hash |-> hash, pair |-> pair]

\* derive_packet_session_binding: what the transport knows a session by.
derive_packet_session_binding(suite, hash, context, role) ==
    <<"binding", suite, hash, context.initiator, context.responder, role>>

-----------------------------------------------------------------------------
(* The initiator.                                                           *)

HandshakeInit ==
    /\ key \in [Devices -> UNION {{generate_for_suite(d, suite) : suite \in Suites} : d \in Devices}]
    /\ \A d \in Devices : key[d].bytes = d
    /\ build \in [Devices -> Builds]
    /\ stage = [s \in Runs |-> "unused"]
    /\ owner = [s \in Runs |-> None]
    /\ hello = [s \in Runs |-> None]
    /\ answer = [s \in Runs |-> None]
    /\ keys = [s \in Runs |-> None]
    /\ wire = {}

\* A call returned Err: the handshake is dropped and its carrier closed.
Fail(s) ==
    /\ stage' = [stage EXCEPT ![s] = "failed"]
    /\ UNCHANGED <<key, build, owner, hello, answer, keys, wire>>

SendHello(s, d, m) ==
    /\ stage' = [stage EXCEPT ![s] = "waiting"]
    /\ owner' = [owner EXCEPT ![s] = d]
    /\ hello' = [hello EXCEPT ![s] = m]
    /\ wire' = wire \cup {m}
    /\ UNCHANGED <<key, build, answer, keys>>

PqcInitiatorHello(s, d, context) ==
    [type |-> "initiator_hello", kind |-> "signed", suite |-> build[d], context |-> context,
     nonce |-> s, key |-> key[d],
     signature |-> sign(key[d], initiator_hello_signing_bytes(build[d], context, s, key[d]))]

\* start_pqc_session, for the peer of device e.
start_pqc_session(s, d, e, carrier) ==
    LET context == PqcSessionContext(peer_id(key[d]), peer_id(key[e]), carrier)
    IN  /\ stage[s] = "unused"
        /\ IF validate_ml_dsa_public_key(key[d]) /\ ensure_peer_id(key[d], context.initiator)
             THEN SendHello(s, d, PqcInitiatorHello(s, d, context))
             ELSE Fail(s)

\* start_handshake_for_suite; start_handshake is the same with the first suite.
start_handshake_for_suite(s, d, suite) ==
    /\ stage[s] = "unused"
    /\ IF Supported(suite)
         THEN SendHello(s, d, [type |-> "initiator_hello", kind |-> "bare",
                               suite |-> suite, nonce |-> s])
         ELSE Fail(s)

\* Both finishes of the initiator end the same way: the finish is sent, the keys kept.
SendFinish(s, rh, m, pair) ==
    /\ stage' = [stage EXCEPT ![s] = "done"]
    /\ answer' = [answer EXCEPT ![s] = rh]
    /\ keys' = [keys EXCEPT ![s] = SessionKeys(rh.suite, m.hash, pair)]
    /\ wire' = wire \cup {m}
    /\ UNCHANGED <<key, build, owner, hello>>

\* validate_responder_hello
validate_responder_hello(ih, rh, mine) ==
    /\ rh.suite = mine /\ rh.suite = ih.suite
    /\ rh.context = ih.context
    /\ validate_ml_dsa_public_key(rh.key)
    /\ ensure_peer_id(rh.key, ih.context.responder)

PqcInitiatorFinish(s, rh) ==
    LET hash == transcript_hash(hello[s], rh)
        ciphertext == encapsulate(rh.ek, s)
    IN  [type |-> "finish", kind |-> "signed", suite |-> rh.suite, ciphertext |-> ciphertext,
         hash |-> hash,
         signature |-> sign(key[owner[s]],
                            initiator_finish_signing_bytes(hello[s], rh, ciphertext, hash))]

\* PqcInitiatorState::finish
pqc_initiator_finish(s, rh) ==
    /\ stage[s] = "waiting" /\ hello[s].kind = "signed"
    /\ rh \in wire /\ rh.type = "responder_hello" /\ rh.kind = "signed"
    /\ IF /\ validate_responder_hello(hello[s], rh, build[owner[s]])
          /\ validate_ml_dsa_public_key(key[owner[s]])
          /\ key[owner[s]] = hello[s].key
          /\ verify(rh.key,
                    responder_hello_signing_bytes(hello[s], rh.suite, rh.context, rh.nonce,
                                                  rh.ek, rh.key),
                    rh.signature)
         THEN SendFinish(s, rh, PqcInitiatorFinish(s, rh),
                  derive_directional_keys(s, transcript_hash(hello[s], rh), rh.suite,
                                          "initiator"))
         ELSE Fail(s)

InitiatorFinish(s, rh) ==
    [type |-> "finish", kind |-> "bare", suite |-> rh.suite,
     ciphertext |-> encapsulate(rh.ek, s), hash |-> hash_transcript(hello[s], rh)]

\* InitiatorState::finish, where nothing ties the responder hello to this handshake.
bare_initiator_finish(s, rh) ==
    /\ stage[s] = "waiting" /\ hello[s].kind = "bare"
    /\ rh \in wire /\ rh.type = "responder_hello" /\ rh.kind = "bare"
    /\ IF Supported(rh.suite) /\ rh.suite = hello[s].suite
         THEN SendFinish(s, rh, InitiatorFinish(s, rh),
                  bare_directional_keys(s, hash_transcript(hello[s], rh), rh.suite,
                                        "initiator"))
         ELSE Fail(s)

-----------------------------------------------------------------------------
(* The responder.                                                           *)

SendAnswer(s, d, ih, m) ==
    /\ stage' = [stage EXCEPT ![s] = "waiting"]
    /\ owner' = [owner EXCEPT ![s] = d]
    /\ hello' = [hello EXCEPT ![s] = ih]
    /\ answer' = [answer EXCEPT ![s] = m]
    /\ wire' = wire \cup {m}
    /\ UNCHANGED <<key, build, keys>>

PqcResponderHello(s, d, ih, context) ==
    [type |-> "responder_hello", kind |-> "signed", suite |-> build[d], context |-> context,
     nonce |-> s, ek |-> s, key |-> key[d],
     signature |-> sign(key[d],
         responder_hello_signing_bytes(ih, build[d], context, s, s, key[d]))]

\* answer_pqc_session.  The context is the responder's own: the peer that asserted its
\* identity on this carrier, itself, and the carrier.
answer_pqc_session(s, d, e, carrier, ih) ==
    LET context == PqcSessionContext(peer_id(key[e]), peer_id(key[d]), carrier)
    IN  /\ stage[s] = "unused"
        /\ ih \in wire /\ ih.type = "initiator_hello" /\ ih.kind = "signed"
        /\ IF /\ ih.suite = build[d]
              /\ ih.context = context
              /\ validate_ml_dsa_public_key(ih.key)
              /\ ensure_peer_id(ih.key, context.initiator)
              /\ verify(ih.key,
                        initiator_hello_signing_bytes(ih.suite, ih.context, ih.nonce, ih.key),
                        ih.signature)
              /\ validate_ml_dsa_public_key(key[d])
              /\ ensure_peer_id(key[d], context.responder)
             THEN SendAnswer(s, d, ih, PqcResponderHello(s, d, ih, context))
             ELSE Fail(s)

\* answer_handshake
answer_handshake(s, d, ih) ==
    /\ stage[s] = "unused"
    /\ ih \in wire /\ ih.type = "initiator_hello" /\ ih.kind = "bare"
    /\ IF Supported(ih.suite)
         THEN SendAnswer(s, d, ih, [type |-> "responder_hello", kind |-> "bare",
                                    suite |-> ih.suite, nonce |-> s, ek |-> s])
         ELSE Fail(s)

Establish(s, hash, pair) ==
    /\ stage' = [stage EXCEPT ![s] = "done"]
    /\ keys' = [keys EXCEPT ![s] = SessionKeys(answer[s].suite, hash, pair)]
    /\ UNCHANGED <<key, build, owner, hello, answer, wire>>

\* PqcResponderState::finish
pqc_responder_finish(s, m) ==
    LET hash == transcript_hash(hello[s], answer[s])
    IN  /\ stage[s] = "waiting" /\ hello[s].kind = "signed"
        /\ m \in wire /\ m.type = "finish" /\ m.kind = "signed"
        /\ IF /\ m.suite = build[owner[s]] /\ m.suite = answer[s].suite
              /\ m.hash = hash
              /\ verify(hello[s].key,
                        initiator_finish_signing_bytes(hello[s], answer[s], m.ciphertext, m.hash),
                        m.signature)
             THEN Establish(s, hash,
                      derive_directional_keys(decapsulate(answer[s].ek, m.ciphertext), hash,
                                              answer[s].suite, "responder"))
             ELSE Fail(s)

\* ResponderState::finish, called with the initiator hello that was answered.
bare_responder_finish(s, m) ==
    LET hash == hash_transcript(hello[s], answer[s])
    IN  /\ stage[s] = "waiting" /\ hello[s].kind = "bare"
        /\ m \in wire /\ m.type = "finish" /\ m.kind = "bare"
        /\ IF /\ Supported(m.suite)
              /\ hello[s].suite = answer[s].suite /\ m.suite = answer[s].suite
              /\ m.hash = hash
             THEN Establish(s, hash,
                      bare_directional_keys(decapsulate(answer[s].ek, m.ciphertext), hash,
                                            answer[s].suite, "responder"))
             ELSE Fail(s)

-----------------------------------------------------------------------------
InitiatorStep(s) ==
    \/ \E d, e \in Devices, c \in Carriers : start_pqc_session(s, d, e, c)
    \/ \E d \in Devices, suite \in Suites \cup {"HYBRID-X25519"} :
          start_handshake_for_suite(s, d, suite)
    \/ \E rh \in wire : pqc_initiator_finish(s, rh)
    \/ \E rh \in wire : bare_initiator_finish(s, rh)

ResponderStep(s) ==
    \/ \E d, e \in Devices, c \in Carriers, ih \in wire : answer_pqc_session(s, d, e, c, ih)
    \/ \E d \in Devices, ih \in wire : answer_handshake(s, d, ih)
    \/ \E m \in wire : pqc_responder_finish(s, m)
    \/ \E m \in wire : bare_responder_finish(s, m)

HandshakeNext ==
    \/ \E s \in Initiators : InitiatorStep(s)
    \/ \E s \in Responders : ResponderStep(s)

HandshakeSpec == HandshakeInit /\ [][HandshakeNext]_handshakeVars

-----------------------------------------------------------------------------
(* Properties                                                               *)

\* The two ends of one handshake: the same hellos, each under the other's keys.
Paired(i, r) ==
    /\ hello[i] = hello[r] /\ answer[i] = answer[r]
    /\ keys[i].suite = keys[r].suite
    /\ keys[i].handshake_hash = keys[r].handshake_hash
    /\ keys[i].pair.tx = keys[r].pair.rx /\ keys[i].pair.rx = keys[r].pair.tx

\* A responder that ends a handshake with keys (PqcResponderState::finish,
\* ResponderState::finish) holds the keys of exactly one initiator, which ended the
\* same handshake; no late, repeated or foreign finish gives it others.
EstablishedAgree ==
    \A r \in Responders : stage[r] = "done" =>
        \E i \in Initiators :
            /\ stage[i] = "done" /\ Paired(i, r)
            /\ \A j \in Initiators \ {i} : stage[j] = "done" => ~Paired(j, r)

\* An initiator that ends a signed handshake (PqcInitiatorState::finish) was answered by
\* a handshake that the device it meant to reach ran for this very hello, on the same
\* carrier: a responder hello of another handshake is refused.
InitiatorHasItsResponder ==
    \A i \in Initiators : (stage[i] = "done" /\ hello[i].kind = "signed") =>
        \E r \in Responders :
            /\ hello[r] = hello[i] /\ answer[r] = answer[i]
            /\ peer_id(key[owner[r]]) = hello[i].context.responder

Role(s) == IF s \in Initiators THEN "initiator" ELSE "responder"

PacketSessionBinding(s) ==
    derive_packet_session_binding(keys[s].suite, keys[s].handshake_hash, hello[s].context, Role(s))

\* The packet session binding names one end of one handshake: a session that replaces
\* another between the same peers never has the binding of the one it replaces.
BindingNamesOneSession ==
    \A s, t \in Runs :
        /\ s # t /\ stage[s] = "done" /\ stage[t] = "done"
        /\ hello[s].kind = "signed" /\ hello[t].kind = "signed"
        => PacketSessionBinding(s) # PacketSessionBinding(t)

\* The two ends of a handshake agree, whatever hello or finish was late, repeated or of
\* another handshake: on the keys, on each other, and on a binding that is theirs alone.
HandshakesAgree == EstablishedAgree /\ InitiatorHasItsResponder /\ BindingNamesOneSession

=============================================================================
