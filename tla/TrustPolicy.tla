---------------------------- MODULE TrustPolicy -----------------------------
(***************************************************************************)
(* The decisions about a peer's identity: the checks on its signed record  *)
(* and on its inbound assertion, the two registry bindings (qlink-core/src *)
(* dytallix_identity.rs, dytallix_identity_v2.rs, inbound_identity.rs,     *)
(* peer_acl.rs), and the dispatch between them (mesh_connection.rs).       *)
(*                                                                         *)
(* A peer id is the hash of a device key, so the key stands for both.      *)
(* "signed" says that the signature and the derived peer id check out.     *)
(***************************************************************************)
EXTENDS Integers

CONSTANT None

\* deny wins over allow; without a list everybody is allowed.
EvaluateAcl(acl, peer) ==
    /\ peer \notin acl.deny
    /\ acl.allow = None \/ peer \in acl.allow

VerifyRecord(rec, mesh, now) ==
    /\ rec.mesh = mesh
    /\ rec.issued # 0 => rec.expires > rec.issued
    /\ rec.expires > now
    /\ rec.signed

SaturatingSub(a, b) == IF a > b THEN a - b ELSE 0

VerifyAssertion(a, mesh, maxAge, now) ==
    /\ a.mesh = mesh
    /\ SaturatingSub(now, a.at) <= maxAge
    /\ a.at <= now + maxAge
    /\ a.signed

\* Crypto first, then the access list.
EvaluateInbound(a, mesh, maxAge, acl, now) ==
    VerifyAssertion(a, mesh, maxAge, now) /\ EvaluateAcl(acl, a.key)

ActiveAndUnexpired(reg, now) ==
    /\ reg.status = "active"
    /\ reg.expires = None \/ reg.expires > now

WithoutRegistry(policy) ==
    CASE policy = "public" -> "error"
      [] policy = "private" -> "accepted_private"
      [] policy = "development" -> "accepted_development"

\* Version 1 binds the exact record that is published.
VerifyRegistryBinding(rec, reg, policy, now) ==
    IF ~rec.signed \/ rec.expires <= now THEN "error"
    ELSE IF reg = None THEN WithoutRegistry(policy)
    ELSE IF ActiveAndUnexpired(reg, now) /\ reg.key = rec.key /\ reg.record = rec.seq
    THEN "accepted" ELSE "error"

VerifyInboundAssertion(a, reg, policy, now) ==
    IF reg = None THEN WithoutRegistry(policy)
    ELSE IF ActiveAndUnexpired(reg, now) /\ reg.key = a.key
    THEN "accepted" ELSE "error"

InScope(reg, mesh) == reg.scope = None \/ reg.scope = mesh

\* Version 2 binds the device and bounds the lifetime of its records.
VerifyStableBinding(rec, reg, now) ==
    IF /\ rec.signed /\ rec.expires > now
       /\ reg # None
       /\ ActiveAndUnexpired(reg, now)
       /\ rec.issued # 0
       /\ reg.key = rec.key
       /\ InScope(reg, rec.mesh)
       /\ rec.expires > rec.issued
       /\ rec.expires - rec.issued <= reg.maxTtl
    THEN "accepted" ELSE "error"

VerifyStableInboundBinding(a, reg, mesh, maxAge, now) ==
    IF /\ VerifyAssertion(a, mesh, maxAge, now)
       /\ reg # None
       /\ ActiveAndUnexpired(reg, now)
       /\ reg.key = a.key
       /\ InScope(reg, a.mesh)
    THEN "accepted" ELSE "error"

\* A private or development mesh goes on without a record, never against one.
ExcusedAlways(decision, reg, policy) ==
    IF decision = "error" THEN WithoutRegistry(policy) ELSE decision

Excused(decision, reg, policy) ==
    IF decision = "error" /\ policy # "public" /\ reg = None
    THEN WithoutRegistry(policy) ELSE decision

VerifyLookupBinding(rec, reg, version, policy, now) ==
    IF reg # None /\ reg.version # version THEN "error"
    ELSE IF version = 1 THEN VerifyRegistryBinding(rec, reg, policy, now)
    ELSE Excused(VerifyStableBinding(rec, reg, now), reg, policy)

VerifyInboundLookupBinding(a, reg, version, policy, mesh, maxAge, now) ==
    IF reg # None /\ reg.version # version THEN "error"
    ELSE IF version = 1 THEN VerifyInboundAssertion(a, reg, policy, now)
    ELSE Excused(VerifyStableInboundBinding(a, reg, mesh, maxAge, now), reg, policy)

=============================================================================
