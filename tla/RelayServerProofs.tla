------------------------- MODULE RelayServerProofs --------------------------
(***************************************************************************)
(* For any number of connections, peer ids and tokens: what the relay      *)
(* server holds under the id of a client it serves is that client's own.   *)
(*                                                                         *)
(* The entry of a peer is made while its task holds the peers mutex, after *)
(* a test that was made under the same mutex, and it is removed by the     *)
(* task that made it.  The invariant says so: it extends the entry's       *)
(* lifetime to the end of the registration (Linked), and it ties the free  *)
(* id of a registration under way to the mutex (Granting).                 *)
(***************************************************************************)
EXTENDS RelayServer, TLAPS

Requests == [peer : Peers, token : Tokens \cup {None}]

\* Each connection's task is at a place, and the maps are from peer ids.
TypeOK ==
    /\ pc \in [Conns -> {"new", "closed"} \cup Serving \cup Ending]
    /\ request \in [Conns -> Requests \cup {None}]
    /\ reg \in [Conns -> Peers \cup {None}]
    /\ token \in [Conns -> Tokens \cup {None}]
    /\ writer \in [Conns -> BOOLEAN]
    /\ peers \in [Peers -> Conns \cup {None}]
    /\ digests \in [Peers -> Tokens \cup {None}]
    /\ buckets \in [Peers -> Nat \cup {None}]
    /\ lock \in Conns \cup {None}
    /\ gone \subseteq Conns
    /\ expected \in Tokens /\ revoked \subseteq Tokens /\ listed \in BOOLEAN

\* The places where a task holds the peers mutex.
Locked == {"granting", "forwarding"}

\* The task of c inside the mutex is the one that holds it.
HoldsMutex(c) == pc[c] \in Locked => lock = c

\* A client that still owns its writer has never registered, nor has one whose
\* registration is under way.  A request names a peer id for as long as it is handled.
Handles(c) ==
    /\ writer[c] \/ pc[c] \in {"new", "admitted", "granting"} => reg[c] = None
    /\ pc[c] = "granting" => ~writer[c]
    /\ pc[c] \in {"checked", "counted", "forwarding"} \cup Ending => reg[c] # None
    /\ pc[c] \in {"admitted", "granting", "checked", "counted", "forwarding"}
          => request[c] \in Requests

\* The id that is being granted to c is free.
Granting(c) == pc[c] = "granting" => peers[request[c].peer] = None

\* A registration has its entry until its task removes it, and a digest under the
\* same id is its own.
Linked(c) ==
    pc[c] \in Serving \cup {"unlink"} /\ reg[c] # None =>
        peers[reg[c]] = c /\ digests[reg[c]] \in {token[c], None}

Safe(c) == HoldsMutex(c) /\ Handles(c) /\ Granting(c) /\ Linked(c)

\* The inductive invariant.
IInv == TypeOK /\ \A c \in Conns : Safe(c)

\* RelayServer starts with no connection accepted and nothing registered.
LEMMA InitHolds == Init => IInv
BY RelayAssumption DEF Init, IInv, TypeOK, Safe, HoldsMutex, Handles, Granting, Linked,
       Serving, Ending, Locked

\* Every step of the server keeps its variables in their types.
LEMMA TypeStep ==
    ASSUME IInv, [Next]_vars
    PROVE  TypeOK'
<1>a. TypeOK /\ \A c \in Conns : Handles(c)
  BY Zenon DEF IInv, Safe
<1> USE <1>a DEF Serving, Ending, registry, files, Goto, Leave
<1>1. ASSUME NEW c \in Conns, AcceptConnection(c) \/ Disconnect(c) \/ ClientLeaves(c)
      PROVE  TypeOK'
  BY <1>1 DEF TypeOK, AcceptConnection, Disconnect, ClientLeaves
<1>2. ASSUME NEW c \in Conns, LockForRegister(c)
      PROVE  TypeOK'
  BY <1>2 DEF TypeOK, LockForRegister
<1>3. ASSUME NEW c \in Conns, Grant(c)
      PROVE  TypeOK'
  <2>1. request[c] \in Requests
    BY Zenon, <1>3 DEF Grant, Handles
  <2> QED BY Zenon, <1>3, <2>1 DEF TypeOK, Grant, Requests
<1>4. ASSUME NEW c \in Conns, GrantFails(c)
      PROVE  TypeOK'
  BY Zenon, <1>4 DEF TypeOK, GrantFails
<1>5. ASSUME NEW c \in Conns, Count(c)
      PROVE  TypeOK'
  <2>1. reg[c] \in Peers
    BY Zenon, <1>5 DEF Count, Handles, TypeOK
  <2> DEFINE used == IF buckets[reg[c]] = None THEN 0 ELSE buckets[reg[c]]
  <2>2. used \in Nat /\ used + 1 \in Nat
    BY <2>1 DEF TypeOK
  <2> HIDE DEF used
  <2>3. buckets' \in [Peers -> Nat \cup {None}]
    BY <1>5, <2>1, <2>2 DEF TypeOK, Count, used
  <2> QED BY Zenon, <1>5, <2>3 DEF TypeOK, Count
<1>6. ASSUME NEW c \in Conns, LockForForward(c) \/ Forward(c) \/ ForwardFails(c)
      PROVE  TypeOK'
  <2>1. CASE LockForForward(c)
    BY <2>1 DEF TypeOK, LockForForward
  <2>2. CASE Forward(c) \/ ForwardFails(c)
    BY <2>2 DEF TypeOK, Forward, ForwardFails
  <2> QED BY Zenon, <1>6, <2>1, <2>2
<1>7. ASSUME NEW c \in Conns, Unlink(c) \/ Forget(c) \/ Release(c)
      PROVE  TypeOK'
  <2>1. CASE Unlink(c)
    BY Zenon, <2>1 DEF TypeOK, Unlink
  <2>2. CASE Forget(c)
    BY Zenon, <2>2 DEF TypeOK, Forget
  <2>3. CASE Release(c)
    BY Zenon, <2>3 DEF TypeOK, Release
  <2> QED BY Zenon, <1>7, <2>1, <2>2, <2>3
<1>8. ASSUME NEW c \in Conns, NEW p \in Peers, NEW t \in Tokens, Register(c, p, t)
      PROVE  TypeOK'
  BY <1>8 DEF TypeOK, Register, Requests
<1>9. ASSUME NEW c \in Conns, NEW q \in Peers, Datagram(c, q)
      PROVE  TypeOK'
  BY <1>9 DEF TypeOK, Datagram, Requests
<1>10. ASSUME NEW p \in Peers, WindowPasses(p)
       PROVE  TypeOK'
  BY Zenon, <1>10 DEF TypeOK, WindowPasses
<1>11. ASSUME NEW t \in Tokens, RotateToken(t) \/ RevokeToken(t)
       PROVE  TypeOK'
  BY Zenon, <1>11 DEF TypeOK, RotateToken, RevokeToken
<1>12. CASE ReplaceList
  BY Zenon, <1>12 DEF TypeOK, ReplaceList
<1>13. CASE UNCHANGED vars
  BY Zenon, <1>13 DEF TypeOK, vars
<1> QED
  BY Zenon, <1>1, <1>2, <1>3, <1>4, <1>5, <1>6, <1>7, <1>8, <1>9, <1>10, <1>11, <1>12, <1>13
     DEF Next, Task

\* What the invariant says of a connection is kept by steps of other tasks that leave
\* the entries of the maps alone, and take or release the mutex as it allows.
Untouched(d) ==
    /\ pc'[d] = pc[d] /\ request'[d] = request[d] /\ reg'[d] = reg[d]
    /\ token'[d] = token[d] /\ writer'[d] = writer[d]

\* A connection that a step does not touch stays safe when the maps stay.
LEMMA OthersKept ==
    ASSUME NEW d \in Conns, Safe(d), Untouched(d), UNCHANGED <<peers, digests>>,
           lock' = lock \/ pc[d] \notin Locked
    PROVE  Safe(d)'
BY Zenon DEF Safe, HoldsMutex, Handles, Granting, Linked, Untouched

\* A step of c touches no other connection.
LEMMA StepOfOne ==
    ASSUME IInv, NEW c \in Conns, NEW d \in Conns, d # c,
           \/ AcceptConnection(c) \/ Disconnect(c) \/ ClientLeaves(c) \/ Task(c)
           \/ \E p \in Peers, t \in Tokens : Register(c, p, t)
           \/ \E q \in Peers : Datagram(c, q)
    PROVE  Untouched(d)
<1>1. TypeOK
  BY Zenon DEF IInv
<1> USE <1>1 DEF TypeOK, Untouched, Goto, Leave
<1>2. CASE AcceptConnection(c) \/ Disconnect(c) \/ ClientLeaves(c)
  BY Zenon, <1>2 DEF AcceptConnection, Disconnect, ClientLeaves
<1>3. CASE LockForRegister(c) \/ Grant(c) \/ GrantFails(c)
  BY Zenon, <1>3 DEF LockForRegister, Grant, GrantFails
<1>4. CASE Count(c) \/ LockForForward(c) \/ Forward(c) \/ ForwardFails(c)
  BY Zenon, <1>4 DEF Count, LockForForward, Forward, ForwardFails
<1>5. CASE Unlink(c) \/ Forget(c) \/ Release(c)
  BY Zenon, <1>5 DEF Unlink, Forget, Release
<1>6. CASE \E p \in Peers, t \in Tokens : Register(c, p, t)
  BY Zenon, <1>6 DEF Register
<1>7. CASE \E q \in Peers : Datagram(c, q)
  BY <1>7 DEF Datagram
<1> QED BY Zenon, <1>2, <1>3, <1>4, <1>5, <1>6, <1>7 DEF Task

\* Every step of the server keeps every connection safe.
LEMMA SafetyStep ==
    ASSUME IInv, TypeOK', [Next]_vars, NEW d \in Conns
    PROVE  Safe(d)'
<1>t. TypeOK /\ None \notin Conns \cup Peers \cup Tokens /\ \A c \in Conns : Safe(c)
  BY Zenon, RelayAssumption DEF IInv
<1> USE <1>t
<1>1. ASSUME NEW c \in Conns, AcceptConnection(c) \/ Disconnect(c) \/ ClientLeaves(c)
      PROVE  Safe(d)'
  <2>1. UNCHANGED <<request, reg, token, writer, peers, digests, lock>>
    BY Zenon, <1>1 DEF AcceptConnection, Disconnect, ClientLeaves, registry
  <2>2. CASE d = c
    <3>1. \/ pc'[c] = pc[c]
          \/ pc[c] = "new" /\ pc'[c] \in {"open", "closed"}
          \/ pc[c] = "open" /\ pc'[c] = (IF reg[c] = None THEN "closed" ELSE "unlink")
      BY <1>1 DEF AcceptConnection, Disconnect, ClientLeaves, Goto, Leave, TypeOK
    <3> QED BY Zenon, <2>1, <2>2, <3>1
            DEF Safe, HoldsMutex, Handles, Granting, Linked, Serving,
                                    Ending, Locked
  <2>3. CASE d # c
    BY Zenon, <1>1, <2>1, <2>3, StepOfOne, OthersKept
  <2> QED BY Zenon, <2>2, <2>3
<1>2. ASSUME NEW c \in Conns, LockForRegister(c)
      PROVE  Safe(d)'
  <2>1. UNCHANGED <<reg, token, peers, digests>> /\ lock = None /\ pc[c] = "admitted"
    BY Zenon, <1>2 DEF LockForRegister, registry
  <2>2. CASE d = c
    <3>1. reg[c] = None
      BY Zenon, <2>1 DEF Safe, Handles
    <3>2. ~writer'[c]
      BY <1>2 DEF LockForRegister, TypeOK
    <3>3. CASE Refused(request[c].peer)
      <4>1. pc'[c] = "closed"
        BY <1>2, <3>1, <3>3 DEF LockForRegister, Goto, Leave, TypeOK
      <4> QED BY Zenon, <2>1, <2>2, <3>1, <3>2, <4>1
              DEF Safe, HoldsMutex, Handles, Granting,
                 Linked, Serving, Ending, Locked
    <3>4. CASE ~Refused(request[c].peer)
      <4>1. pc'[c] = "granting" /\ lock' = c /\ request' = request
        BY <1>2, <3>4 DEF LockForRegister, Goto, TypeOK
      <4>2. request[c] \in Requests /\ peers[request[c].peer] = None
        BY Zenon, <2>1, <3>4 DEF Safe, Handles, Refused
      <4> QED BY Zenon, <2>1, <2>2, <3>1, <3>2, <4>1, <4>2 DEF Safe, HoldsMutex, Handles,
                 Granting, Linked, Serving, Ending, Locked
    <3> QED BY Zenon, <3>3, <3>4
  <2>3. CASE d # c
    <3>1. pc[d] \notin Locked
      BY Zenon, <2>1 DEF Safe, HoldsMutex
    <3> QED BY Zenon, <1>2, <2>1, <2>3, <3>1, StepOfOne, OthersKept DEF Task
  <2> QED BY <2>2, <2>3
<1>3. ASSUME NEW c \in Conns, Grant(c)
      PROVE  Safe(d)'
  <2> DEFINE p == request[c].peer
  <2>1. pc[c] = "granting" /\ request[c] \in Requests /\ p \in Peers
    BY Zenon, <1>3 DEF Grant, Safe, Handles, Requests
  <2>2. lock = c /\ peers[p] = None /\ reg[c] = None
    BY Zenon, <2>1 DEF Safe, HoldsMutex, Granting, Handles, Locked
  <2>3. /\ peers'[p] = c /\ digests'[p] = request[c].token
        /\ \A q \in Peers \ {p} : peers'[q] = peers[q] /\ digests'[q] = digests[q]
    BY <1>3, <2>1 DEF Grant, TypeOK
  <2>4. CASE d = c
    <3>1. /\ pc'[c] = "open" /\ reg'[c] = p /\ token'[c] = request[c].token
          /\ writer' = writer
      BY <1>3 DEF Grant, Goto, TypeOK
    <3>2. ~writer[c]
      BY Zenon, <2>1 DEF Safe, Handles
    <3> QED BY Zenon, <2>1, <2>3, <2>4, <3>1, <3>2 DEF Safe, HoldsMutex, Handles, Granting,
               Linked, Serving, Ending, Locked
  <2>5. CASE d # c
    <3>1. Untouched(d)
      BY Zenon, <1>3, <2>5, StepOfOne DEF Task
    <3>2. pc[d] \notin Locked
      BY Zenon, <2>2, <2>5 DEF Safe, HoldsMutex
    <3>3. pc[d] \in Serving \cup {"unlink"} /\ reg[d] # None => reg[d] \in Peers \ {p}
      BY <2>2 DEF Safe, Linked, TypeOK
    <3> QED BY <2>3, <3>1, <3>2, <3>3 DEF Safe, HoldsMutex, Handles, Granting, Linked,
               Untouched, Locked
  <2> QED BY <2>4, <2>5
<1>4. ASSUME NEW c \in Conns, GrantFails(c) \/ Forward(c) \/ ForwardFails(c)
      PROVE  Safe(d)'
  <2>1. /\ UNCHANGED <<reg, token, writer, peers, digests>>
        /\ pc[c] \in Locked /\ lock = c /\ lock' = None
    BY Zenon, <1>4 DEF GrantFails, Forward, ForwardFails, registry, Locked, Safe, HoldsMutex
  <2>2. CASE d = c
    <3>1. \/ pc'[c] = "closed"
          \/ pc[c] = "forwarding" /\ pc'[c] = "open"
      BY <1>4 DEF GrantFails, Forward, ForwardFails, Goto, TypeOK
    <3> QED BY Zenon, <2>1, <2>2, <3>1
            DEF Safe, HoldsMutex, Handles, Granting, Linked, Serving,
                                    Ending, Locked
  <2>3. CASE d # c
    <3>1. pc[d] \notin Locked
      BY Zenon, <2>1, <2>3 DEF Safe, HoldsMutex
    <3> QED BY Zenon, <1>4, <2>1, <2>3, <3>1, StepOfOne, OthersKept DEF Task
  <2> QED BY <2>2, <2>3
<1>5. ASSUME NEW c \in Conns, Count(c)
      PROVE  Safe(d)'
  <2>1. UNCHANGED <<reg, token, writer, peers, digests, lock>> /\ pc[c] = "checked"
    BY Zenon, <1>5 DEF Count
  <2>2. CASE d = c
    <3>1. reg[c] # None
      BY Zenon, <2>1 DEF Safe, Handles
    <3>2. \/ pc'[c] = "unlink"
          \/ pc'[c] = "counted" /\ request' = request
      BY <1>5, <3>1 DEF Count, Goto, Leave, TypeOK
    <3> QED BY Zenon, <2>1, <2>2, <3>1, <3>2
            DEF Safe, HoldsMutex, Handles, Granting, Linked,
               Serving, Ending, Locked
  <2>3. CASE d # c
    BY Zenon, <1>5, <2>1, <2>3, StepOfOne, OthersKept DEF Task
  <2> QED BY <2>2, <2>3
<1>6. ASSUME NEW c \in Conns, LockForForward(c)
      PROVE  Safe(d)'
  <2>1. /\ UNCHANGED <<reg, token, writer, peers, digests>>
        /\ pc[c] = "counted" /\ lock = None
    BY Zenon, <1>6 DEF LockForForward, registry
  <2>2. CASE d = c
    <3>1. \/ pc'[c] = "open"
          \/ pc'[c] = "forwarding" /\ request' = request /\ lock' = c
      BY <1>6 DEF LockForForward, Goto, TypeOK
    <3> QED BY Zenon, <2>1, <2>2, <3>1
            DEF Safe, HoldsMutex, Handles, Granting, Linked, Serving,
                                    Ending, Locked
  <2>3. CASE d # c
    <3>1. pc[d] \notin Locked
      BY Zenon, <2>1 DEF Safe, HoldsMutex
    <3> QED BY Zenon, <1>6, <2>1, <2>3, <3>1, StepOfOne, OthersKept DEF Task
  <2> QED BY <2>2, <2>3
<1>7. ASSUME NEW c \in Conns, Unlink(c) \/ Forget(c) \/ Release(c)
      PROVE  Safe(d)'
  <2>1. /\ UNCHANGED <<request, reg, token, writer, lock>>
        /\ pc[c] \in Ending
    BY Zenon, <1>7 DEF Unlink, Forget, Release, Ending
  <2>2. reg[c] \in Peers
    BY Zenon, <2>1 DEF Safe, Handles, TypeOK
  <2>3. CASE d = c
    <3>1. pc'[c] \in {"forget", "release", "closed"}
      BY <1>7 DEF Unlink, Forget, Release, Goto, TypeOK
    <3> QED BY Zenon, <2>1, <2>3, <3>1
            DEF Safe, HoldsMutex, Handles, Granting, Linked, Serving,
                                    Ending, Locked
  <2>4. CASE d # c
    <3>1. Untouched(d)
      BY Zenon, <1>7, <2>4, StepOfOne DEF Task
    <3>2. \A q \in Peers : /\ peers'[q] \in {peers[q], None}
                           /\ peers'[q] # peers[q] => q = reg[c] /\ pc[c] = "unlink"
                           /\ digests'[q] \in {digests[q], None}
      BY <1>7, <2>2 DEF Unlink, Forget, Release, TypeOK
    <3>3. pc[d] \in Serving \cup {"unlink"} /\ reg[d] # None =>
            /\ reg[d] \in Peers
            /\ pc[c] = "unlink" => reg[d] # reg[c]
      BY <2>2, <2>4 DEF Safe, Linked, TypeOK
    <3>4. pc[d] = "granting" => request[d].peer \in Peers
      BY Zenon DEF Safe, Handles, Requests
    <3> QED BY <2>1, <3>1, <3>2, <3>3, <3>4 DEF Safe, HoldsMutex, Handles, Granting,
               Linked, Untouched
  <2> QED BY <2>3, <2>4
<1>8. ASSUME NEW c \in Conns, NEW p \in Peers, NEW t \in Tokens, Register(c, p, t)
      PROVE  Safe(d)'
  <2>1. UNCHANGED <<reg, token, writer, peers, digests, lock>> /\ pc[c] = "open"
    BY Zenon, <1>8 DEF Register, registry
  <2>2. CASE d = c
    <3>1. \/ pc'[c] = "closed" \/ pc'[c] = "open"
          \/ pc'[c] = "unlink" /\ reg[c] # None
          \/ pc'[c] = "admitted" /\ writer[c] /\ request'[c] \in Requests
      BY <1>8, <2>1 DEF Register, Goto, Leave, TypeOK, Requests
    <3> QED BY Zenon, <2>1, <2>2, <3>1
            DEF Safe, HoldsMutex, Handles, Granting, Linked, Serving,
                                    Ending, Locked
  <2>3. CASE d # c
    BY Zenon, <1>8, <2>1, <2>3, StepOfOne, OthersKept
  <2> QED BY Zenon, <2>2, <2>3
<1>9. ASSUME NEW c \in Conns, NEW q \in Peers, Datagram(c, q)
      PROVE  Safe(d)'
  <2>1. /\ UNCHANGED <<reg, token, writer, peers, digests, lock>>
        /\ pc[c] = "open" /\ reg[c] # None
    BY Zenon, <1>9 DEF Datagram, registry
  <2>2. CASE d = c
    <3>1. /\ pc'[c] \in {"closed", "unlink", "checked"}
          /\ pc'[c] = "checked" => request'[c] \in Requests
      BY <1>9, <2>1 DEF Datagram, Goto, Leave, TypeOK, Requests
    <3> QED BY Zenon, <2>1, <2>2, <3>1
            DEF Safe, HoldsMutex, Handles, Granting, Linked, Serving,
                                    Ending, Locked
  <2>3. CASE d # c
    BY Zenon, <1>9, <2>1, <2>3, StepOfOne, OthersKept
  <2> QED BY Zenon, <2>2, <2>3
<1>10. CASE UNCHANGED <<pc, request, reg, token, writer, peers, digests, lock>>
  BY Zenon, <1>10, OthersKept DEF Untouched
<1> QED
  BY Zenon, <1>1, <1>2, <1>3, <1>4, <1>5, <1>6, <1>7, <1>8, <1>9, <1>10
     DEF Next, Task, vars, registry, WindowPasses, RotateToken, RevokeToken, ReplaceList

\* The invariant is inductive.
LEMMA Inductive == IInv /\ [Next]_vars => IInv'
<1> SUFFICES ASSUME IInv, [Next]_vars PROVE IInv'
  BY Zenon
<1>1. TypeOK'
  BY Zenon, TypeStep
<1>2. \A d \in Conns : Safe(d)'
  BY Zenon, <1>1, SafetyStep
<1> QED BY Zenon, <1>1, <1>2 DEF IInv

\* The maps of the relay registry only ever hold connections, digests and counts.
THEOREM TypeCorrect == Spec => []TypeOK
<1>1. IInv => TypeOK
  BY Zenon DEF IInv
<1> QED BY <1>1, InitHolds, Inductive, PTL DEF Spec

\* However many clients contend for an id, whatever they send and whenever they leave,
\* what handle_relay_client entered under the id of a client it serves stays that
\* client's own: no duplicate registration and no late end_relay_registration of a
\* former owner takes its writer away or leaves it with a foreign token digest.
THEOREM RegistrationsAreOwn == Spec => []RegistrationIsOwn
<1>1. IInv => RegistrationIsOwn
  BY Zenon DEF IInv, Safe, Linked, RegistrationIsOwn, RegisteredIsReachable, DigestIsOwn
<1> QED BY <1>1, InitHolds, Inductive, PTL DEF Spec

\* The peers mutex, held across writes to client sockets, is held by one task at a time.
THEOREM MutexHolds == Spec => [](\A c \in Conns : HoldsMutex(c))
<1>1. IInv => \A c \in Conns : HoldsMutex(c)
  BY Zenon DEF IInv, Safe
<1> QED BY <1>1, InitHolds, Inductive, PTL DEF Spec
=============================================================================
