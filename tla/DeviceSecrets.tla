---------------------------- MODULE DeviceSecrets ---------------------------
(***************************************************************************)
(* The secrets that make a device the same device after a restart: the     *)
(* seed of its keypair and the key of its peer store, loaded or, the first *)
(* time, generated and stored.  On SteamOS the daemon does it when it      *)
(* starts, on Windows every Connect does it on its client's thread.        *)
(*                                                                         *)
(* A secret is a number.  Short stands for an item of another length, Torn *)
(* for a blob DPAPI cannot open.                                           *)
(***************************************************************************)
EXTENDS Integers, TLAPS

CONSTANTS
    Loaders,      \* daemons, or Connects: each loads both secrets
    MaxSecrets    \* bound: secrets ever generated

Accounts == {"seed", "key"}

None == 0
Short == -1
Torn == -2

VARIABLES
    host,      \* "steam" or "windows"
    file,      \* the stored item of each account
    temp,      \* the temporary file of each account and writer
    loader,    \* what each loader is doing
    used,      \* secrets generated so far
    device,    \* ghost: [seed, key] of the loads that succeeded
    overlap    \* ghost: two loaders were at it before the device had its identity

secretVars == <<host, file, temp, loader, used, device, overlap>>

State(pc, at, secret, seed) == [pc |-> pc, at |-> at, secret |-> secret, seed |-> seed]

Asleep == State("off", "seed", None, None)

\* secret_temp_path has the process and the time in it; dpapi.tmp is one name for all.
Writers == Loaders \cup {"dpapi"}

TempOf(l) == IF host = "steam" THEN l ELSE "dpapi"

SecretsInit ==
    /\ host \in {"steam", "windows"}
    /\ \E seed \in {None, Short} : file = [a \in Accounts |-> IF a = "seed" THEN seed ELSE None]
    /\ temp = [a \in Accounts |-> [w \in Writers |-> None]]
    /\ loader = [l \in Loaders |-> Asleep]
    /\ used = 0
    /\ device = {}
    /\ overlap = FALSE

Become(l, state) == loader' = [loader EXCEPT ![l] = state]

\* load_or_generate_device_identity begins.
Start(l) ==
    /\ loader[l].pc = "off"
    /\ Become(l, State("read", "seed", None, None))
    /\ overlap' = (overlap \/ (device = {} /\ \E m \in Loaders : loader[m].pc # "off"))
    /\ UNCHANGED <<host, file, temp, used, device>>

\* The seed is followed by the key, the key by the identity.
Have(l, secret) ==
    IF loader[l].at = "seed"
    THEN /\ Become(l, State("read", "key", None, secret))
         /\ UNCHANGED device
    ELSE /\ Become(l, Asleep)
         /\ device' = device \cup {[seed |-> loader[l].seed, key |-> secret]}

\* Every step that fails ends the load.  write_secret_atomically removes its file.
Fails(l) ==
    /\ loader[l].pc # "off"
    /\ temp' = IF host = "steam" THEN [temp EXCEPT ![loader[l].at][l] = None] ELSE temp
    /\ Become(l, Asleep)
    /\ UNCHANGED <<host, file, used, device, overlap>>

\* The process is gone.  With it go the other Connects of the Windows service.
Crash(l) ==
    /\ loader[l].pc # "off"
    /\ loader' = [m \in Loaders |-> IF host = "windows" \/ m = l THEN Asleep ELSE loader[m]]
    /\ UNCHANGED <<host, file, temp, used, device, overlap>>

\* read_secret: an item of the wrong length is an error.
read_secret(item) ==
    IF item = None THEN "missing" ELSE IF item \in {Short, Torn} THEN "error" ELSE "secret"

\* load and what the callers make of it: the wrong length is generated anew, a blob that
\* does not open is an error.
load(item) ==
    IF item \in {None, Short} THEN "missing" ELSE IF item = Torn THEN "error" ELSE "secret"

Outcome(item) == IF host = "steam" THEN read_secret(item) ELSE load(item)

Read(l) ==
    LET item == file[loader[l].at]
    IN  /\ loader[l].pc = "read"
        /\ \/ /\ Outcome(item) = "secret"
              /\ Have(l, item)
              /\ UNCHANGED used
           \/ /\ Outcome(item) = "missing"
              /\ used < MaxSecrets
              /\ used' = used + 1
              /\ Become(l, State("create", loader[l].at, used + 1, loader[l].seed))
              /\ UNCHANGED device
        /\ UNCHANGED <<host, file, temp, overlap>>

\* The temporary file is there, and empty: on Windows whatever it held is cut off.
Create(l) ==
    /\ loader[l].pc = "create"
    /\ temp' = [temp EXCEPT ![loader[l].at][TempOf(l)] = Torn]
    /\ Become(l, State("write", loader[l].at, loader[l].secret, loader[l].seed))
    /\ UNCHANGED <<host, file, used, device, overlap>>

\* The handle stays with the file when another loader renames it.
Write(l) ==
    LET a == loader[l].at
    IN  /\ loader[l].pc = "write"
        /\ IF temp[a][TempOf(l)] = None
           THEN file' = [file EXCEPT ![a] = loader[l].secret] /\ UNCHANGED temp
           ELSE temp' = [temp EXCEPT ![a][TempOf(l)] = loader[l].secret] /\ UNCHANGED file
        /\ Become(l, State("rename", loader[l].at, loader[l].secret, loader[l].seed))
        /\ UNCHANGED <<host, used, device, overlap>>

\* Mutant: a secret that could not be stored is used all the same.
RenameOrNot(l) ==
    LET a == loader[l].at
    IN  /\ loader[l].pc = "rename"
        /\ \/ file' = [file EXCEPT ![a] = temp[a][TempOf(l)]]
           \/ UNCHANGED file
        /\ temp' = [temp EXCEPT ![a][TempOf(l)] = None]
        /\ Have(l, loader[l].secret)
        /\ UNCHANGED <<host, used, overlap>>

Rename(l) ==
    LET a == loader[l].at
    IN  /\ loader[l].pc = "rename"
        /\ temp[a][TempOf(l)] # None
        /\ file' = [file EXCEPT ![a] = temp[a][TempOf(l)]]
        /\ temp' = [temp EXCEPT ![a][TempOf(l)] = None]
        /\ Have(l, loader[l].secret)
        /\ UNCHANGED <<host, used, overlap>>

SecretsNext ==
    \E l \in Loaders :
        Start(l) \/ Read(l) \/ Create(l) \/ Write(l) \/ Rename(l) \/ Fails(l) \/ Crash(l)

SecretsSpec == SecretsInit /\ [][SecretsNext]_secretVars

-----------------------------------------------------------------------------
(* Properties                                                               *)

\* A device keeps its identity: whatever crashes and failed writes came before, every load
\* that succeeds returns the same seed and key, and the files hold them, unless two first
\* loads overlapped.
IdentityIsStable ==
    ~overlap =>
        \A d \in device :
            /\ device = {d}
            /\ file["seed"] = d.seed /\ file["key"] = d.key

-----------------------------------------------------------------------------
(* The inductive invariant.                                                 *)

Secret == Nat \ {0}

LoaderState ==
    [pc : {"off", "read", "create", "write", "rename"}, at : Accounts, secret : Nat, seed : Int]

TypeOK ==
    /\ host \in {"steam", "windows"}
    /\ file \in [Accounts -> Int]
    /\ temp \in [Accounts -> [Writers -> Int]]
    /\ loader \in [Loaders -> LoaderState]
    /\ used \in Nat
    /\ device \subseteq [seed : Int, key : Int]
    /\ overlap \in BOOLEAN

\* One loader is awake at a time until the device has its identity.
Alone ==
    device = {} =>
        \A l, m \in Loaders : (loader[l].pc # "off" /\ loader[m].pc # "off") => l = m

\* No torn item is ever renamed into place.
Whole == \A a \in Accounts : file[a] \in {None, Short} \cup Secret

\* What a loader knows of the files: the seed it went on with is the stored one, a secret it
\* is about to store has no predecessor, and its temporary file is its own.
Loading(l) ==
    LET s == loader[l]
    IN  /\ s.pc = "off" => s.at = "seed"
        /\ s.at = "key" => s.seed \in Secret /\ file["seed"] = s.seed
        /\ s.pc \in {"create", "write", "rename"} =>
               s.secret \in Secret /\ file[s.at] \in {None, Short}
        /\ s.pc = "write" => temp[s.at][TempOf(l)] # None
        /\ s.pc = "rename" => temp[s.at][TempOf(l)] = s.secret

\* Every identity handed out is the stored one.
Stored == \A d \in device : /\ d.seed \in Secret /\ d.key \in Secret
                           /\ file["seed"] = d.seed /\ file["key"] = d.key

Lone == Alone /\ Whole /\ Stored /\ \A l \in Loaders : Loading(l)

SecretsInv == TypeOK /\ (~overlap => Lone)

-----------------------------------------------------------------------------
(* Proofs, for any number of loaders and of secrets.                        *)

USE DEF None, Short, Torn

\* SecretsInit has nothing loaded and no whole item stored.
LEMMA InitiallyInv == SecretsInit => SecretsInv
  <1> SUFFICES ASSUME SecretsInit PROVE SecretsInv
    OBVIOUS
  <1>1. TypeOK
    <2>1. PICK seed \in {None, Short} :
              file = [a \in Accounts |-> IF a = "seed" THEN seed ELSE None]
      BY DEF SecretsInit
    <2>2. file \in [Accounts -> Int]
      BY <2>1 DEF Accounts
    <2>3. Asleep \in LoaderState
      BY DEF LoaderState, Asleep, State, Accounts
    <2>4. loader \in [Loaders -> LoaderState]
      BY <2>3 DEF SecretsInit
    <2>5. temp \in [Accounts -> [Writers -> Int]]
      BY DEF SecretsInit
    <2>6. host \in {"steam", "windows"} /\ used \in Nat /\ device = {} /\ overlap = FALSE
      BY DEF SecretsInit
    <2> QED
      BY <2>2, <2>4, <2>5, <2>6 DEF TypeOK
  <1>2. Alone /\ Whole /\ Stored
    BY DEF SecretsInit, Alone, Whole, Stored, Asleep, State, Accounts
  <1>3. \A l \in Loaders : Loading(l)
    BY DEF SecretsInit, Loading, Asleep, State
  <1> QED
    BY <1>1, <1>2, <1>3 DEF SecretsInv, Lone

\* Where the temporary file of a loader is.
LEMMA TempIsWriter == \A l \in Loaders : TempOf(l) \in Writers
  BY DEF TempOf, Writers

\* Every step keeps the types.
LEMMA TypesKept == TypeOK /\ [SecretsNext]_secretVars => TypeOK'
  <1> SUFFICES ASSUME TypeOK, [SecretsNext]_secretVars PROVE TypeOK'
    OBVIOUS
  <1> USE TempIsWriter DEF TypeOK, LoaderState, Accounts, Become, Asleep, State
  <1>1. CASE UNCHANGED secretVars
    BY <1>1 DEF secretVars
  <1>2. ASSUME NEW l \in Loaders, Start(l) PROVE TypeOK'
    BY <1>2 DEF Start
  <1>3. ASSUME NEW l \in Loaders, NEW secret \in Int, Have(l, secret)
        PROVE  loader' \in [Loaders -> LoaderState] /\ device' \subseteq [seed : Int, key : Int]
    BY <1>3 DEF Have
  <1>4. ASSUME NEW l \in Loaders, Read(l) PROVE TypeOK'
    <2>1. file[loader[l].at] \in Int
      OBVIOUS
    <2>2. CASE Have(l, file[loader[l].at]) /\ UNCHANGED used
      BY <2>1, <2>2, <1>3, <1>4 DEF Read
    <2>3. CASE /\ used' = used + 1
               /\ Become(l, State("create", loader[l].at, used + 1, loader[l].seed))
               /\ UNCHANGED device
      BY <2>3, <1>4 DEF Read
    <2> QED
      BY <2>2, <2>3, <1>4 DEF Read
  <1>5. ASSUME NEW l \in Loaders, Create(l) PROVE TypeOK'
    BY <1>5 DEF Create
  <1>6. ASSUME NEW l \in Loaders, Write(l) PROVE TypeOK'
    BY <1>6 DEF Write
  <1>7. ASSUME NEW l \in Loaders, Rename(l) PROVE TypeOK'
    <2>1. loader[l].secret \in Int
      OBVIOUS
    <2> QED
      BY <2>1, <1>3, <1>7 DEF Rename
  <1>8. ASSUME NEW l \in Loaders, Fails(l) PROVE TypeOK'
    BY <1>8 DEF Fails, Writers
  <1>9. ASSUME NEW l \in Loaders, Crash(l) PROVE TypeOK'
    BY <1>9 DEF Crash
  <1> QED
    BY <1>1, <1>2, <1>4, <1>5, <1>6, <1>7, <1>8, <1>9 DEF SecretsNext

\* Once the device has its identity, nobody is about to store a secret.
LEMMA Settled ==
    ASSUME TypeOK, Lone, device # {}
    PROVE  \A m \in Loaders : loader[m].pc \in {"off", "read"}
  <1>1. file["seed"] \in Secret /\ file["key"] \in Secret
    BY DEF Lone, Stored
  <1>2. \A a \in Accounts : file[a] \notin {None, Short}
    BY <1>1 DEF Accounts, Secret
  <1>3. ASSUME NEW m \in Loaders PROVE loader[m].pc \in {"off", "read"}
    <2>1. /\ loader[m].at \in Accounts
          /\ loader[m].pc \in {"off", "read", "create", "write", "rename"}
      BY DEF TypeOK, LoaderState
    <2> QED
      BY <1>2, <2>1 DEF Lone, Loading
  <1> QED
    BY <1>3

\* A loader that starts knows nothing yet.
LEMMA StartKeeps ==
    ASSUME TypeOK, Lone, NEW l \in Loaders, Start(l), ~overlap'
    PROVE  Lone'
  <1>1. /\ \A m \in Loaders : m # l => loader'[m] = loader[m]
        /\ loader'[l] = State("read", "seed", None, None)
        /\ UNCHANGED <<host, file, temp, device>>
    BY DEF Start, Become, TypeOK
  <1>2. device = {} => \A m \in Loaders : loader[m].pc = "off"
    BY DEF Start
  <1>3. Alone'
    BY <1>1, <1>2 DEF Alone
  <1>4. Whole' /\ Stored'
    BY <1>1 DEF Lone, Whole, Stored
  <1>5. Loading(l)'
    BY <1>1 DEF Loading, State
  <1>6. ASSUME NEW m \in Loaders, m # l PROVE Loading(m)'
    <2>1. Loading(m) /\ loader'[m] = loader[m] /\ TempOf(m)' = TempOf(m)
      BY <1>1, <1>6 DEF Lone, TempOf
    <2> QED
      BY <1>1, <2>1 DEF Loading
  <1> QED
    BY <1>3, <1>4, <1>5, <1>6 DEF Lone

\* A load that ends early leaves the files alone.
LEMMA EndKeeps ==
    ASSUME TypeOK, Lone, NEW l \in Loaders, Fails(l) \/ Crash(l)
    PROVE  Lone'
  <1>1. \A m \in Loaders : loader'[m] = Asleep \/ (m # l /\ loader'[m] = loader[m])
    BY DEF TypeOK, Fails, Crash, Become
  <1>2. UNCHANGED <<file, device>> /\ loader[l].pc # "off"
    BY DEF Fails, Crash
  <1>3. \A m \in Loaders : m # l => loader[m].pc \in {"off", "read"}
    BY <1>2, Settled DEF Lone, Alone
  <1>4. device = {} => \A m \in Loaders : loader'[m].pc = "off"
    BY <1>1, <1>2 DEF Lone, Alone, Asleep, State
  <1>5. Alone'
    BY <1>2, <1>4 DEF Alone
  <1>6. Whole' /\ Stored'
    BY <1>2 DEF Lone, Whole, Stored
  <1>7. ASSUME NEW m \in Loaders PROVE Loading(m)'
    <2>1. CASE loader'[m] = Asleep
      BY <2>1 DEF Loading, Asleep, State
    <2>2. CASE m # l /\ loader'[m] = loader[m]
      BY <1>2, <1>3, <2>2 DEF Lone, Loading
    <2> QED
      BY <1>1, <2>1, <2>2
  <1> QED
    BY <1>5, <1>6, <1>7 DEF Lone

\* What a step of a loader leaves true of the others: they sleep, or the files are settled.
LEMMA OthersKeep ==
    ASSUME TypeOK, Lone, NEW l \in Loaders, loader[l].pc # "off",
           \A m \in Loaders : m # l => loader'[m] = loader[m],
           device \subseteq device', device # {} => UNCHANGED file
    PROVE  /\ Alone'
           /\ \A m \in Loaders : m # l => Loading(m)'
  <1>1. CASE device = {}
    <2>1. \A m \in Loaders : m # l => loader[m].pc = "off" /\ loader[m].at = "seed"
      BY <1>1 DEF Lone, Alone, Loading
    <2>2. \A m \in Loaders : m # l => loader'[m].pc = "off" /\ loader'[m].at = "seed"
      BY <2>1
    <2>3. Alone'
      BY <2>2 DEF Alone
    <2>4. ASSUME NEW m \in Loaders, m # l PROVE Loading(m)'
      BY <2>2, <2>4 DEF Loading
    <2> QED
      BY <2>3, <2>4
  <1>2. CASE device # {}
    <2>1. Alone'
      BY <1>2 DEF Alone
    <2>2. ASSUME NEW m \in Loaders, m # l PROVE Loading(m)'
      <3>1. loader[m].pc \in {"off", "read"} /\ loader'[m] = loader[m] /\ Loading(m)
        BY <1>2, <2>2, Settled DEF Lone
      <3> QED
        BY <1>2, <3>1 DEF Loading
    <2> QED
      BY <2>1, <2>2
  <1> QED
    BY <1>1, <1>2

\* With a secret that is in its file, the seed is followed by the key and the key by the
\* identity that is stored.
LEMMA HaveKeeps ==
    ASSUME TypeOK, Lone, NEW l \in Loaders, loader[l].pc # "off", NEW secret \in Secret,
           Have(l, secret), Whole', UNCHANGED host,
           file'[loader[l].at] = secret,
           \A a \in Accounts : a # loader[l].at => file'[a] = file[a],
           file[loader[l].at] \in {None, Short} \/ UNCHANGED file
    PROVE  Lone'
  <1>1. loader[l] \in LoaderState /\ loader[l].at \in Accounts
    BY DEF TypeOK, LoaderState
  <1>2. /\ \A m \in Loaders : m # l => loader'[m] = loader[m]
        /\ loader'[l] = IF loader[l].at = "seed" THEN State("read", "key", None, secret) ELSE Asleep
    BY DEF Have, Become, TypeOK
  <1>3. Loading(l)'
    <2>1. CASE loader[l].at = "seed"
      BY <1>2, <2>1 DEF Loading, State
    <2>2. CASE loader[l].at # "seed"
      BY <1>2, <2>2 DEF Loading, Asleep, State
    <2> QED
      BY <2>1, <2>2
  <1>4. ASSUME NEW d \in device
        PROVE  /\ d.seed \in Secret /\ d.key \in Secret
               /\ file'["seed"] = d.seed /\ file'["key"] = d.key
    <2>1. /\ d.seed \in Secret /\ d.key \in Secret
          /\ file["seed"] = d.seed /\ file["key"] = d.key
      BY DEF Lone, Stored
    <2>2. file[loader[l].at] \in Secret
      BY <1>1, <2>1 DEF Accounts
    <2>3. UNCHANGED file
      BY <2>2 DEF Secret
    <2> QED
      BY <2>1, <2>3
  <1>5. Stored'
    <2>1. CASE loader[l].at = "seed"
      BY <1>4, <2>1 DEF Have, Stored
    <2>2. CASE loader[l].at # "seed"
      <3>1. loader[l].at = "key" /\ loader[l].seed \in Secret /\ file["seed"] = loader[l].seed
        BY <1>1, <2>2 DEF Accounts, Lone, Loading
      <3>2. file'["key"] = secret /\ file'["seed"] = loader[l].seed
        BY <3>1 DEF Accounts
      <3>3. device' = device \cup {[seed |-> loader[l].seed, key |-> secret]}
        BY <2>2 DEF Have
      <3> QED
        BY <1>4, <3>1, <3>2, <3>3 DEF Stored
    <2> QED
      BY <2>1, <2>2
  <1>6. device \subseteq device' /\ (device # {} => UNCHANGED file)
    <2>1. device \subseteq device'
      BY DEF Have
    <2>2. ASSUME NEW d \in device PROVE UNCHANGED file
      BY <1>1 DEF Lone, Stored, Accounts, Secret
    <2> QED
      BY <2>1, <2>2
  <1> QED
    BY <1>2, <1>3, <1>5, <1>6, OthersKeep DEF Lone

\* A stored secret is taken as it is, and a new one made only where there is none.
LEMMA ReadKeeps ==
    ASSUME TypeOK, Lone, NEW l \in Loaders, Read(l)
    PROVE  Lone'
  <1> DEFINE item == file[loader[l].at]
  <1>1. /\ loader[l] \in LoaderState /\ loader[l].at \in Accounts
        /\ loader[l].pc = "read" /\ item \in {None, Short} \cup Secret
        /\ UNCHANGED <<host, file, temp>>
    BY DEF Read, TypeOK, LoaderState, Lone, Whole
  <1>2. Whole'
    BY <1>1 DEF Lone, Whole
  <1>3. CASE Outcome(item) = "secret" /\ Have(l, item)
    <2>1. item \in Secret
      BY <1>1, <1>3 DEF Outcome, read_secret, load
    <2> QED
      BY <1>1, <1>2, <1>3, <2>1, HaveKeeps
  <1>4. CASE /\ Outcome(item) = "missing"
             /\ Become(l, State("create", loader[l].at, used + 1, loader[l].seed))
             /\ UNCHANGED device
    <2>1. item \in {None, Short}
      BY <1>1, <1>4 DEF Outcome, read_secret, load, Secret
    <2>2. /\ \A m \in Loaders : m # l => loader'[m] = loader[m]
          /\ loader'[l] = State("create", loader[l].at, used + 1, loader[l].seed)
      BY <1>4 DEF Become, TypeOK
    <2>3. used + 1 \in Secret
      BY DEF TypeOK, Secret
    <2>4. loader[l].at = "key" => loader[l].seed \in Secret /\ file["seed"] = loader[l].seed
      BY DEF Lone, Loading
    <2>5. Loading(l)'
      BY <1>1, <2>1, <2>2, <2>3, <2>4 DEF Loading, State
    <2>6. Stored'
      BY <1>1, <1>4 DEF Lone, Stored
    <2> QED
      BY <1>1, <1>2, <1>4, <2>2, <2>5, <2>6, OthersKeep DEF Lone
  <1> QED
    BY <1>3, <1>4 DEF Read

\* A temporary file that was created is there to be written, and holds what was written.
LEMMA TempKeeps ==
    ASSUME TypeOK, Lone, NEW l \in Loaders, Create(l) \/ Write(l)
    PROVE  Lone'
  <1> DEFINE a == loader[l].at
  <1>1. /\ loader[l] \in LoaderState /\ a \in Accounts /\ TempOf(l) \in Writers
        /\ loader[l].pc \in {"create", "write"}
    BY TempIsWriter DEF Create, Write, TypeOK, LoaderState
  <1>2. /\ loader[l].secret \in Secret /\ file[a] \in {None, Short}
        /\ a = "key" => loader[l].seed \in Secret /\ file["seed"] = loader[l].seed
    BY <1>1 DEF Lone, Loading
  <1>3. UNCHANGED <<host, file, device>>
    BY DEF Create, Write, Lone, Loading
  <1>4. PICK pc \in {"write", "rename"} :
            /\ loader' = [loader EXCEPT ![l] = State(pc, a, loader[l].secret, loader[l].seed)]
            /\ pc = "write" => temp' = [temp EXCEPT ![a][TempOf(l)] = Torn]
            /\ pc = "rename" => temp' = [temp EXCEPT ![a][TempOf(l)] = loader[l].secret]
    BY DEF Create, Write, Become, Lone, Loading
  <1>5. /\ \A m \in Loaders : m # l => loader'[m] = loader[m]
        /\ loader'[l] = State(pc, a, loader[l].secret, loader[l].seed)
    BY <1>4 DEF TypeOK
  <1>6. /\ pc = "write" => temp'[a][TempOf(l)] = Torn
        /\ pc = "rename" => temp'[a][TempOf(l)] = loader[l].secret
    BY <1>1, <1>4 DEF TypeOK
  <1>7. TempOf(l)' = TempOf(l)
    BY <1>3 DEF TempOf
  <1>8. Loading(l)'
    BY <1>1, <1>2, <1>3, <1>5, <1>6, <1>7 DEF Loading, State
  <1>9. Whole' /\ Stored'
    BY <1>3 DEF Lone, Whole, Stored
  <1> QED
    BY <1>1, <1>3, <1>5, <1>8, <1>9, OthersKeep DEF Lone

\* The file that is renamed into place holds the secret, where there was none.
LEMMA RenameKeeps ==
    ASSUME TypeOK, Lone, NEW l \in Loaders, Rename(l)
    PROVE  Lone'
  <1> DEFINE a == loader[l].at
  <1>1. loader[l] \in LoaderState /\ a \in Accounts /\ loader[l].pc = "rename" /\ UNCHANGED host
    BY DEF Rename, TypeOK, LoaderState
  <1>2. /\ loader[l].secret \in Secret /\ file[a] \in {None, Short}
        /\ temp[a][TempOf(l)] = loader[l].secret
    BY <1>1 DEF Lone, Loading
  <1>3. file' = [file EXCEPT ![a] = loader[l].secret] /\ Have(l, loader[l].secret)
    BY <1>2 DEF Rename
  <1>4. file'[a] = loader[l].secret /\ \A b \in Accounts : b # a => file'[b] = file[b]
    BY <1>1, <1>3 DEF TypeOK
  <1>5. Whole'
    BY <1>2, <1>4 DEF Lone, Whole
  <1> QED
    BY <1>1, <1>2, <1>3, <1>4, <1>5, HaveKeeps

\* Every step keeps the inductive invariant.
LEMMA InvKept == SecretsInv /\ [SecretsNext]_secretVars => SecretsInv'
  <1> SUFFICES ASSUME SecretsInv, [SecretsNext]_secretVars, ~overlap' PROVE Lone'
    BY TypesKept DEF SecretsInv
  <1>1. TypeOK /\ TypeOK'
    BY TypesKept DEF SecretsInv
  <1>2. CASE UNCHANGED secretVars
    BY <1>2 DEF SecretsInv, Lone, Alone, Whole, Stored, Loading, TempOf, secretVars
  <1>3. CASE SecretsNext
    <2>1. ~overlap
      BY <1>1, <1>3 DEF SecretsNext, Start, Read, Create, Write, Rename, Fails, Crash, TypeOK
    <2>2. Lone
      BY <2>1 DEF SecretsInv
    <2> QED
      BY <1>1, <1>3, <2>2, StartKeeps, EndKeeps, ReadKeeps, TempKeeps, RenameKeeps
         DEF SecretsNext
  <1> QED
    BY <1>2, <1>3

\* What is stored is one identity.
LEMMA InvImpliesStable == SecretsInv => IdentityIsStable
  <1> SUFFICES ASSUME SecretsInv, ~overlap, NEW d \in device
               PROVE  device = {d} /\ file["seed"] = d.seed /\ file["key"] = d.key
    BY DEF IdentityIsStable
  <1>1. \A e \in device : file["seed"] = e.seed /\ file["key"] = e.key
    BY DEF SecretsInv, Lone, Stored
  <1>2. \A e \in device : e \in [seed : Int, key : Int]
    BY DEF SecretsInv, TypeOK
  <1>3. \A e \in device : e = d
    BY <1>1, <1>2
  <1> QED
    BY <1>1, <1>3

\* The variables keep their types (load_or_generate_device_identity of both hosts).
THEOREM TypeCorrect == SecretsSpec => []TypeOK
  <1>1. SecretsInv => TypeOK
    BY DEF SecretsInv
  <1> QED
    BY InitiallyInv, InvKept, <1>1, PTL DEF SecretsSpec

\* For any number of loaders, crashes and failed writes: unless two first loads overlapped,
\* every load that succeeded returned one seed and one key, and the files hold them, also
\* when later loads run side by side (load_or_generate_device_identity,
\* write_secret_atomically, DpapiSecretStore::store and load).
THEOREM IdentityIsKept == SecretsSpec => []IdentityIsStable
  BY InitiallyInv, InvKept, InvImpliesStable, PTL DEF SecretsSpec
=============================================================================
