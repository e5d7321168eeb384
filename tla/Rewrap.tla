------------------------------- MODULE Rewrap -------------------------------
(***************************************************************************)
(* Replacing the master key under which secrets are stored                 *)
(* (vfm/server/src/crypto/envelope.ts, crypto.service.ts,                  *)
(* rewrap.service.ts, the job vfm/server/src/rewrap.ts, and the procedure  *)
(* of vfm/server/src/config/env.schema.ts): deploy the new key with the    *)
(* old one still listed, let the job work through the stored secrets,      *)
(* remove the old one.  A deployment restarts the replicas one by one,     *)
(* and the job runs beside a control plane that goes on writing.           *)
(***************************************************************************)
EXTENDS Integers, FiniteSets

CONSTANTS
  KeyReplicas,
  Secrets,      \* the rows of the *_encrypted columns
  MaxKeys,      \* keys ever made (a bound)
  MaxWrites     \* secrets that are changed (a bound)

ASSUME RewrapAssumption == MaxKeys \in Nat \ {0} /\ MaxWrites \in Nat

VARIABLES
  secrets,   \* of each row: the value, and the key its ciphertext names
  latest,    \* (history) the last value written by a person
  rotation,  \* the key to use, and how far its rotation is
  keyring,   \* Keyring of each replica
  rewrapping,  \* the job: its keys, what it read, what is to do, what failed
  writes

rewrapVars == <<secrets, latest, rotation, keyring, rewrapping, writes>>

MasterKeys == 1 .. MaxKeys
Ring(primary, previous) == [primary |-> primary, all |-> {primary} \cup previous]
NoJob == [ring |-> Ring(0, {}), read |-> [s \in Secrets |-> [value |-> 0, key |-> 0]],
          todo |-> {}, failed |-> FALSE]

RewrapInit ==
  /\ secrets = [s \in Secrets |-> [value |-> 0, key |-> 1]]
  /\ latest = [s \in Secrets |-> 0]
  /\ rotation = [key |-> 1, stage |-> "settled"]
  /\ keyring = [r \in KeyReplicas |-> Ring(1, {})]
  /\ rewrapping = NoJob /\ writes = 0

\* VFM_MASTER_KEY and VFM_MASTER_KEY_PREVIOUS of a process started now.
Configured ==
  Ring(rotation.key, IF rotation.stage = "listed" THEN {rotation.key - 1} ELSE {})
Deployed == \A r \in KeyReplicas : keyring[r] = Configured

-----------------------------------------------------------------------------
\* encrypt: under the primary key of the replica.
Write(r, s) ==
  /\ writes < MaxWrites /\ writes' = writes + 1
  /\ latest' = [latest EXCEPT ![s] = writes']
  /\ secrets' = [secrets EXCEPT ![s] = [value |-> writes', key |-> keyring[r].primary]]
  /\ UNCHANGED <<rotation, keyring, rewrapping>>

RestartReplica(r) ==
  /\ keyring[r] # Configured
  /\ keyring' = [keyring EXCEPT ![r] = Configured]
  /\ UNCHANGED <<secrets, latest, rotation, rewrapping, writes>>

-----------------------------------------------------------------------------
(***************************************************************************)
(* The operator: each stage begins when the one before has been deployed.  *)
(***************************************************************************)
NewKey ==
  /\ rotation.stage = "settled" /\ Deployed /\ rotation.key < MaxKeys
  /\ rotation' = [key |-> rotation.key + 1, stage |-> "listed"]
  /\ UNCHANGED <<secrets, latest, keyring, rewrapping, writes>>

RunJob ==
  /\ rotation.stage = "listed" /\ Deployed /\ rewrapping = NoJob
  /\ rewrapping' = [ring |-> Configured, read |-> secrets, todo |-> Secrets, failed |-> FALSE]
  /\ UNCHANGED <<secrets, latest, rotation, keyring, writes>>

\* "Exit 0 = nothing left on an old key": the old one is taken from the list.
JobEnds ==
  /\ rewrapping # NoJob /\ rewrapping.todo = {}
  /\ rewrapping' = NoJob
  /\ rotation' = IF rewrapping.failed THEN rotation ELSE [rotation EXCEPT !.stage = "settled"]
  /\ UNCHANGED <<secrets, latest, keyring, writes>>

JobDies ==
  /\ rewrapping # NoJob
  /\ rewrapping' = NoJob
  /\ UNCHANGED <<secrets, latest, rotation, keyring, writes>>

-----------------------------------------------------------------------------
needsRewrap_Unreadable(ring, envelope) == envelope.key \notin ring.all   \* mutant
needsRewrap(ring, envelope) == envelope.key # ring.primary

\* Mutant: the update does not look at what it replaces.
rewrap_Unconditional(s) ==
  /\ s \in rewrapping.todo
  /\ LET read == rewrapping.read[s]
         opens == read.key \in rewrapping.ring.all
     IN /\ secrets' = IF needsRewrap(rewrapping.ring, read) /\ opens
                      THEN [secrets EXCEPT ![s] = [read EXCEPT !.key = rewrapping.ring.primary]]
                      ELSE secrets
        /\ rewrapping' = [rewrapping EXCEPT !.todo = @ \ {s},
                            !.failed = @ \/ (needsRewrap(rewrapping.ring, read) /\ ~opens)]
  /\ UNCHANGED <<latest, rotation, keyring, writes>>

\* handle: what is on an older key is opened, sealed again, and written "only if the
\* ciphertext is still the one that was read".
rewrap(s) ==
  /\ s \in rewrapping.todo
  /\ LET read == rewrapping.read[s]
         opens == read.key \in rewrapping.ring.all
     IN /\ secrets' = IF needsRewrap(rewrapping.ring, read) /\ opens /\ secrets[s] = read
                      THEN [secrets EXCEPT ![s] = [read EXCEPT !.key = rewrapping.ring.primary]]
                      ELSE secrets
        /\ rewrapping' = [rewrapping EXCEPT !.todo = @ \ {s},
                            !.failed = @ \/ (needsRewrap(rewrapping.ring, read) /\ ~opens)]
  /\ UNCHANGED <<latest, rotation, keyring, writes>>

-----------------------------------------------------------------------------
RewrapNext ==
  \/ \E r \in KeyReplicas : RestartReplica(r) \/ \E s \in Secrets : Write(r, s)
  \/ NewKey \/ RunJob \/ JobEnds \/ JobDies
  \/ \E s \in Secrets : rewrap(s)

RewrapSpec == RewrapInit /\ [][RewrapNext]_rewrapVars

-----------------------------------------------------------------------------
Rings == [primary : MasterKeys \cup {0}, all : SUBSET (MasterKeys \cup {0})]
Envelope == [value : Nat, key : MasterKeys]

RewrapTypeOK ==
  /\ secrets \in [Secrets -> Envelope]
  /\ latest \in [Secrets -> Nat] /\ writes \in Nat
  /\ rotation \in [key : MasterKeys, stage : {"settled", "listed"}]
  /\ keyring \in [KeyReplicas -> Rings]
  /\ rewrapping \in [ring : Rings, read : [Secrets -> [value : Nat, key : MasterKeys \cup {0}]],
                      todo : SUBSET Secrets, failed : BOOLEAN]
  /\ rewrapping = NoJob \/ rewrapping.ring = Ring(rotation.key, {rotation.key - 1})

(***************************************************************************)
(* "Running it while the server is up cannot overwrite a secret someone    *)
(* has just changed" (rewrap.service.ts).                                  *)
(***************************************************************************)
NewestStays == \A s \in Secrets : secrets[s].value = latest[s]

(***************************************************************************)
(* "Makes the key rotation a non-event" (env.schema.ts): a replica that    *)
(* has been given the key in use can open every secret, before, while and  *)
(* after the old one is taken away, whatever is written meanwhile.         *)
(***************************************************************************)
NothingIsLost ==
  \A r \in KeyReplicas, s \in Secrets :
    keyring[r].primary = rotation.key => secrets[s].key \in keyring[r].all

=============================================================================
