--------------------------- MODULE CredentialStore --------------------------
(***************************************************************************)
(* The durable credentials of remote clients                               *)
(* (codepet-host/src/remote/access.rs, RemoteCredentialStore), with the    *)
(* file they are kept in (persistence.rs).                                 *)
(*                                                                         *)
(* Every operation works under the store's mutex on a copy: the copy is    *)
(* written to the file first and becomes the store's content only if that  *)
(* succeeded.  Writing replaces the whole file by a rename and then syncs, *)
(* so an operation that reports a failure may have changed the file.       *)
(*                                                                         *)
(* A credential is its random identifier, which stands for its bearer as   *)
(* well.  Times, descriptors and hashes are left out: of an update that    *)
(* only moves lastSeenAt the rewriting of the file is left.                *)
(***************************************************************************)
EXTENDS Naturals, FiniteSets

CONSTANTS
  Clients,        \* the client ids of remote devices
  MaxIssued,      \* Bounds the credentials ever made.
  MaxCredentials  \* MAX_REMOTE_CREDENTIALS

ASSUME IssueAssumption == MaxIssued \in Nat /\ MaxCredentials \in Nat

VARIABLES
  credentials,  \* RemoteCredentialStore.credentials
  disk,         \* what the file holds
  issued,       \* random credential ids drawn so far
  stored        \* history: the ids that have been in credentials

store == <<credentials, disk, issued, stored>>

-----------------------------------------------------------------------------
Ids    == 1 .. MaxIssued
Record == [client : Clients, revoked : BOOLEAN]
Tables == UNION {[S -> Record] : S \in SUBSET Ids}

StoreTypeOK ==
  /\ credentials \in Tables
  /\ disk \in Tables
  /\ issued \in 0 .. MaxIssued
  /\ stored \subseteq 1 .. issued
  /\ DOMAIN credentials \subseteq stored
  /\ Cardinality(DOMAIN credentials) <= MaxCredentials
  /\ DOMAIN disk \subseteq 1 .. issued

StoreInit ==
  /\ credentials = [i \in {} |-> {}]
  /\ disk = [i \in {} |-> {}]
  /\ issued = 0
  /\ stored = {}

Live(id) == id \in DOMAIN credentials /\ ~credentials[id].revoked

RecordsOf(client) == {id \in DOMAIN credentials : credentials[id].client = client}

-----------------------------------------------------------------------------
\* Mutant of Persist: the content is replaced before it is written.
PersistLate(updated, saved) ==
  /\ credentials' = updated
  /\ stored' = stored \cup DOMAIN updated
  /\ disk' = IF saved THEN updated ELSE disk

(* persist_credentials, then the copy becomes the content; saved is the    *)
(* result.  A failure comes before the rename or after it.                 *)
Persist(updated, saved) ==
  \/ /\ saved
     /\ credentials' = updated /\ disk' = updated
     /\ stored' = stored \cup DOMAIN updated
  \/ /\ ~saved
     /\ disk' \in {disk, updated}
     /\ UNCHANGED <<credentials, stored>>

\* issue: refused at the limit, which revoked records count towards.
Issue(client, saved) ==
  /\ issued < MaxIssued
  /\ issued' = issued + 1
  /\ Cardinality(DOMAIN credentials) < MaxCredentials
  /\ Persist([id \in DOMAIN credentials \cup {issued + 1} |->
                IF id = issued + 1 THEN [client |-> client, revoked |-> FALSE]
                                   ELSE credentials[id]],
             saved)

\* validate_bearer of a live credential: lastSeenAt is saved.
ValidateBearer(id, saved) ==
  /\ Live(id)
  /\ Persist(credentials, saved)
  /\ UNCHANGED issued

Revoked(ids) ==
  [id \in DOMAIN credentials |->
     [credentials[id] EXCEPT !.revoked = @ \/ id \in ids]]

\* revoke_client: every live record of the client; none of them, no write.
RevokeClient(client, saved) ==
  LET live == {id \in RecordsOf(client) : Live(id)}
  IN  /\ IF live = {} THEN saved /\ UNCHANGED <<credentials, disk, stored>>
                      ELSE Persist(Revoked(live), saved)
      /\ UNCHANGED issued

\* revoke_current: the live credential of the bearer.
RevokeCurrent(id, saved) ==
  /\ Live(id)
  /\ Persist(Revoked({id}), saved)
  /\ UNCHANGED issued

\* Mutant of Deletable: what the caller saw earlier is not looked at again.
DeletableUnchecked(id) == id \in DOMAIN credentials

\* delete_revoked_client is refused while the client has a live record.
Deletable(id) ==
  /\ id \in DOMAIN credentials
  /\ \A other \in RecordsOf(credentials[id].client) : ~Live(other)

DeleteRevokedClient(id, saved) ==
  /\ Deletable(id)
  /\ Persist([other \in DOMAIN credentials \ RecordsOf(credentials[id].client) |->
                credentials[other]],
             saved)
  /\ UNCHANGED issued

\* The Host ends and starts again from its file.
StoreRestarts ==
  /\ credentials' = disk
  /\ stored' = stored \cup DOMAIN disk
  /\ UNCHANGED <<disk, issued>>

-----------------------------------------------------------------------------
(* No crash brings access back (validate_bearer, revoke_*,                 *)
(* delete_revoked_client against open_with_clock): the file, which is all  *)
(* a restarted Host knows, never says live of a credential whose           *)
(* revocation or deletion was reported, whatever saves failed before or    *)
(* after it.                                                               *)
DiskNeverBehind ==
  \A id \in stored :
    ~Live(id) => ~(id \in DOMAIN disk /\ ~disk[id].revoked)
=============================================================================
