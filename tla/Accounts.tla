------------------------------ MODULE Accounts ------------------------------
(***************************************************************************)
(* One person's account and the documents they store: avatar, ID-card      *)
(* scan, skill proofs and chat files (modules/users, admin-accounts,       *)
(* identity-verification, skill-proofs, chat/chat-files, common/storage).  *)
(*                                                                         *)
(* An upload is three awaits: the object is put, the record is written,    *)
(* then the object nothing names any more is removed.  A request passes    *)
(* the guard once, so it may still be running when the account is gone.    *)
(* Transactions of more than one step hold a row lock in between: `user'   *)
(* (FOR UPDATE) or `identity'; an INSERT that refers to the person waits   *)
(* for the first.  `excused', `unsure' and `assigned' are history: the     *)
(* objects some fault left behind, the commits whose answer was lost and   *)
(* the role that set-role gave last.                                       *)
(***************************************************************************)
EXTENDS Naturals, FiniteSets

CONSTANTS
  Sessions,   \* requests in progress at once (bound)
  Keys,       \* names of stored objects (bound)
  MaxFaults,  \* failures and crashes in one behaviour (bound)
  Assignable, \* the roles set-role is used to give (bound)
  None

VARIABLES
  account,    \* the user row: status, role, avatarKey, personal data left
  login,      \* whether a session row exists
  upcoming,   \* the upcoming appointments that name the person, by their writer
  identity,   \* the advisor_identity row
  proofs,     \* skill_proof_documents by object key
  files,      \* object keys of the person's chat_files rows
  objects,    \* what the object storage holds
  req,        \* the requests in progress
  lock,       \* holders of row locks
  excused, unsure, faults, assigned

rows == <<account, login, upcoming, identity, proofs, files>>
history == <<excused, unsure, faults, assigned>>
vars == <<rows, objects, req, lock, history>>

Kinds == {"avatar", "identity", "proof", "file"}
IdentityStatus == {"NONE", "SUBMITTED", "VERIFIED", "REJECTED"}
Submittable == {"NONE", "REJECTED"}
ProofStatus == {"PENDING", "APPROVED", "REJECTED"}

Roles == {"advisee", "advisor", "admin"}
\* An appointment is "booked" or, by an invoice of another person, "sold".
Writers == {"booked", "sold"}

Account == [status : {"ACTIVE", "SUSPENDED", "DELETED"}, role : Roles,
            avatar : Keys \cup {None}, personal : BOOLEAN]
Identity == [status : IdentityStatus, document : Keys \cup {None}]
Request == [op : Kinds \cup {"call", "removeFile", "approve"},
            pc : {"put", "record", "cleanup", "book", "update", "signIn",
                  "rule", "grant", "lock", "check", "erase"},
            key : Keys \cup {None}]

ASSUME AccountsAssumption ==
  /\ MaxFaults \in Nat /\ Assignable \subseteq Roles
  /\ None \notin Keys \cup Sessions \cup Identity \cup Request \cup ProofStatus \cup Roles

----------------------------------------------------------------------------
Named == ({account.avatar} \cup (IF identity = None THEN {} ELSE {identity.document})
            \cup {k \in Keys : proofs[k] # None} \cup files) \ {None}
Known == {req[s].key : s \in {t \in Sessions : req[t] # None}} \ {None}
Held == {req[s].key : s \in {t \in Sessions : req[t] # None /\ req[t].op # "approve"}} \ {None}

\* crypto.randomUUID(): a name nothing has.
Free(k) == k \notin objects \cup Named \cup Known \cup excused \cup unsure

Verified == identity # None /\ identity.status = "VERIFIED"

At(s, pc) == req[s] # None /\ req[s].pc = pc
Open(s, op, pc, k) == req' = [req EXCEPT ![s] = [op |-> op, pc |-> pc, key |-> k]]
GoTo(s, pc) == req' = [req EXCEPT ![s].pc = pc]
End(s) == req' = [req EXCEPT ![s] = None]

\* removeOrphan(), removeObjectAfterRecordDelete() of `k', if there is one.
Cleanup(s, k) ==
  IF k = None THEN End(s) ELSE req' = [req EXCEPT ![s].pc = "cleanup", ![s].key = k]

Fault == faults < MaxFaults /\ faults' = faults + 1

----------------------------------------------------------------------------
(* Storing a document.                                                     *)

\* A valid upload of a person who may make it is given a name and put there.
Upload(s, kind, k) ==
  /\ req[s] = None /\ login /\ Free(k)
  /\ Open(s, kind, "put", k)
  /\ UNCHANGED <<rows, objects, lock, history>>

UploadAvatar(s, k) == Upload(s, "avatar", k)

SubmitScan(s, k) == Upload(s, "identity", k)

SubmitProof(s, k) == Upload(s, "proof", k)

\* assertMember(): an ACTIVE account that is a member of the room.
UploadFile(s, k) == account.status = "ACTIVE" /\ Upload(s, "file", k)

PutObject(s) ==
  /\ At(s, "put")
  /\ objects' = objects \cup {req[s].key}
  /\ GoTo(s, "record")
  /\ UNCHANGED <<rows, lock, history>>

\* Variant: the error is swallowed.
PutIgnored(s, landed) ==
  /\ At(s, "put") /\ Fault
  /\ GoTo(s, "record")
  /\ UNCHANGED <<rows, objects, lock, excused, unsure, assigned>>

\* The answer is an error; the object may have landed all the same.
PutFails(s, landed) ==
  /\ At(s, "put") /\ Fault
  /\ LET left == IF landed THEN {req[s].key} ELSE {}
     IN  objects' = objects \cup left /\ excused' = excused \cup left
  /\ End(s)
  /\ UNCHANGED <<rows, lock, unsure, assigned>>

\* What an upload does once its record is written over `old': it is told, or
\* the answer to its COMMIT is lost and it takes the write for failed.
Recorded(s, told, old) ==
  IF told
  THEN Cleanup(s, old) /\ UNCHANGED history
  ELSE /\ Fault /\ Cleanup(s, req[s].key)
       /\ unsure' = unsure \cup {req[s].key}
       /\ excused' = excused \cup ({old} \ {None}) /\ UNCHANGED assigned

\* Variant: what the record named before is read without its lock, too late.
ReplaceUnlocked(s, told) ==
  /\ At(s, "record") /\ req[s].op = "avatar" /\ lock.user = None
  /\ account' = [account EXCEPT !.avatar = req[s].key]
  /\ Recorded(s, told, None)
  /\ UNCHANGED <<login, upcoming, identity, proofs, files, objects, lock>>

ReplaceAvatar(s, told) ==
  /\ At(s, "record") /\ req[s].op = "avatar" /\ lock.user = None
  /\ account' = [account EXCEPT !.avatar = req[s].key]
  /\ Recorded(s, told, account.avatar)
  /\ UNCHANGED <<login, upcoming, identity, proofs, files, objects, lock>>

SubmitIdentity(s, told) ==
  LET current == IF identity = None THEN [status |-> "NONE", document |-> None]
                                    ELSE identity
  IN  /\ At(s, "record") /\ req[s].op = "identity" /\ lock.identity = None
      /\ current.status \in Submittable
      /\ identity' = [status |-> "SUBMITTED", document |-> req[s].key]
      /\ Recorded(s, told, current.document)
      /\ UNCHANGED <<account, login, upcoming, proofs, files, objects, lock>>

\* The record is under review or verified: a conflict.
ScanRefused(s) ==
  /\ At(s, "record") /\ req[s].op = "identity" /\ lock.identity = None
  /\ identity # None /\ identity.status \notin Submittable
  /\ Cleanup(s, req[s].key)
  /\ UNCHANGED <<rows, objects, lock, history>>

\* createForAdvisor(): the document and the claim of its skill.
RecordProof(k) == proofs' = [proofs EXCEPT ![k] = "PENDING"]

CreateProof(s, told) ==
  /\ At(s, "record") /\ req[s].op = "proof"
  /\ RecordProof(req[s].key)
  /\ Recorded(s, told, None)
  /\ UNCHANGED <<account, login, upcoming, identity, files, objects, lock>>

\* createFileForMember(): the membership is read again beside the write.
CreateFileForMember(k) == account.status = "ACTIVE" /\ files' = files \cup {k}

CreateFile(s, told) ==
  /\ At(s, "record") /\ req[s].op = "file"
  /\ CreateFileForMember(req[s].key)
  /\ Recorded(s, told, None)
  /\ UNCHANGED <<account, login, upcoming, identity, proofs, objects, lock>>

FileRefused(s) ==
  /\ At(s, "record") /\ req[s].op = "file" /\ account.status # "ACTIVE"
  /\ Cleanup(s, req[s].key)
  /\ UNCHANGED <<rows, objects, lock, history>>

RecordFails(s) ==
  /\ At(s, "record") /\ req[s].op \in Kinds /\ Fault
  /\ Cleanup(s, req[s].key)
  /\ UNCHANGED <<rows, objects, lock, excused, unsure, assigned>>

RemoveObject(s) ==
  /\ At(s, "cleanup")
  /\ objects' = objects \ {req[s].key}
  /\ End(s)
  /\ UNCHANGED <<rows, lock, history>>

\* Logged: "it must be cleaned up separately".
RemoveFails(s) ==
  /\ At(s, "cleanup") /\ Fault
  /\ excused' = excused \cup {req[s].key}
  /\ End(s)
  /\ UNCHANGED <<rows, objects, lock, unsure, assigned>>

----------------------------------------------------------------------------
(* Taking a document away.                                                 *)

RemoveAvatar(s) ==
  /\ req[s] = None /\ login /\ lock.user = None /\ account.avatar # None
  /\ account' = [account EXCEPT !.avatar = None]
  /\ Open(s, "avatar", "cleanup", account.avatar)
  /\ UNCHANGED <<login, upcoming, identity, proofs, files, objects, lock, history>>

GetFile(s, k) ==
  /\ req[s] = None /\ login /\ account.status = "ACTIVE" /\ k \in files
  /\ Open(s, "removeFile", "record", k)
  /\ UNCHANGED <<rows, objects, lock, history>>

DeleteFile(s) ==
  /\ At(s, "record") /\ req[s].op = "removeFile"
  /\ files' = files \ {req[s].key}
  /\ IF req[s].key \in files THEN Cleanup(s, req[s].key) ELSE End(s)
  /\ UNCHANGED <<account, login, upcoming, identity, proofs, objects, lock, history>>

----------------------------------------------------------------------------
(* An admin rules: conditional updates.                                    *)

\* Variant: a ruling may be overruled.
DecidableTwice == {"SUBMITTED", "REJECTED"}

Decidable == {"SUBMITTED"}

Undecided == identity # None /\ identity.status \in Decidable /\ lock.identity = None

Reject ==
  /\ Undecided
  /\ identity' = [identity EXCEPT !.status = "REJECTED"]
  /\ UNCHANGED <<account, login, upcoming, proofs, files, objects, req, lock, history>>

\* An admin opens the document.
CreateDocumentUrl(s) ==
  /\ req[s] = None /\ Undecided
  /\ Open(s, "approve", "rule", identity.document)
  /\ UNCHANGED <<rows, objects, lock, history>>

\* Variant: the ruling is committed before the role is given.
ApplyAtOnce(s) ==
  /\ At(s, "rule") /\ Undecided
  /\ identity' = [identity EXCEPT !.status = "VERIFIED"]
  /\ lock' = [lock EXCEPT !.identity = s]
  /\ GoTo(s, "grant")
  /\ UNCHANGED <<account, login, upcoming, proofs, files, objects, history>>

\* approve(): the ruling is written under the lock of its row,
ApplyDecision(s) ==
  /\ At(s, "rule") /\ Undecided
  /\ lock' = [lock EXCEPT !.identity = s]
  /\ GoTo(s, "grant")
  /\ UNCHANGED <<rows, objects, history>>

\* Variant: the role is given to whomever.
GrantToAll(s) ==
  /\ At(s, "grant") /\ lock.user = None
  /\ identity' = [identity EXCEPT !.status = "VERIFIED"]
  /\ account' = [account EXCEPT !.role = "advisor"]
  /\ lock' = [lock EXCEPT !.identity = None]
  /\ End(s)
  /\ UNCHANGED <<login, upcoming, proofs, files, objects, history>>

\* the role under the lock of the user row, unless it is an admin's (the UPDATE
\* then finds no row and waits for none), and both are committed.
GrantRole(s) ==
  /\ At(s, "grant") /\ (account.role # "admin" => lock.user = None)
  /\ identity' = [identity EXCEPT !.status = "VERIFIED"]
  /\ IF account.role = "admin" THEN UNCHANGED <<account, assigned>>
     ELSE account' = [account EXCEPT !.role = "advisor"] /\ assigned' = None
  /\ lock' = [lock EXCEPT !.identity = None]
  /\ End(s)
  /\ UNCHANGED <<login, upcoming, proofs, files, objects, excused, unsure, faults>>

\* Somebody ruled first, or the record is gone: a conflict.
Refuse(s) ==
  /\ At(s, "rule") /\ lock.identity = None
  /\ identity # None => identity.status \notin Decidable
  /\ End(s)
  /\ UNCHANGED <<rows, objects, lock, history>>

\* review(): a conditional update, whose loser is told of the conflict.
Review(k, ruling) ==
  /\ proofs[k] = "PENDING"
  /\ proofs' = [proofs EXCEPT ![k] = ruling]
  /\ UNCHANGED <<account, login, upcoming, identity, files, objects, req, lock, history>>

ApproveProof(k) == Review(k, "APPROVED")

RejectProof(k) == Review(k, "REJECTED")

SetStatus(from, to) ==
  /\ account.status = from /\ lock.user = None
  /\ account' = [account EXCEPT !.status = to]
  /\ UNCHANGED <<login, upcoming, identity, proofs, files, objects, req, lock, history>>

Suspend == SetStatus("ACTIVE", "SUSPENDED")

Reinstate == SetStatus("SUSPENDED", "ACTIVE")

\* better-auth's set-role writes the role alone.
SetRole(role) ==
  /\ account.role # role /\ lock.user = None
  /\ account' = [account EXCEPT !.role = role] /\ assigned' = role
  /\ UNCHANGED <<login, upcoming, identity, proofs, files, objects, req, lock,
                 excused, unsure, faults>>

----------------------------------------------------------------------------
(* The account.                                                            *)

\* A request past the guard: to book, to edit the profile, to be deleted.
Call(s, pc) ==
  /\ req[s] = None /\ login
  /\ pc \in {"book", "update", "lock"}
  /\ Open(s, "call", pc, None)
  /\ UNCHANGED <<rows, objects, lock, history>>

\* A sign-in whose password has been checked.
SignIn(s) ==
  /\ req[s] = None /\ account.status = "ACTIVE"
  /\ Open(s, "call", "signIn", None)
  /\ UNCHANGED <<rows, objects, lock, history>>

CreateSession(s) ==
  /\ At(s, "signIn") /\ lock.user = None
  /\ login' = (login \/ account.status # "SUSPENDED")
  /\ End(s)
  /\ UNCHANGED <<account, upcoming, identity, proofs, files, objects, lock, history>>

SignOut ==
  /\ login /\ login' = FALSE
  /\ UNCHANGED <<account, upcoming, identity, proofs, files, objects, req, lock, history>>

UpdateMe(s) ==
  /\ At(s, "update") /\ lock.user = None
  /\ account' = [account EXCEPT !.personal = TRUE]
  /\ End(s)
  /\ UNCHANGED <<login, upcoming, identity, proofs, files, objects, lock, history>>

\* Variant: the reference to the person does not wait for the user row.
InsertAtOnce(s) ==
  /\ At(s, "book")
  /\ upcoming' = upcoming \cup {"booked"}
  /\ End(s)
  /\ UNCHANGED <<account, login, identity, proofs, files, objects, lock, history>>

\* The person books or is invoiced: the appointment refers to their user row.
InsertAppointment(s) ==
  /\ At(s, "book") /\ lock.user = None
  /\ upcoming' = upcoming \cup {"booked"}
  /\ End(s)
  /\ UNCHANGED <<account, login, identity, proofs, files, objects, lock, history>>

\* Who was an Advisor has Services, and the deletion of the account leaves them.
HasServices == Verified \/ account.role = "advisor"

\* Another person books one: the room's members refer to the Advisor's user row.
BookService ==
  /\ HasServices /\ lock.user = None
  /\ upcoming' = upcoming \cup {"booked"}
  /\ UNCHANGED <<account, login, identity, proofs, files, objects, req, lock, history>>

\* Another person is invoiced for one: no room, and the appointment refers to the
\* Advisor's profile, not to their user row.
SellService ==
  /\ HasServices
  /\ upcoming' = upcoming \cup {"sold"}
  /\ UNCHANGED <<account, login, identity, proofs, files, objects, req, lock, history>>

\* An appointment is cancelled or past.
AppointmentOver ==
  /\ \E writer \in upcoming : upcoming' = upcoming \ {writer}
  /\ UNCHANGED <<account, login, identity, proofs, files, objects, req, lock, history>>

\* anonymizeById(): the user row is locked,
LockAccount(s) ==
  /\ At(s, "lock") /\ lock.user = None
  /\ lock' = [lock EXCEPT !.user = s]
  /\ GoTo(s, "check")
  /\ UNCHANGED <<rows, objects, history>>

\* the blockers are read,
FindBlockers(s) ==
  /\ At(s, "check")
  /\ IF upcoming # {} THEN End(s) /\ lock' = [lock EXCEPT !.user = None]
                      ELSE GoTo(s, "erase") /\ UNCHANGED lock
  /\ UNCHANGED <<rows, objects, history>>

\* and everything is erased but appointments and chat evidence.
Erase ==
  /\ account' = [account EXCEPT !.status = "DELETED", !.avatar = None, !.personal = FALSE]
  /\ login' = FALSE
  /\ identity' = None
  /\ proofs' = [k \in Keys |-> None]
  /\ UNCHANGED <<upcoming, files>>

\* deleteMe(): of the objects only the avatar's goes as well.
Anonymize(s) ==
  /\ At(s, "erase") /\ lock.identity = None
  /\ Erase
  /\ excused' = excused \cup (Named \ (files \cup {account.avatar}))
  /\ lock' = [lock EXCEPT !.user = None]
  /\ Cleanup(s, account.avatar)
  /\ UNCHANGED <<objects, unsure, faults, assigned>>

----------------------------------------------------------------------------
(* Failures.                                                               *)

\* A transaction with `held' locks is rolled back.
Rollback(s) ==
  /\ lock' = [l \in DOMAIN lock |-> IF lock[l] = s THEN None ELSE lock[l]]
  /\ End(s)
  /\ UNCHANGED <<rows, objects, excused, unsure, assigned>>

TransactionFails(s) ==
  /\ \E l \in DOMAIN lock : lock[l] = s
  /\ Fault
  /\ Rollback(s)

\* approve() locks identity then user, anonymizeById() the other way round: the
\* server ends one of the two.
DetectDeadlock(s) ==
  /\ lock.user # None /\ lock.identity # None
  /\ At(lock.user, "erase") /\ At(lock.identity, "grant") /\ account.role # "admin"
  /\ s \in {lock.user, lock.identity}
  /\ Rollback(s) /\ UNCHANGED faults

\* The process dies; its transactions are rolled back, its requests forgotten.
Crash ==
  /\ \E s \in Sessions : req[s] # None
  /\ Fault
  /\ req' = [s \in Sessions |-> None]
  /\ lock' = [l \in DOMAIN lock |-> None]
  /\ excused' = excused \cup ((Held \cap objects) \ Named)
  /\ UNCHANGED <<rows, objects, unsure, assigned>>

----------------------------------------------------------------------------
Init ==
  /\ account = [status |-> "ACTIVE", role |-> "advisee", avatar |-> None, personal |-> TRUE]
  /\ login = TRUE /\ upcoming = {}
  /\ identity = None /\ proofs = [k \in Keys |-> None] /\ files = {}
  /\ objects = {}
  /\ req = [s \in Sessions |-> None]
  /\ lock = [user |-> None, identity |-> None]
  /\ excused = {} /\ unsure = {} /\ faults = 0 /\ assigned = None

Store(s) ==
  \/ \E k \in Keys : \/ UploadAvatar(s, k) \/ SubmitScan(s, k)
                      \/ SubmitProof(s, k) \/ UploadFile(s, k)
  \/ PutObject(s) \/ \E landed \in BOOLEAN : PutFails(s, landed)
  \/ \E told \in BOOLEAN : \/ ReplaceAvatar(s, told) \/ SubmitIdentity(s, told)
                           \/ CreateProof(s, told) \/ CreateFile(s, told)
  \/ ScanRefused(s) \/ FileRefused(s)
  \/ RecordFails(s) \/ RemoveObject(s) \/ RemoveFails(s)
  \/ RemoveAvatar(s) \/ DeleteFile(s) \/ \E k \in Keys : GetFile(s, k)

Live(s) ==
  \/ SignIn(s) \/ CreateSession(s) \/ UpdateMe(s) \/ InsertAppointment(s)
  \/ \E pc \in {"book", "update", "lock"} : Call(s, pc)
  \/ LockAccount(s) \/ FindBlockers(s) \/ Anonymize(s)

Rule ==
  \/ Reject \/ Suspend \/ Reinstate \/ \E role \in Assignable : SetRole(role)
  \/ \E s \in Sessions : CreateDocumentUrl(s) \/ ApplyDecision(s) \/ GrantRole(s) \/ Refuse(s)
  \/ \E k \in Keys : ApproveProof(k) \/ RejectProof(k)

\* Nobody is left to ask for anything.
Gone ==
  /\ account.status = "DELETED" /\ ~login
  /\ \A s \in Sessions : req[s] = None
  /\ UNCHANGED vars

Next ==
  \/ \E s \in Sessions : Store(s) \/ Live(s) \/ TransactionFails(s) \/ DetectDeadlock(s)
  \/ Rule \/ SignOut \/ BookService \/ SellService \/ AppointmentOver \/ Crash \/ Gone

Spec == Init /\ [][Next]_vars

----------------------------------------------------------------------------
(* What must hold.                                                         *)

\* Every table, request and lock is of the shape the code gives it.
TypeOK ==
  /\ account \in Account /\ login \in BOOLEAN /\ upcoming \subseteq Writers
  /\ identity \in Identity \cup {None}
  /\ proofs \in [Keys -> ProofStatus \cup {None}]
  /\ files \subseteq Keys /\ objects \subseteq Keys
  /\ req \in [Sessions -> Request \cup {None}]
  /\ lock \in [{"user", "identity"} -> Sessions \cup {None}]
  /\ excused \subseteq Keys /\ unsure \subseteq Keys /\ faults \in 0..MaxFaults
  /\ assigned \in Roles \cup {None}

\* "A reader can never see a row whose object is missing" (ChatFilesService),
\* "a record naming a key that never landed is worse than an object nobody names"
\* (IdentityVerificationService): true of all four kinds unless a commit's answer
\* was lost, when the upload removes the object its own row names.
NamedObjectsExist == Named \ unsure \subseteq objects

\* An object nothing names and no request is about to name or remove was left by
\* a fault, or by deleteMe(), which forgets the scans and proofs it stores.
NothingLingers == objects \ (Named \cup Held) \subseteq excused

\* The role of a person is the one set-role gave last, until an approval makes an
\* advisor of whoever is not an admin; without a set-role since, nobody is an admin
\* and an identity is VERIFIED exactly while its owner is an advisor, but for what
\* the deletion of the account leaves of the role (approve()).
RoleMatchesIdentity ==
  /\ assigned = None =>
       /\ account.role # "admin"
       /\ Verified => account.role = "advisor"
       /\ account.role = "advisor" => Verified \/ account.status = "DELETED"
  /\ assigned # None => account.role = assigned

\* Two admins ruling on one document cannot both succeed: a document once ruled
\* on keeps its ruling (decide(), approve(), review()).
RulingStands ==
  [][/\ (identity # None /\ identity.status \in {"VERIFIED", "REJECTED"})
            => (identity' = None \/ identity'.document # identity.document
                 \/ identity' = identity)
     /\ \A k \in Keys : proofs[k] \in {"APPROVED", "REJECTED"}
            => proofs'[k] \in {None, proofs[k]}]_vars

\* An account is deleted only while no appointment that was booked names it,
\* however late the booking was let through the guard or made by another
\* (anonymizeById()); see DeletesOnlyUnnamed for the ones that were sold.
DeletesOnlyFree ==
  [][(account.status # "DELETED" /\ account'.status = "DELETED")
       => "booked" \notin upcoming]_vars

\* "The identity is never VERIFIED without user.role = 'advisor', nor the other way
\* round" (approve()): but for an admin, and after a set-role.
VerifiedIsAdvisor ==
  account.status # "DELETED" => (Verified <=> account.role = "advisor")

\* "The API rechecks upcoming appointments inside the deletion transaction and
\* returns 409 without changing the account while any remain": an invoice for the
\* Advisor's Service commits its appointment between the look and the erasure.
DeletesOnlyUnnamed ==
  [][(account.status # "DELETED" /\ account'.status = "DELETED") => upcoming = {}]_vars

\* "A completed deletion cannot leave an authenticated account behind": a sign-in
\* under way inserts its session once the deletion has committed.
SignedOutForGood == account.status = "DELETED" => ~login

\* "An ID-card scan nothing references any more must not linger", without a fault.
NoScanLingers == objects \subseteq Named \cup Held

\* "A SUBMITTED document is under review and is not swapped out from under the
\* reviewer": rejected by another and submitted anew, it is, and the approval,
\* which names the person only, falls on a document its admin never opened.
ApprovedWhatWasSeen ==
  [][\A s \in Sessions : At(s, "grant") /\ identity' # identity /\ lock' # lock
       => identity.document = req[s].key]_vars

\* What a deletion erases stays erased: not while uploads and edits let through
\* the guard before it are running.
ErasedForGood ==
  account.status = "DELETED" =>
    ~account.personal /\ account.avatar = None /\ identity = None
=============================================================================
