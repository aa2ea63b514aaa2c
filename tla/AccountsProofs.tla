--------------------------- MODULE AccountsProofs ---------------------------
(***************************************************************************)
(* Theorems about Accounts: any number of requests and objects, any faults.*)
(***************************************************************************)
EXTENDS Accounts, TLAPS

----------------------------------------------------------------------------
(* The inductive invariant.                                                 *)

Uploading(s) == req[s] # None /\ req[s].op \in Kinds /\ req[s].pc \in {"put", "record"}
Cleaning(s) == At(s, "cleanup")

\* What each request may be about at each of its steps.
ShapeOK(s) ==
  LET q == req[s]
  IN  q # None =>
        /\ q.op \in Kinds => q.pc \in {"put", "record", "cleanup"} /\ q.key \in Keys
        /\ q.op = "removeFile" => q.pc \in {"record", "cleanup"} /\ q.key \in Keys
        /\ q.op = "approve" => q.pc \in {"rule", "grant"}
        /\ q.op = "call" =>
             \/ q.pc = "cleanup" /\ q.key \in Keys
             \/ q.key = None
                /\ q.pc \in {"book", "update", "signIn", "lock", "check", "erase"}

TypeInv == TypeOK /\ \A s \in Sessions : ShapeOK(s)

\* A lock belongs to the request whose transaction took it, and what that
\* transaction read stays true under it.
LocksOK ==
  /\ \A s \in Sessions : (At(s, "check") \/ At(s, "erase")) <=> lock.user = s
  /\ \A s \in Sessions : At(s, "grant") <=> lock.identity = s
  /\ \A s \in Sessions : At(s, "erase") => "booked" \notin upcoming
  /\ \A s \in Sessions : At(s, "grant") => identity # None /\ identity.status = "SUBMITTED"

\* Whether the record of a kind names the object.
Names(kind, k) ==
  \/ kind = "avatar" /\ account.avatar = k
  \/ kind = "identity" /\ identity # None /\ identity.document = k
  \/ kind = "proof" /\ proofs[k] # None
  \/ kind = "file" /\ k \in files

Unnamed(k) == \A kind \in Kinds : ~Names(kind, k)

NamedOnce ==
  \A k \in Keys, x, y \in Kinds : Names(x, k) /\ Names(y, k) => x = y

\* The name of an upload is its own, and its object is stored when its record is
\* about to be written.
UploadsOK ==
  \A s \in Sessions :
    Uploading(s) =>
      /\ Unnamed(req[s].key)
      /\ \A t \in Sessions \ {s} : req[t] # None => req[t].key # req[s].key
      /\ req[s].pc = "record" <=> req[s].key \in objects

\* What is about to be removed is named by nothing, unless a lost answer made
\* its upload believe so.
CleaningOK ==
  \A s \in Sessions : Cleaning(s) => Unnamed(req[s].key) \/ req[s].key \in unsure

Existing == \A k \in Keys : k \in objects \/ k \in unsure \/ Unnamed(k)

\* The requests that will still name their object or remove it.
Holds(s, k) ==
  /\ req[s] # None /\ req[s].key = k /\ req[s].op # "approve"
  /\ ~(req[s].op = "removeFile" /\ req[s].pc = "record")

Accounted ==
  \A k \in objects : \/ ~Unnamed(k) \/ k \in excused
                     \/ \E s \in Sessions : Holds(s, k)

DocumentsOK == NamedOnce /\ UploadsOK /\ CleaningOK /\ Existing /\ Accounted

IInv == TypeInv /\ LocksOK /\ DocumentsOK /\ RoleMatchesIdentity

----------------------------------------------------------------------------
(* What a step does to the documents.                                       *)

OthersKept(s) == \A t \in Sessions \ {s} : req'[t] = req[t]

SameNames == \A kind \in Kinds, k \in Keys : Names(kind, k)' <=> Names(kind, k)

\* No object is named, stored or held otherwise than before.
Quiet(s) ==
  /\ SameNames /\ UNCHANGED <<objects, excused, unsure>> /\ OthersKept(s)
  /\ \A k \in Keys : ~Holds(s, k) /\ ~Holds(s, k)'
  /\ req'[s] # None /\ req'[s].key \in Keys =>
       ~Unnamed(req'[s].key) \/ (req[s] # None /\ req[s].key = req'[s].key)

\* A fresh name.
Begins(s) ==
  /\ SameNames /\ UNCHANGED <<objects, excused, unsure>> /\ OthersKept(s)
  /\ req[s] = None
  /\ req'[s] # None /\ req'[s].op \in Kinds /\ req'[s].pc = "put"
  /\ req'[s].key \in Keys /\ Free(req'[s].key)

Stores(s) ==
  /\ SameNames /\ UNCHANGED <<excused, unsure>> /\ OthersKept(s)
  /\ Uploading(s) /\ req[s].pc = "put"
  /\ Uploading(s)' /\ req'[s].pc = "record" /\ req'[s].key = req[s].key
  /\ objects' = objects \cup {req[s].key}

\* The object may be stored although its upload was told that it was not.
LosesPut(s) ==
  /\ SameNames /\ UNCHANGED unsure /\ OthersKept(s)
  /\ Uploading(s) /\ req[s].pc = "put" /\ req'[s] = None
  /\ \/ UNCHANGED <<objects, excused>>
     \/ /\ objects' = objects \cup {req[s].key}
        /\ excused' = excused \cup {req[s].key}

\* The record of a kind names the object `key' of the upload instead of `old'.
Records(s, kind, key, old) ==
  /\ Uploading(s) /\ req[s].pc = "record" /\ OthersKept(s) /\ UNCHANGED objects
  /\ kind = req[s].op /\ key = req[s].key
  /\ Names(kind, key)'
  /\ \A x \in Kinds, k \in Keys \ {key} :
       Names(x, k)' <=> Names(x, k) /\ ~(x = kind /\ k = old)
  /\ \A x \in Kinds \ {kind} : ~Names(x, key)'
  /\ old \in Keys => Names(kind, old)
  /\ \/ /\ UNCHANGED <<excused, unsure>>
        /\ IF old = None THEN req'[s] = None
           ELSE Cleaning(s)' /\ req'[s].key = old
     \/ /\ Cleaning(s)' /\ req'[s].key = key
        /\ unsure' = unsure \cup {key}
        /\ excused' = excused \cup ({old} \ {None})

\* The record is not written, and the object is to be removed again.
GivesUp(s) ==
  /\ SameNames /\ UNCHANGED <<objects, excused, unsure>> /\ OthersKept(s)
  /\ Uploading(s)
  /\ Cleaning(s)' /\ req'[s].key = req[s].key

Removes(s) ==
  /\ SameNames /\ UNCHANGED unsure /\ OthersKept(s)
  /\ Cleaning(s) /\ req'[s] = None
  /\ \/ objects' = objects \ {req[s].key} /\ UNCHANGED excused
     \/ excused' = excused \cup {req[s].key} /\ UNCHANGED objects

\* The record of a kind forgets an object, which is to be removed.
Drops(s, kind, old) ==
  /\ UNCHANGED <<objects, excused, unsure>> /\ OthersKept(s)
  /\ \A k \in Keys : ~Holds(s, k)
  /\ Names(kind, old)
  /\ \A x \in Kinds, k \in Keys : Names(x, k)' <=> Names(x, k) /\ ~(x = kind /\ k = old)
  /\ Cleaning(s)' /\ req'[s].key = old

\* The account is erased: all but the files are forgotten, and all of those but
\* the avatar stay in the storage.
Erases(s) ==
  /\ UNCHANGED <<objects, unsure>> /\ OthersKept(s)
  /\ \A k \in Keys : ~Holds(s, k)
  /\ \A x \in Kinds, k \in Keys : Names(x, k)' <=> x = "file" /\ Names(x, k)
  /\ excused \subseteq excused'
  /\ \A k \in Keys : ~Unnamed(k) => \/ Names("file", k) \/ k \in excused'
                                    \/ account.avatar = k
  /\ IF account.avatar = None THEN req'[s] = None
     ELSE Cleaning(s)' /\ req'[s].key = account.avatar

Crashes ==
  /\ SameNames /\ UNCHANGED <<objects, unsure>>
  /\ \A s \in Sessions : req'[s] = None
  /\ excused \subseteq excused'
  /\ \A k \in objects : Unnamed(k) /\ (\E s \in Sessions : Holds(s, k)) => k \in excused'

Untouched == SameNames /\ UNCHANGED <<objects, excused, unsure, req>>

\* What holds of the request of one session.
UploadOK(s) ==
  Uploading(s) =>
    /\ Unnamed(req[s].key)
    /\ \A t \in Sessions \ {s} : req[t] # None => req[t].key # req[s].key
    /\ req[s].pc = "record" <=> req[s].key \in objects
CleanOK(s) == Cleaning(s) => Unnamed(req[s].key) \/ req[s].key \in unsure

LEMMA Holders ==
  ASSUME TypeInv, NEW s \in Sessions
  PROVE  /\ Uploading(s) \/ Cleaning(s) => req[s].key \in Keys /\ Holds(s, req[s].key)
         /\ Uploading(s) => ~Cleaning(s)
         /\ \A k \in Keys : Holds(s, k) => Uploading(s) \/ Cleaning(s)
<1>1. req[s] # None => req[s] \in Request
  BY DEF TypeInv, TypeOK
<1>2. ShapeOK(s) /\ None \notin Keys
  BY AccountsAssumption DEF TypeInv
<1> QED
  BY <1>1, <1>2 DEF Uploading, Cleaning, Holds, At, Kinds, Request, ShapeOK

LEMMA HoldersNext ==
  ASSUME TypeInv', NEW s \in Sessions
  PROVE  /\ Uploading(s)' \/ Cleaning(s)' => req'[s].key \in Keys /\ Holds(s, req[s].key)'
         /\ Uploading(s)' => ~Cleaning(s)'
         /\ \A k \in Keys : Holds(s, k)' => Uploading(s)' \/ Cleaning(s)'
<1>1. req'[s] # None => req'[s] \in Request
  BY DEF TypeInv, TypeOK
<1>2. ShapeOK(s)' /\ None \notin Keys
  BY AccountsAssumption DEF TypeInv
<1> QED
  BY <1>1, <1>2 DEF Uploading, Cleaning, Holds, At, Kinds, Request, ShapeOK

LEMMA NamedKeys ==
  ASSUME TypeOK
  PROVE  Named = {k \in Keys : ~Unnamed(k)}
<1>1. /\ account.avatar \in Keys \cup {None} /\ files \subseteq Keys /\ None \notin Keys
      /\ identity # None => identity.document \in Keys \cup {None}
  BY AccountsAssumption DEF TypeOK, Account, Identity
<1> QED
  BY <1>1 DEF Named, Unnamed, Names, Kinds

LEMMA FreeKeys ==
  ASSUME TypeInv, NEW k \in Keys, Free(k)
  PROVE  /\ Unnamed(k) /\ k \notin objects \cup excused \cup unsure
         /\ \A s \in Sessions : req[s] # None => req[s].key # k
BY NamedKeys, AccountsAssumption DEF Free, Known, TypeInv

LEMMA SameUnnamed ==
  ASSUME SameNames, NEW k \in Keys
  PROVE  Unnamed(k)' <=> Unnamed(k)
BY DEF SameNames, Unnamed

\* The sessions a step does not touch are as they were.
LEMMA SameSession ==
  ASSUME NEW t \in Sessions, req'[t] = req[t]
  PROVE  /\ Uploading(t)' <=> Uploading(t)
         /\ Cleaning(t)' <=> Cleaning(t)
         /\ \A k \in Keys : Holds(t, k)' <=> Holds(t, k)
BY DEF Uploading, Cleaning, Holds, At, Kinds

\* The sessions a step does not touch, when it names nothing but its own upload.
LEMMA OthersSafe ==
  ASSUME TypeInv, DocumentsOK, NEW s \in Sessions, OthersKept(s),
         \A k \in Keys : Unnamed(k) => Unnamed(k)' \/ (Uploading(s) /\ k = req[s].key),
         unsure \subseteq unsure',
         \A k \in Keys \ {req[s].key} : k \in objects <=> k \in objects',
         req'[s] # None /\ req'[s].key \in Keys =>
           \/ ~Unnamed(req'[s].key)
           \/ req[s] # None /\ req[s].key = req'[s].key
           \/ Free(req'[s].key),
         req[s] = None => UNCHANGED objects,
         NEW t \in Sessions \ {s}
  PROVE  UploadOK(t)' /\ CleanOK(t)'
<1>1. req'[t] = req[t]
  BY DEF OthersKept
<1>2. PICK k : k = req[t].key
  OBVIOUS
<1>3. UploadOK(t)'
  <2> SUFFICES ASSUME Uploading(t)
               PROVE  /\ Unnamed(k)'
                      /\ \A x \in Sessions \ {t} : req'[x] # None => req'[x].key # k
                      /\ req[t].pc = "record" <=> k \in objects'
    BY <1>1, <1>2, SameSession DEF UploadOK, Unnamed, Names
  <2>1. /\ k \in Keys /\ Unnamed(k) /\ req[t] # None
        /\ \A x \in Sessions \ {t} : req[x] # None => req[x].key # k
        /\ req[t].pc = "record" <=> k \in objects
    BY <1>2, Holders DEF DocumentsOK, UploadsOK, Uploading
  <2>2. ~Free(k)
    BY <1>2, <2>1, FreeKeys
  <2>3. Unnamed(k)'
    BY <2>1 DEF Uploading
  <2>4. req'[s] # None => req'[s].key # k
    BY <2>1, <2>2
  <2>5. \A x \in Sessions \ {t} : req'[x] # None => req'[x].key # k
    BY <2>1, <2>4 DEF OthersKept
  <2>6. k \in objects <=> k \in objects'
    BY <2>1
  <2> QED
    BY <2>1, <2>3, <2>5, <2>6
<1>4. CleanOK(t)'
  <2> SUFFICES ASSUME Cleaning(t) PROVE Unnamed(k)' \/ k \in unsure'
    BY <1>1, <1>2, SameSession DEF CleanOK, Unnamed, Names
  <2>1. k \in Keys /\ (Unnamed(k) \/ k \in unsure)
    BY <1>2, Holders DEF DocumentsOK, CleaningOK
  <2>2. Uploading(s) => req[s].key # k
    BY <1>2 DEF DocumentsOK, UploadsOK, Cleaning, At
  <2> QED
    BY <2>1, <2>2
<1> QED
  BY <1>3, <1>4

\* Whoever else holds an object still does.
LEMMA StillHeld ==
  ASSUME NEW s \in Sessions, OthersKept(s), NEW k \in Keys,
         \E t \in Sessions : Holds(t, k), ~Holds(s, k)
  PROVE  \E t \in Sessions : Holds(t, k)'
BY SameSession DEF OthersKept

LEMMA Gathered ==
  ASSUME NEW s \in Sessions, UploadOK(s)', CleanOK(s)',
         \A t \in Sessions \ {s} : UploadOK(t)' /\ CleanOK(t)',
         NamedOnce', Existing', Accounted'
  PROVE  DocumentsOK'
BY DEF DocumentsOK, UploadsOK, CleaningOK, UploadOK, CleanOK

LEMMA QuietStep ==
  ASSUME TypeInv, TypeInv', DocumentsOK, NEW s \in Sessions, Quiet(s)
  PROVE  DocumentsOK'
<1>1. /\ SameNames /\ objects' = objects /\ excused' = excused /\ unsure' = unsure
      /\ OthersKept(s)
      /\ \A k \in Keys : ~Holds(s, k) /\ ~Holds(s, k)'
  BY DEF Quiet
<1>2. /\ ~Uploading(s) /\ ~Cleaning(s) /\ ~Uploading(s)' /\ ~Cleaning(s)'
  BY <1>1, Holders, HoldersNext
<1>3. UploadOK(s)' /\ CleanOK(s)'
  BY <1>2 DEF UploadOK, CleanOK
<1>4. \A t \in Sessions \ {s} : UploadOK(t)' /\ CleanOK(t)'
  BY <1>1, SameUnnamed, OthersSafe DEF Quiet
<1>5. NamedOnce' /\ Existing'
  BY <1>1, SameUnnamed DEF DocumentsOK, NamedOnce, Existing, SameNames
<1>6. Accounted'
  <2> SUFFICES ASSUME NEW k \in objects', Unnamed(k)', k \notin excused'
               PROVE  \E t \in Sessions : Holds(t, k)'
    BY DEF Accounted
  <2>1. k \in Keys /\ Unnamed(k)
    BY SameUnnamed, <1>1 DEF TypeInv, TypeOK
  <2>2. \E t \in Sessions : Holds(t, k)
    BY <1>1, <2>1 DEF DocumentsOK, Accounted
  <2> QED
    BY <1>1, <2>1, <2>2, StillHeld
<1> QED
  BY <1>3, <1>4, <1>5, <1>6, Gathered

LEMMA BeginStep ==
  ASSUME TypeInv, TypeInv', DocumentsOK, NEW s \in Sessions, Begins(s)
  PROVE  DocumentsOK'
<1>1. /\ SameNames /\ objects' = objects /\ excused' = excused /\ unsure' = unsure
      /\ OthersKept(s) /\ req[s] = None
  BY DEF Begins
<1>2. PICK k \in Keys : k = req'[s].key /\ Free(k)
  BY DEF Begins
<1>3. /\ Unnamed(k)' /\ k \notin objects
      /\ \A t \in Sessions : req[t] # None => req[t].key # k
  BY <1>1, <1>2, FreeKeys, SameUnnamed
<1>4. UploadOK(s)' /\ CleanOK(s)'
  BY <1>1, <1>2, <1>3 DEF UploadOK, CleanOK, Cleaning, At, Unnamed, Names, OthersKept, Begins
<1>5. \A t \in Sessions \ {s} : UploadOK(t)' /\ CleanOK(t)'
  BY <1>1, <1>2, SameUnnamed, OthersSafe
<1>6. NamedOnce' /\ Existing'
  BY <1>1, SameUnnamed DEF DocumentsOK, NamedOnce, Existing, SameNames
<1>7. Accounted'
  <2> SUFFICES ASSUME NEW x \in objects', Unnamed(x)', x \notin excused'
               PROVE  \E t \in Sessions : Holds(t, x)'
    BY DEF Accounted
  <2>1. x \in Keys /\ Unnamed(x)
    BY SameUnnamed, <1>1 DEF TypeInv, TypeOK
  <2>2. \E t \in Sessions : Holds(t, x)
    BY <1>1, <2>1 DEF DocumentsOK, Accounted
  <2> QED
    BY <1>1, <2>1, <2>2, StillHeld DEF Holds
<1> QED
  BY <1>4, <1>5, <1>6, <1>7, Gathered

LEMMA StoreStep ==
  ASSUME TypeInv, TypeInv', DocumentsOK, NEW s \in Sessions, Stores(s)
  PROVE  DocumentsOK'
<1>1. /\ SameNames /\ excused' = excused /\ unsure' = unsure /\ OthersKept(s)
      /\ Uploading(s) /\ Uploading(s)' /\ req'[s].pc = "record" /\ req[s] # None
  BY DEF Stores, Uploading
<1>2. PICK k \in Keys : k = req[s].key /\ k = req'[s].key /\ objects' = objects \cup {k}
  BY <1>1, Holders DEF Stores
<1>3. /\ Unnamed(k) /\ Unnamed(k)'
      /\ \A t \in Sessions \ {s} : req[t] # None => req[t].key # k
  BY <1>1, <1>2, SameUnnamed DEF DocumentsOK, UploadsOK
<1>4. UploadOK(s)' /\ CleanOK(s)'
  BY <1>1, <1>2, <1>3 DEF UploadOK, CleanOK, Cleaning, At, Unnamed, Names, OthersKept
<1>5. \A t \in Sessions \ {s} : UploadOK(t)' /\ CleanOK(t)'
  BY <1>1, <1>2, SameUnnamed, OthersSafe
<1>6. NamedOnce' /\ Existing'
  BY <1>1, <1>2, SameUnnamed DEF DocumentsOK, NamedOnce, Existing, SameNames
<1>7. Accounted'
  <2> SUFFICES ASSUME NEW x \in objects', Unnamed(x)', x \notin excused'
               PROVE  \E t \in Sessions : Holds(t, x)'
    BY DEF Accounted
  <2>1. CASE x = k
    BY <1>1, <1>2, <2>1, HoldersNext DEF Holds
  <2>2. CASE x # k
    <3>1. x \in Keys /\ x \in objects /\ Unnamed(x)
      BY <1>1, <1>2, <2>2, SameUnnamed DEF TypeInv, TypeOK
    <3>2. \E t \in Sessions : Holds(t, x)
      BY <1>1, <3>1 DEF DocumentsOK, Accounted
    <3> QED
      BY <1>1, <1>2, <2>2, <3>1, <3>2, StillHeld DEF Holds
  <2> QED
    BY <2>1, <2>2
<1> QED
  BY <1>4, <1>5, <1>6, <1>7, Gathered

LEMMA LostPutStep ==
  ASSUME TypeInv, TypeInv', DocumentsOK, NEW s \in Sessions, LosesPut(s)
  PROVE  DocumentsOK'
<1>1. /\ SameNames /\ unsure' = unsure /\ OthersKept(s)
      /\ Uploading(s) /\ req[s].pc = "put" /\ req[s] # None /\ req'[s] = None
  BY DEF LosesPut, Uploading
<1>2. PICK k \in Keys : /\ k = req[s].key /\ k \notin objects
                         /\ \/ objects' = objects /\ excused' = excused
                            \/ objects' = objects \cup {k} /\ excused' = excused \cup {k}
  BY <1>1, Holders DEF LosesPut, DocumentsOK, UploadsOK
<1>3. UploadOK(s)' /\ CleanOK(s)'
  BY <1>1 DEF UploadOK, CleanOK, Cleaning, Uploading, At
<1>4. \A t \in Sessions \ {s} : UploadOK(t)' /\ CleanOK(t)'
  BY <1>1, <1>2, SameUnnamed, OthersSafe
<1>5. NamedOnce' /\ Existing'
  BY <1>1, <1>2, SameUnnamed DEF DocumentsOK, NamedOnce, Existing, SameNames
<1>6. Accounted'
  <2> SUFFICES ASSUME NEW x \in objects', Unnamed(x)', x \notin excused'
               PROVE  \E t \in Sessions : Holds(t, x)'
    BY DEF Accounted
  <2>1. x \in Keys /\ x \in objects /\ Unnamed(x) /\ x # k
    BY <1>1, <1>2, SameUnnamed DEF TypeInv, TypeOK
  <2>2. \E t \in Sessions : Holds(t, x)
    BY <1>2, <2>1 DEF DocumentsOK, Accounted
  <2> QED
    BY <1>1, <1>2, <2>1, <2>2, StillHeld DEF Holds
<1> QED
  BY <1>3, <1>4, <1>5, <1>6, Gathered

LEMMA GiveUpStep ==
  ASSUME TypeInv, TypeInv', DocumentsOK, NEW s \in Sessions, GivesUp(s)
  PROVE  DocumentsOK'
<1>1. /\ SameNames /\ objects' = objects /\ excused' = excused /\ unsure' = unsure
      /\ OthersKept(s) /\ Uploading(s) /\ Cleaning(s)' /\ req[s] # None
  BY DEF GivesUp, Uploading
<1>2. PICK k \in Keys : k = req[s].key /\ k = req'[s].key
  BY <1>1, Holders DEF GivesUp
<1>3. Unnamed(k)'
  BY <1>1, <1>2, SameUnnamed DEF DocumentsOK, UploadsOK
<1>4. UploadOK(s)' /\ CleanOK(s)'
  BY <1>1, <1>2, <1>3, HoldersNext DEF UploadOK, CleanOK, Unnamed, Names
<1>5. \A t \in Sessions \ {s} : UploadOK(t)' /\ CleanOK(t)'
  BY <1>1, <1>2, SameUnnamed, OthersSafe
<1>6. NamedOnce' /\ Existing'
  BY <1>1, SameUnnamed DEF DocumentsOK, NamedOnce, Existing, SameNames
<1>7. Accounted'
  <2> SUFFICES ASSUME NEW x \in objects', Unnamed(x)', x \notin excused'
               PROVE  \E t \in Sessions : Holds(t, x)'
    BY DEF Accounted
  <2>1. CASE x = k
    BY <1>1, <1>2, <2>1, HoldersNext DEF Holds
  <2>2. CASE x # k
    <3>1. x \in Keys /\ x \in objects /\ Unnamed(x)
      BY <1>1, SameUnnamed DEF TypeInv, TypeOK
    <3>2. \E t \in Sessions : Holds(t, x)
      BY <1>1, <3>1 DEF DocumentsOK, Accounted
    <3> QED
      BY <1>1, <1>2, <2>2, <3>1, <3>2, StillHeld DEF Holds
  <2> QED
    BY <2>1, <2>2
<1> QED
  BY <1>4, <1>5, <1>6, <1>7, Gathered

LEMMA RemoveStep ==
  ASSUME TypeInv, TypeInv', DocumentsOK, NEW s \in Sessions, Removes(s)
  PROVE  DocumentsOK'
<1>1. /\ SameNames /\ unsure' = unsure /\ OthersKept(s)
      /\ Cleaning(s) /\ req[s] # None /\ req'[s] = None
  BY DEF Removes, Cleaning, At
<1>2. PICK k \in Keys : /\ k = req[s].key /\ (Unnamed(k) \/ k \in unsure)
                         /\ \/ objects' = objects \ {k} /\ excused' = excused
                            \/ objects' = objects /\ excused' = excused \cup {k}
  BY <1>1, Holders DEF Removes, DocumentsOK, CleaningOK
<1>3. UploadOK(s)' /\ CleanOK(s)'
  BY <1>1 DEF UploadOK, CleanOK, Cleaning, Uploading, At
<1>4. \A t \in Sessions \ {s} : UploadOK(t)' /\ CleanOK(t)'
  BY <1>1, <1>2, SameUnnamed, OthersSafe
<1>5. NamedOnce' /\ Existing'
  BY <1>1, <1>2, SameUnnamed DEF DocumentsOK, NamedOnce, Existing, SameNames
<1>6. Accounted'
  <2> SUFFICES ASSUME NEW x \in objects', Unnamed(x)', x \notin excused'
               PROVE  \E t \in Sessions : Holds(t, x)'
    BY DEF Accounted
  <2>1. x \in Keys /\ x \in objects /\ Unnamed(x) /\ x # k
    BY <1>1, <1>2, SameUnnamed DEF TypeInv, TypeOK
  <2>2. \E t \in Sessions : Holds(t, x)
    BY <1>2, <2>1 DEF DocumentsOK, Accounted
  <2> QED
    BY <1>1, <1>2, <2>1, <2>2, StillHeld DEF Holds
<1> QED
  BY <1>3, <1>4, <1>5, <1>6, Gathered

LEMMA RecordStep ==
  ASSUME TypeInv, TypeInv', DocumentsOK, NEW s \in Sessions,
         NEW op \in Kinds, NEW k \in Keys, NEW old \in Keys \cup {None},
         Records(s, op, k, old)
  PROVE  DocumentsOK'
<1>1. /\ objects' = objects /\ OthersKept(s) /\ unsure \subseteq unsure'
      /\ excused \subseteq excused'
      /\ Uploading(s) /\ req[s].pc = "record" /\ req[s] # None /\ req[s].op \in Kinds
      /\ None \notin Keys
  BY AccountsAssumption DEF Records, Uploading
<1>2. /\ k = req[s].key /\ Unnamed(k) /\ k \in objects
      /\ \A t \in Sessions \ {s} : req[t] # None => req[t].key # k
  BY <1>1 DEF Records, DocumentsOK, UploadsOK
<1>4. /\ Names(op, k)'
      /\ \A x \in Kinds \ {op} : ~Names(x, k)'
      /\ \A x \in Kinds, y \in Keys \ {k} :
           Names(x, y)' <=> Names(x, y) /\ ~(x = op /\ y = old)
      /\ old \in Keys => Names(op, old)
  BY DEF Records
<1>5. /\ ~Unnamed(k)'
      /\ \A y \in Keys \ {k} : Unnamed(y) => Unnamed(y)'
      /\ \A y \in Keys \ {k, old} : Unnamed(y)' => Unnamed(y)
      /\ old \in Keys => old # k /\ ~Unnamed(old) /\ Unnamed(old)'
  <2>1. old \in Keys => old # k /\ ~Unnamed(old)
    BY <1>2, <1>4 DEF Unnamed
  <2>2. old \in Keys => Unnamed(old)'
    BY <1>4, <2>1 DEF Unnamed, DocumentsOK, NamedOnce
  <2> QED
    BY <1>4, <2>1, <2>2 DEF Unnamed
<1>6. \/ /\ excused' = excused /\ unsure' = unsure
         /\ IF old = None THEN req'[s] = None
            ELSE Cleaning(s)' /\ req'[s].key = old
      \/ /\ Cleaning(s)' /\ req'[s].key = k
         /\ unsure' = unsure \cup {k}
         /\ excused' = excused \cup ({old} \ {None})
  BY <1>2 DEF Records
<1>7. UploadOK(s)' /\ CleanOK(s)'
  <2>1. ~Uploading(s)'
    BY <1>6, HoldersNext DEF Uploading
  <2>2. Cleaning(s)' => \/ old \in Keys /\ req'[s].key = old
                        \/ req'[s].key = k /\ k \in unsure'
    BY <1>6, HoldersNext DEF Cleaning, At
  <2>3. CleanOK(s)'
    BY <1>5, <2>2 DEF CleanOK, Unnamed, Names
  <2> QED
    BY <2>1, <2>3 DEF UploadOK
<1>8. \A t \in Sessions \ {s} : UploadOK(t)' /\ CleanOK(t)'
  <2>1. \A y \in Keys : Unnamed(y) => Unnamed(y)' \/ (Uploading(s) /\ y = req[s].key)
    BY <1>1, <1>2, <1>5
  <2>2. req'[s] # None /\ req'[s].key \in Keys =>
          ~Unnamed(req'[s].key) \/ req[s].key = req'[s].key
    BY <1>2, <1>5, <1>6
  <2> QED
    BY <1>1, <2>1, <2>2, OthersSafe
<1>9. NamedOnce'
  <2> SUFFICES ASSUME NEW y \in Keys, NEW x \in Kinds, NEW z \in Kinds,
                      Names(x, y)', Names(z, y)'
               PROVE  x = z
    BY DEF NamedOnce, Kinds
  <2>1. CASE y = k
    BY <1>4, <2>1
  <2>2. CASE y # k
    BY <1>4, <2>2 DEF DocumentsOK, NamedOnce
  <2> QED
    BY <2>1, <2>2
<1>10. Existing'
  <2> SUFFICES ASSUME NEW y \in Keys PROVE y \in objects' \/ y \in unsure' \/ Unnamed(y)'
    BY DEF Existing
  <2> QED
    BY <1>1, <1>2, <1>5 DEF DocumentsOK, Existing
<1>11. Accounted'
  <2> SUFFICES ASSUME NEW x \in objects', Unnamed(x)', x \notin excused'
               PROVE  \E t \in Sessions : Holds(t, x)'
    BY DEF Accounted
  <2>1. x \in Keys /\ x \in objects /\ x # k
    BY <1>1, <1>5 DEF TypeInv, TypeOK
  <2>2. CASE x = old
    <3>1. Cleaning(s)' /\ req'[s].key = old
      BY <1>1, <1>6, <2>1, <2>2
    <3> QED
      BY <2>2, <3>1, HoldersNext DEF Holds
  <2>3. CASE x # old
    <3>1. Unnamed(x) /\ x \notin excused
      BY <1>1, <1>5, <2>1, <2>3
    <3>2. \E t \in Sessions : Holds(t, x)
      BY <2>1, <3>1 DEF DocumentsOK, Accounted
    <3> QED
      BY <1>1, <1>2, <2>1, <3>2, StillHeld DEF Holds
  <2> QED
    BY <2>2, <2>3
<1> QED
  BY <1>7, <1>8, <1>9, <1>10, <1>11, Gathered

LEMMA DropStep ==
  ASSUME TypeInv, TypeInv', DocumentsOK, NEW s \in Sessions, NEW kind \in Kinds,
         NEW old \in Keys, Drops(s, kind, old)
  PROVE  DocumentsOK'
<1>1. /\ objects' = objects /\ OthersKept(s) /\ unsure' = unsure /\ excused' = excused
      /\ \A k \in Keys : ~Holds(s, k)
      /\ Cleaning(s)' /\ req'[s].key = old
      /\ Names(kind, old)
      /\ \A x \in Kinds, k \in Keys : Names(x, k)' <=> Names(x, k) /\ ~(x = kind /\ k = old)
  BY DEF Drops
<1>2. /\ ~Unnamed(old) /\ Unnamed(old)'
      /\ \A k \in Keys : Unnamed(k) => Unnamed(k)'
      /\ \A k \in Keys \ {old} : Unnamed(k)' => Unnamed(k)
  BY <1>1 DEF Unnamed, DocumentsOK, NamedOnce
<1>3. UploadOK(s)' /\ CleanOK(s)'
  BY <1>1, <1>2, HoldersNext DEF UploadOK, CleanOK, Unnamed, Names
<1>4. \A t \in Sessions \ {s} : UploadOK(t)' /\ CleanOK(t)'
  BY <1>1, <1>2, OthersSafe
<1>5. NamedOnce' /\ Existing'
  BY <1>1, <1>2 DEF DocumentsOK, NamedOnce, Existing
<1>6. Accounted'
  <2> SUFFICES ASSUME NEW x \in objects', Unnamed(x)', x \notin excused'
               PROVE  \E t \in Sessions : Holds(t, x)'
    BY DEF Accounted
  <2>1. x \in Keys /\ x \in objects
    BY <1>1 DEF TypeInv, TypeOK
  <2>2. CASE x = old
    BY <1>1, <2>2, HoldersNext DEF Holds
  <2>3. CASE x # old
    <3>1. \E t \in Sessions : Holds(t, x)
      BY <1>1, <1>2, <2>1, <2>3 DEF DocumentsOK, Accounted
    <3> QED
      BY <1>1, <2>1, <3>1, StillHeld
  <2> QED
    BY <2>2, <2>3
<1> QED
  BY <1>3, <1>4, <1>5, <1>6, Gathered

LEMMA EraseStep ==
  ASSUME TypeInv, TypeInv', DocumentsOK, NEW s \in Sessions, Erases(s)
  PROVE  DocumentsOK'
<1>1. /\ objects' = objects /\ OthersKept(s) /\ unsure' = unsure /\ excused \subseteq excused'
      /\ \A k \in Keys : ~Holds(s, k)
      /\ \A x \in Kinds, k \in Keys : Names(x, k)' <=> x = "file" /\ Names(x, k)
      /\ \A k \in Keys : ~Unnamed(k) => \/ Names("file", k) \/ k \in excused'
                                        \/ account.avatar = k
      /\ account.avatar \in Keys \cup {None} /\ None \notin Keys
  BY AccountsAssumption DEF Erases, TypeInv, TypeOK, Account
<1>2. PICK old : old = account.avatar
  OBVIOUS
<1>3. /\ "avatar" \in Kinds /\ "file" \in Kinds
      /\ old \in Keys => Names("avatar", old)
  BY <1>2 DEF Names, Kinds
<1>4. /\ old = None => req'[s] = None
      /\ old \in Keys => Cleaning(s)' /\ req'[s].key = old
  BY <1>1, <1>2 DEF Erases
<1>5. /\ \A k \in Keys : Unnamed(k) => Unnamed(k)'
      /\ \A k \in Keys : Unnamed(k)' => ~Names("file", k)
      /\ old \in Keys => ~Unnamed(old) /\ Unnamed(old)'
  BY <1>1, <1>3 DEF Unnamed, DocumentsOK, NamedOnce
<1>6. UploadOK(s)' /\ CleanOK(s)'
  BY <1>1, <1>2, <1>4, <1>5, HoldersNext DEF UploadOK, CleanOK, Unnamed, Names,
     Uploading, Cleaning, At
<1>7. \A t \in Sessions \ {s} : UploadOK(t)' /\ CleanOK(t)'
  BY <1>1, <1>2, <1>4, <1>5, OthersSafe
<1>8. NamedOnce' /\ Existing'
  BY <1>1, <1>5 DEF DocumentsOK, NamedOnce, Existing
<1>9. Accounted'
  <2> SUFFICES ASSUME NEW x \in objects', Unnamed(x)', x \notin excused'
               PROVE  \E t \in Sessions : Holds(t, x)'
    BY DEF Accounted
  <2>1. x \in Keys /\ x \in objects /\ x \notin excused
    BY <1>1 DEF TypeInv, TypeOK
  <2>2. CASE x = old
    BY <1>4, <2>1, <2>2, HoldersNext DEF Holds
  <2>3. CASE x # old
    <3>1. Unnamed(x)
      BY <1>1, <1>2, <1>5, <2>1, <2>3
    <3>2. \E t \in Sessions : Holds(t, x)
      BY <2>1, <3>1 DEF DocumentsOK, Accounted
    <3> QED
      BY <1>1, <2>1, <3>2, StillHeld
  <2> QED
    BY <2>2, <2>3
<1> QED
  BY <1>6, <1>7, <1>8, <1>9, Gathered

LEMMA CrashStep ==
  ASSUME TypeInv, DocumentsOK, Crashes
  PROVE  DocumentsOK'
<1>1. /\ SameNames /\ objects' = objects /\ unsure' = unsure /\ excused \subseteq excused'
      /\ \A s \in Sessions : req'[s] = None
      /\ \A k \in objects : Unnamed(k) /\ (\E s \in Sessions : Holds(s, k)) => k \in excused'
  BY DEF Crashes
<1>2. NamedOnce' /\ Existing'
  BY <1>1, SameUnnamed DEF DocumentsOK, NamedOnce, Existing, SameNames
<1>3. UploadsOK' /\ CleaningOK'
  BY <1>1 DEF UploadsOK, CleaningOK, Uploading, Cleaning, At
<1>4. Accounted'
  <2> SUFFICES ASSUME NEW x \in objects', Unnamed(x)' PROVE x \in excused'
    BY DEF Accounted
  <2>1. x \in objects /\ Unnamed(x)
    BY <1>1, SameUnnamed DEF TypeInv, TypeOK
  <2> QED
    BY <1>1, <2>1 DEF DocumentsOK, Accounted
<1> QED
  BY <1>2, <1>3, <1>4 DEF DocumentsOK

LEMMA UntouchedStep ==
  ASSUME TypeInv, DocumentsOK, Untouched
  PROVE  DocumentsOK'
<1>1. /\ SameNames /\ objects' = objects /\ unsure' = unsure /\ excused' = excused
      /\ req' = req
  BY DEF Untouched
<1>2. NamedOnce' /\ Existing'
  BY <1>1, SameUnnamed DEF DocumentsOK, NamedOnce, Existing, SameNames
<1>3. \A k \in Keys : Unnamed(k)' <=> Unnamed(k)
  BY <1>1, SameUnnamed
<1>4. UploadsOK' /\ CleaningOK'
  <2>1. \A s \in Sessions : (Uploading(s) \/ Cleaning(s)) => req[s].key \in Keys
    BY Holders
  <2>2. \A s \in Sessions : (Uploading(s) \/ Cleaning(s)) =>
          (Unnamed(req[s].key)' <=> Unnamed(req[s].key))
    <3> SUFFICES ASSUME NEW s \in Sessions, Uploading(s) \/ Cleaning(s)
                 PROVE  Unnamed(req[s].key)' <=> Unnamed(req[s].key)
      OBVIOUS
    <3>1. PICK k \in Keys : k = req[s].key
      BY <2>1
    <3> QED
      BY <1>1, <1>3, <3>1 DEF Unnamed, Names
  <2>3. \A s \in Sessions : (Uploading(s)' <=> Uploading(s)) /\ (Cleaning(s)' <=> Cleaning(s))
    BY <1>1, SameSession
  <2> QED
    BY <1>1, <2>2, <2>3 DEF DocumentsOK, UploadsOK, CleaningOK
<1>5. Accounted'
  BY <1>1, <1>3, SameSession DEF DocumentsOK, Accounted, TypeInv, TypeOK
<1> QED
  BY <1>2, <1>4, <1>5 DEF DocumentsOK

----------------------------------------------------------------------------
(* How the operations move a request.                                       *)

ReqType == req \in [Sessions -> Request \cup {None}]

LEMMA Sets ==
  ASSUME TypeInv, NEW s \in Sessions, NEW q \in Request, req' = [req EXCEPT ![s] = q]
  PROVE  ReqType' /\ OthersKept(s) /\ req'[s] = q /\ req'[s] # None
BY AccountsAssumption DEF TypeInv, TypeOK, ReqType, OthersKept

LEMMA Opens ==
  ASSUME TypeInv, NEW s \in Sessions, NEW op, NEW pc, NEW k,
         [op |-> op, pc |-> pc, key |-> k] \in Request, Open(s, op, pc, k)
  PROVE  /\ ReqType' /\ OthersKept(s) /\ req'[s] # None
         /\ req'[s].op = op /\ req'[s].pc = pc /\ req'[s].key = k
<1> DEFINE q == [op |-> op, pc |-> pc, key |-> k]
<1>1. q.op = op /\ q.pc = pc /\ q.key = k
  OBVIOUS
<1>2. req' = [req EXCEPT ![s] = q]
  BY DEF Open
<1> HIDE DEF q
<1>3. q \in Request
  BY DEF q
<1> QED
  BY <1>1, <1>2, <1>3, Sets

LEMMA GoesOn ==
  ASSUME TypeInv, NEW s \in Sessions, req[s] # None,
         NEW pc \in {"record", "cleanup", "grant", "check", "erase"}, GoTo(s, pc)
  PROVE  /\ ReqType' /\ OthersKept(s) /\ req'[s] # None
         /\ req'[s].op = req[s].op /\ req'[s].pc = pc /\ req'[s].key = req[s].key
<1> DEFINE q == [req[s] EXCEPT !.pc = pc]
<1>1. req[s] \in Request
  BY DEF TypeInv, TypeOK
<1>2. q \in Request /\ q.op = req[s].op /\ q.pc = pc /\ q.key = req[s].key
  BY <1>1 DEF Request
<1>3. req' = [req EXCEPT ![s] = q]
  BY DEF GoTo
<1> HIDE DEF q
<1> QED
  BY <1>2, <1>3, Sets

LEMMA Ends ==
  ASSUME TypeInv, NEW s \in Sessions, End(s)
  PROVE  ReqType' /\ OthersKept(s) /\ req'[s] = None
BY DEF TypeInv, TypeOK, ReqType, OthersKept, End

LEMMA CleansUp ==
  ASSUME TypeInv, NEW s \in Sessions, req[s] # None, NEW k \in Keys \cup {None}, Cleanup(s, k)
  PROVE  /\ ReqType' /\ OthersKept(s)
         /\ IF k = None THEN req'[s] = None
            ELSE /\ req'[s] # None /\ req'[s].pc = "cleanup" /\ req'[s].key = k
                 /\ req'[s].op = req[s].op
<1>1. CASE k = None
  BY <1>1, Ends DEF Cleanup
<1>2. CASE k # None
  <2> DEFINE q == [req[s] EXCEPT !.pc = "cleanup", !.key = k]
  <2>1. req[s] \in Request
    BY DEF TypeInv, TypeOK
  <2>2. q \in Request /\ q.op = req[s].op /\ q.pc = "cleanup" /\ q.key = k
    BY <2>1 DEF Request
  <2>3. req' = [req EXCEPT ![s] = q]
    BY <1>2 DEF Cleanup
  <2> HIDE DEF q
  <2> QED
    BY <1>2, <2>2, <2>3, Sets
<1> QED
  BY <1>1, <1>2

\* A step of the request of one session, in terms of the types.
RowsType ==
  /\ account \in Account /\ login \in BOOLEAN /\ upcoming \subseteq Writers
  /\ identity \in Identity \cup {None}
  /\ proofs \in [Keys -> ProofStatus \cup {None}]
  /\ files \subseteq Keys
RestType ==
  /\ objects \subseteq Keys
  /\ lock \in [{"user", "identity"} -> Sessions \cup {None}]
  /\ excused \subseteq Keys /\ unsure \subseteq Keys /\ faults \in 0..MaxFaults
  /\ assigned \in Roles \cup {None}

LEMMA Typed ==
  ASSUME TypeInv, NEW s \in Sessions, OthersKept(s),
         RowsType', RestType', ReqType', ShapeOK(s)'
  PROVE  TypeInv'
<1>1. TypeOK'
  BY DEF TypeOK, RowsType, RestType, ReqType
<1>2. \A t \in Sessions \ {s} : ShapeOK(t)'
  BY DEF TypeInv, ShapeOK, OthersKept
<1> QED
  BY <1>1, <1>2 DEF TypeInv

LEMMA TypedApart == TypeInv => RowsType /\ RestType /\ ReqType
BY DEF TypeInv, TypeOK, RowsType, RestType, ReqType

LEMMA RowsSame ==
  ASSUME UNCHANGED rows
  PROVE  SameNames /\ UNCHANGED <<account, login, upcoming, identity, proofs, files>>
BY DEF SameNames, Names, rows, Kinds

LEMMA Faulted ==
  ASSUME TypeInv, Fault PROVE faults' \in 0..MaxFaults
BY AccountsAssumption DEF TypeInv, TypeOK, Fault

\* Nothing of the locks is at stake.
Unlocked(s) == ~At(s, "check") /\ ~At(s, "erase") /\ ~At(s, "grant")

LEMMA LocksKept ==
  ASSUME LocksOK, NEW s \in Sessions, OthersKept(s), UNCHANGED lock,
         Unlocked(s), Unlocked(s)',
         UNCHANGED upcoming \/ lock.user = None,
         UNCHANGED identity \/ lock.identity = None
  PROVE  LocksOK'
<1>1. None \notin Sessions
  BY AccountsAssumption
<1>2. \A t \in Sessions \ {s} :
        /\ At(t, "check")' <=> At(t, "check")
        /\ At(t, "erase")' <=> At(t, "erase")
        /\ At(t, "grant")' <=> At(t, "grant")
  BY DEF OthersKept, At
<1> QED
  BY <1>1, <1>2 DEF LocksOK, Unlocked

LEMMA RoleKept ==
  ASSUME RoleMatchesIdentity, Verified' <=> Verified,
         account'.role = account.role, UNCHANGED assigned,
         account'.status = account.status \/ account.status # "DELETED"
  PROVE  RoleMatchesIdentity'
BY DEF RoleMatchesIdentity, Verified

----------------------------------------------------------------------------
(* Storing a document.                                                      *)

LEMMA UploadStep ==
  ASSUME IInv, NEW s \in Sessions, NEW kind \in Kinds, NEW k \in Keys, Upload(s, kind, k)
  PROVE  IInv'
<1>1. /\ req[s] = None /\ Free(k) /\ Open(s, kind, "put", k)
      /\ UNCHANGED rows /\ UNCHANGED <<objects, lock>> /\ UNCHANGED history
  BY DEF Upload
<1>2. [op |-> kind, pc |-> "put", key |-> k] \in Request
  BY DEF Request
<1>3. /\ ReqType' /\ OthersKept(s) /\ req'[s] # None
      /\ req'[s].op = kind /\ req'[s].pc = "put" /\ req'[s].key = k
  BY <1>1, <1>2, Opens DEF IInv
<1>4. ShapeOK(s)'
  BY <1>3 DEF ShapeOK, Kinds
<1>5. TypeInv'
  BY <1>1, <1>3, <1>4, Typed, TypedApart DEF IInv, rows, history, RowsType, RestType
<1>6. Begins(s)
  BY <1>1, <1>3, RowsSame DEF Begins, history
<1>7. LocksOK'
  BY <1>1, <1>3, LocksKept DEF IInv, Unlocked, At, rows
<1>8. RoleMatchesIdentity'
  BY <1>1 DEF IInv, RoleMatchesIdentity, Verified, rows, history
<1> QED
  BY <1>5, <1>6, <1>7, <1>8, BeginStep DEF IInv

\* What a request is, by the step it is at.
LEMMA Shapes ==
  ASSUME TypeInv, NEW s \in Sessions, req[s] # None
  PROVE  /\ req[s] \in Request /\ None \notin Keys
         /\ req[s].pc = "put" => Uploading(s) /\ req[s].key \in Keys
         /\ req[s].pc = "record" => /\ req[s].key \in Keys
                                    /\ req[s].op = "removeFile" \/ Uploading(s)
         /\ req[s].pc = "cleanup" => /\ req[s].key \in Keys
                                     /\ req[s].op \in Kinds \cup {"removeFile", "call"}
         /\ req[s].pc \in {"rule", "grant"} => req[s].op = "approve"
         /\ req[s].pc \in {"book", "update", "signIn", "lock", "check", "erase"} =>
              req[s].op = "call" /\ req[s].key = None
<1>1. req[s] \in Request /\ ShapeOK(s) /\ None \notin Keys
  BY AccountsAssumption DEF TypeInv, TypeOK
<1> QED
  BY <1>1 DEF ShapeOK, Request, Uploading, Kinds

LEMMA PutStep ==
  ASSUME IInv, NEW s \in Sessions,
         PutObject(s) \/ \E landed \in BOOLEAN : PutFails(s, landed)
  PROVE  IInv'
<1>1. /\ At(s, "put") /\ req[s] # None /\ Uploading(s) /\ req[s].pc = "put"
      /\ req[s].key \in Keys /\ req[s].op \in Kinds
      /\ UNCHANGED rows /\ UNCHANGED <<lock, unsure, assigned>>
  BY Shapes DEF PutObject, PutFails, At, IInv, Uploading, history
<1>2. faults' \in 0..MaxFaults
  BY Faulted DEF PutObject, PutFails, IInv, TypeInv, TypeOK, history
<1>3. CASE PutObject(s)
  <2>1. objects' = objects \cup {req[s].key} /\ GoTo(s, "record") /\ UNCHANGED excused
    BY <1>3 DEF PutObject, history
  <2>2. /\ ReqType' /\ OthersKept(s) /\ req'[s] # None
        /\ req'[s].op = req[s].op /\ req'[s].pc = "record" /\ req'[s].key = req[s].key
    BY <1>1, <2>1, GoesOn DEF IInv
  <2>3. ShapeOK(s)'
    BY <1>1, <2>2 DEF ShapeOK, Kinds
  <2>4. TypeInv'
    BY <1>1, <1>2, <2>1, <2>2, <2>3, Typed, TypedApart DEF IInv, rows, RowsType, RestType
  <2>5. Stores(s)
    BY <1>1, <2>1, <2>2, RowsSame DEF Stores, Uploading, Kinds
  <2>6. LocksOK'
    BY <1>1, <2>2, LocksKept DEF IInv, Unlocked, At, rows
  <2> QED
    BY <1>1, <2>4, <2>5, <2>6, StoreStep DEF IInv, RoleMatchesIdentity, Verified, rows
<1>4. CASE \E landed \in BOOLEAN : PutFails(s, landed)
  <2>1. /\ End(s)
        /\ \/ UNCHANGED <<objects, excused>>
           \/ /\ objects' = objects \cup {req[s].key}
              /\ excused' = excused \cup {req[s].key}
    BY <1>4 DEF PutFails
  <2>2. ReqType' /\ OthersKept(s) /\ req'[s] = None
    BY <2>1, Ends DEF IInv
  <2>3. ShapeOK(s)'
    BY <2>2 DEF ShapeOK
  <2>4. TypeInv'
    BY <1>1, <1>2, <2>1, <2>2, <2>3, Typed, TypedApart DEF IInv, rows, RowsType, RestType
  <2>5. LosesPut(s)
    BY <1>1, <2>1, <2>2, RowsSame DEF LosesPut
  <2>6. LocksOK'
    BY <1>1, <2>2, LocksKept DEF IInv, Unlocked, At, rows
  <2> QED
    BY <1>1, <2>4, <2>5, <2>6, LostPutStep DEF IInv, RoleMatchesIdentity, Verified, rows
<1> QED
  BY <1>3, <1>4

\* What an upload does once its record is written.
LEMMA RecordedEffect ==
  ASSUME IInv, NEW s \in Sessions, NEW told \in BOOLEAN, NEW old \in Keys \cup {None},
         Uploading(s), req[s].pc = "record", Recorded(s, told, old),
         RowsType', UNCHANGED <<objects, lock>>
  PROVE  /\ TypeInv' /\ OthersKept(s) /\ Unlocked(s) /\ Unlocked(s)'
         /\ \/ /\ UNCHANGED <<excused, unsure>>
               /\ IF old = None THEN req'[s] = None
                  ELSE Cleaning(s)' /\ req'[s].key = old
            \/ /\ Cleaning(s)' /\ req'[s].key = req[s].key
               /\ unsure' = unsure \cup {req[s].key}
               /\ excused' = excused \cup ({old} \ {None})
<1>1. /\ req[s] # None /\ req[s].op \in Kinds /\ req[s].key \in Keys
      /\ req[s].key # None
  BY Shapes DEF Uploading, IInv
<1>2. Unlocked(s)
  BY DEF Unlocked, At
<1>3. CASE told
  <2>1. Cleanup(s, old) /\ UNCHANGED history
    BY <1>3 DEF Recorded
  <2>2. /\ ReqType' /\ OthersKept(s)
        /\ IF old = None THEN req'[s] = None
           ELSE /\ req'[s] # None /\ req'[s].pc = "cleanup" /\ req'[s].key = old
                /\ req'[s].op = req[s].op
    BY <1>1, <2>1, CleansUp DEF IInv
  <2>3. ShapeOK(s)'
    BY <1>1, <2>2 DEF ShapeOK, Kinds
  <2>4. TypeInv'
    BY <2>1, <2>2, <2>3, Typed, TypedApart DEF IInv, history, RestType
  <2> QED
    BY <1>2, <2>1, <2>2, <2>4 DEF history, Cleaning, Unlocked, At
<1>4. CASE ~told
  <2>1. /\ Fault /\ Cleanup(s, req[s].key)
        /\ unsure' = unsure \cup {req[s].key}
        /\ excused' = excused \cup ({old} \ {None}) /\ UNCHANGED assigned
    BY <1>4 DEF Recorded
  <2>2. /\ ReqType' /\ OthersKept(s)
        /\ req'[s] # None /\ req'[s].pc = "cleanup" /\ req'[s].key = req[s].key
        /\ req'[s].op = req[s].op
    BY <1>1, <2>1, CleansUp DEF IInv
  <2>3. ShapeOK(s)'
    BY <1>1, <2>2 DEF ShapeOK, Kinds
  <2>4. faults' \in 0..MaxFaults
    BY <2>1, Faulted DEF IInv
  <2>5. TypeInv'
    BY <1>1, <2>1, <2>2, <2>3, <2>4, Typed, TypedApart DEF IInv, RestType
  <2> QED
    BY <1>2, <2>1, <2>2, <2>5 DEF Cleaning, Unlocked, At
<1> QED
  BY <1>3, <1>4

LEMMA AvatarStep ==
  ASSUME IInv, NEW s \in Sessions, NEW told \in BOOLEAN, ReplaceAvatar(s, told)
  PROVE  IInv'
<1>1. PICK k, old : k = req[s].key /\ old = account.avatar
  OBVIOUS
<1>2. /\ At(s, "record") /\ req[s] # None /\ req[s].op = "avatar" /\ lock.user = None
      /\ account' = [account EXCEPT !.avatar = k]
      /\ Recorded(s, told, old)
      /\ UNCHANGED <<login, upcoming, identity, proofs, files, objects, lock>>
  BY <1>1 DEF ReplaceAvatar, At
<1>3. Uploading(s) /\ req[s].pc = "record" /\ k \in Keys /\ None \notin Keys
  BY <1>1, <1>2, Shapes DEF At, IInv
<1>4. account \in Account /\ old \in Keys \cup {None}
  BY <1>1 DEF IInv, TypeInv, TypeOK, Account
<1>5. /\ account' \in Account /\ account'.avatar = k /\ account'.role = account.role
      /\ account'.status = account.status
  BY <1>2, <1>3, <1>4 DEF Account
<1>6. RowsType'
  BY <1>2, <1>5, TypedApart DEF RowsType, IInv
<1>7. /\ TypeInv' /\ OthersKept(s) /\ Unlocked(s) /\ Unlocked(s)'
      /\ \/ /\ UNCHANGED <<excused, unsure>>
            /\ IF old = None THEN req'[s] = None
               ELSE Cleaning(s)' /\ req'[s].key = old
         \/ /\ Cleaning(s)' /\ req'[s].key = k
            /\ unsure' = unsure \cup {k}
            /\ excused' = excused \cup ({old} \ {None})
  BY <1>1, <1>2, <1>3, <1>4, <1>6, RecordedEffect
<1>8. Unnamed(k)
  BY <1>1, <1>3 DEF IInv, DocumentsOK, UploadsOK
<1>9. Records(s, "avatar", k, old)
  <2>1. /\ Names("avatar", k)'
        /\ \A x \in Kinds, y \in Keys \ {k} :
             Names(x, y)' <=> Names(x, y) /\ ~(x = "avatar" /\ y = old)
        /\ \A x \in Kinds \ {"avatar"} : ~Names(x, k)'
    BY <1>1, <1>2, <1>5, <1>8 DEF Names, Unnamed, Kinds
  <2>2. old \in Keys => Names("avatar", old)
    BY <1>1 DEF Names
  <2> QED
    BY <1>1, <1>2, <1>3, <1>7, <2>1, <2>2 DEF Records
<1>10. LocksOK'
  BY <1>2, <1>7, LocksKept DEF IInv
<1>11. RoleMatchesIdentity'
  BY <1>2, <1>5 DEF IInv, RoleMatchesIdentity, Verified, Recorded, history
<1> QED
  BY <1>3, <1>4, <1>7, <1>9, <1>10, <1>11, RecordStep DEF IInv, Kinds

LEMMA IdentityStep ==
  ASSUME IInv, NEW s \in Sessions, NEW told \in BOOLEAN, SubmitIdentity(s, told)
  PROVE  IInv'
<1>1. PICK k, old : /\ k = req[s].key
                    /\ old = IF identity = None THEN None ELSE identity.document
  OBVIOUS
<1>2. /\ At(s, "record") /\ req[s] # None /\ req[s].op = "identity" /\ lock.identity = None
      /\ identity # None => identity.status \in Submittable
      /\ identity' = [status |-> "SUBMITTED", document |-> k]
      /\ Recorded(s, told, old)
      /\ UNCHANGED <<account, login, upcoming, proofs, files, objects, lock>>
  <2>1. CASE identity = None
    BY <1>1, <2>1 DEF SubmitIdentity, At
  <2>2. CASE identity # None
    BY <1>1, <2>2 DEF SubmitIdentity, At
  <2> QED
    BY <2>1, <2>2
<1>3. Uploading(s) /\ req[s].pc = "record" /\ k \in Keys /\ None \notin Keys
  BY <1>1, <1>2, Shapes DEF At, IInv
<1>4. old \in Keys \cup {None}
  BY <1>1 DEF IInv, TypeInv, TypeOK, Identity
<1>5. /\ identity' \in Identity /\ identity' # None
      /\ identity'.document = k /\ identity'.status = "SUBMITTED"
  BY <1>2, <1>3, AccountsAssumption DEF Identity, IdentityStatus
<1>6. RowsType'
  BY <1>2, <1>5, TypedApart DEF RowsType, IInv
<1>7. /\ TypeInv' /\ OthersKept(s) /\ Unlocked(s) /\ Unlocked(s)'
      /\ \/ /\ UNCHANGED <<excused, unsure>>
            /\ IF old = None THEN req'[s] = None
               ELSE Cleaning(s)' /\ req'[s].key = old
         \/ /\ Cleaning(s)' /\ req'[s].key = k
            /\ unsure' = unsure \cup {k}
            /\ excused' = excused \cup ({old} \ {None})
  BY <1>1, <1>2, <1>3, <1>4, <1>6, RecordedEffect
<1>8. Unnamed(k)
  BY <1>1, <1>3 DEF IInv, DocumentsOK, UploadsOK
<1>9. Records(s, "identity", k, old)
  <2>1. /\ Names("identity", k)'
        /\ \A x \in Kinds \ {"identity"} : ~Names(x, k)'
    BY <1>2, <1>5, <1>8 DEF Names, Unnamed, Kinds
  <2>2. \A x \in Kinds, y \in Keys \ {k} :
             Names(x, y)' <=> Names(x, y) /\ ~(x = "identity" /\ y = old)
    BY <1>1, <1>2, <1>3, <1>5 DEF Names, Kinds
  <2>3. old \in Keys => Names("identity", old)
    BY <1>1, <1>3 DEF Names
  <2> QED
    BY <1>1, <1>2, <1>3, <1>7, <2>1, <2>2, <2>3 DEF Records
<1>10. LocksOK'
  BY <1>2, <1>7, LocksKept DEF IInv
<1>11. RoleMatchesIdentity'
  BY <1>2, <1>5 DEF IInv, RoleMatchesIdentity, Verified, Recorded, Submittable,
     history
<1> QED
  BY <1>3, <1>4, <1>7, <1>9, <1>10, <1>11, RecordStep DEF IInv, Kinds

LEMMA ProofStep ==
  ASSUME IInv, NEW s \in Sessions, NEW told \in BOOLEAN, CreateProof(s, told)
  PROVE  IInv'
<1>1. PICK k : k = req[s].key
  OBVIOUS
<1>2. /\ At(s, "record") /\ req[s] # None /\ req[s].op = "proof"
      /\ proofs' = [proofs EXCEPT ![k] = "PENDING"]
      /\ Recorded(s, told, None)
      /\ UNCHANGED <<account, login, upcoming, identity, files, objects, lock>>
  BY <1>1 DEF CreateProof, RecordProof, At
<1>3. Uploading(s) /\ req[s].pc = "record" /\ k \in Keys /\ None \notin Keys
  BY <1>1, <1>2, Shapes DEF At, IInv
<1>4. Unnamed(k)
  BY <1>1, <1>3 DEF IInv, DocumentsOK, UploadsOK
<1>5. /\ proofs' \in [Keys -> ProofStatus \cup {None}]
      /\ proofs'[k] # None
      /\ \A y \in Keys \ {k} : proofs'[y] = proofs[y]
  <2>1. proofs \in [Keys -> ProofStatus \cup {None}] /\ proofs[k] = None
    BY <1>4 DEF IInv, TypeInv, TypeOK, Unnamed, Names, Kinds
  <2> QED
    BY <1>2, <1>3, <2>1, AccountsAssumption DEF ProofStatus
<1>6. RowsType'
  BY <1>2, <1>5, TypedApart DEF RowsType, IInv
<1>7. /\ TypeInv' /\ OthersKept(s) /\ Unlocked(s) /\ Unlocked(s)'
      /\ \/ UNCHANGED <<excused, unsure>> /\ req'[s] = None
         \/ /\ Cleaning(s)' /\ req'[s].key = k
            /\ unsure' = unsure \cup {k}
            /\ excused' = excused \cup ({None} \ {None})
  BY <1>1, <1>2, <1>3, <1>6, RecordedEffect
<1>8. Records(s, "proof", k, None)
  <2>1. /\ Names("proof", k)'
        /\ \A x \in Kinds \ {"proof"} : ~Names(x, k)'
        /\ \A x \in Kinds, y \in Keys \ {k} : Names(x, y)' <=> Names(x, y)
    BY <1>2, <1>4, <1>5 DEF Names, Unnamed, Kinds
  <2> QED
    BY <1>1, <1>2, <1>3, <1>7, <2>1 DEF Records
<1>9. LocksOK'
  BY <1>2, <1>7, LocksKept DEF IInv
<1>10. RoleMatchesIdentity'
  BY <1>2 DEF IInv, RoleMatchesIdentity, Verified, Recorded, history
<1> QED
  BY <1>3, <1>7, <1>8, <1>9, <1>10, RecordStep DEF IInv, Kinds

LEMMA FileStep ==
  ASSUME IInv, NEW s \in Sessions, NEW told \in BOOLEAN, CreateFile(s, told)
  PROVE  IInv'
<1>1. PICK k : k = req[s].key
  OBVIOUS
<1>2. /\ At(s, "record") /\ req[s] # None /\ req[s].op = "file"
      /\ files' = files \cup {k}
      /\ Recorded(s, told, None)
      /\ UNCHANGED <<account, login, upcoming, identity, proofs, objects, lock>>
  BY <1>1 DEF CreateFile, CreateFileForMember, At
<1>3. Uploading(s) /\ req[s].pc = "record" /\ k \in Keys /\ None \notin Keys
  BY <1>1, <1>2, Shapes DEF At, IInv
<1>4. Unnamed(k)
  BY <1>1, <1>3 DEF IInv, DocumentsOK, UploadsOK
<1>5. RowsType'
  BY <1>2, <1>3, TypedApart DEF RowsType, IInv
<1>6. /\ TypeInv' /\ OthersKept(s) /\ Unlocked(s) /\ Unlocked(s)'
      /\ \/ UNCHANGED <<excused, unsure>> /\ req'[s] = None
         \/ /\ Cleaning(s)' /\ req'[s].key = k
            /\ unsure' = unsure \cup {k}
            /\ excused' = excused \cup ({None} \ {None})
  BY <1>1, <1>2, <1>3, <1>5, RecordedEffect
<1>7. Records(s, "file", k, None)
  <2>1. /\ Names("file", k)'
        /\ \A x \in Kinds \ {"file"} : ~Names(x, k)'
        /\ \A x \in Kinds, y \in Keys \ {k} : Names(x, y)' <=> Names(x, y)
    BY <1>2, <1>4 DEF Names, Unnamed, Kinds
  <2> QED
    BY <1>1, <1>2, <1>3, <1>6, <2>1 DEF Records
<1>8. LocksOK'
  BY <1>2, <1>6, LocksKept DEF IInv
<1>9. RoleMatchesIdentity'
  BY <1>2 DEF IInv, RoleMatchesIdentity, Verified, Recorded, history
<1> QED
  BY <1>3, <1>6, <1>7, <1>8, <1>9, RecordStep DEF IInv, Kinds

LEMMA GivingUpStep ==
  ASSUME IInv, NEW s \in Sessions, ScanRefused(s) \/ FileRefused(s) \/ RecordFails(s)
  PROVE  IInv'
<1>1. /\ At(s, "record") /\ req[s] # None /\ req[s].op \in Kinds
      /\ Cleanup(s, req[s].key) /\ faults' \in 0..MaxFaults
      /\ UNCHANGED rows /\ UNCHANGED <<objects, lock, excused, unsure, assigned>>
  BY Faulted DEF ScanRefused, FileRefused, RecordFails, At, Kinds, history, IInv,
     TypeInv, TypeOK
<1>2. /\ Uploading(s) /\ req[s].key \in Keys /\ req[s].key # None /\ Unlocked(s)
  BY <1>1, Shapes DEF At, Uploading, IInv, Unlocked
<1>3. /\ ReqType' /\ OthersKept(s)
      /\ req'[s] # None /\ req'[s].pc = "cleanup" /\ req'[s].key = req[s].key
      /\ req'[s].op = req[s].op
  BY <1>1, <1>2, CleansUp DEF IInv
<1>4. ShapeOK(s)'
  BY <1>1, <1>2, <1>3 DEF ShapeOK, Kinds
<1>5. TypeInv'
  BY <1>1, <1>3, <1>4, Typed, TypedApart DEF IInv, rows, RowsType, RestType
<1>6. GivesUp(s)
  BY <1>1, <1>2, <1>3, RowsSame DEF GivesUp, Cleaning, At
<1>7. LocksOK'
  BY <1>1, <1>2, <1>3, LocksKept DEF IInv, Unlocked, At, rows
<1> QED
  BY <1>1, <1>5, <1>6, <1>7, GiveUpStep DEF IInv, RoleMatchesIdentity, Verified, rows

LEMMA RemovalStep ==
  ASSUME IInv, NEW s \in Sessions, RemoveObject(s) \/ RemoveFails(s)
  PROVE  IInv'
<1>1. /\ At(s, "cleanup") /\ req[s] # None /\ End(s) /\ faults' \in 0..MaxFaults
      /\ UNCHANGED rows /\ UNCHANGED <<lock, unsure, assigned>>
      /\ \/ objects' = objects \ {req[s].key} /\ UNCHANGED excused
         \/ excused' = excused \cup {req[s].key} /\ UNCHANGED objects
  BY Faulted DEF RemoveObject, RemoveFails, At, history, IInv, TypeInv, TypeOK
<1>2. req[s].key \in Keys /\ Cleaning(s) /\ Unlocked(s)
  BY <1>1, Shapes DEF At, Cleaning, IInv, Unlocked
<1>3. ReqType' /\ OthersKept(s) /\ req'[s] = None
  BY <1>1, Ends DEF IInv
<1>4. ShapeOK(s)'
  BY <1>3 DEF ShapeOK
<1>5. TypeInv'
  BY <1>1, <1>2, <1>3, <1>4, Typed, TypedApart DEF IInv, rows, RowsType, RestType
<1>6. Removes(s)
  BY <1>1, <1>2, <1>3, RowsSame DEF Removes
<1>7. LocksOK'
  BY <1>1, <1>2, <1>3, LocksKept DEF IInv, Unlocked, At, rows
<1> QED
  BY <1>1, <1>5, <1>6, <1>7, RemoveStep DEF IInv, RoleMatchesIdentity, Verified, rows

LEMMA AvatarRemovedStep ==
  ASSUME IInv, NEW s \in Sessions, RemoveAvatar(s)
  PROVE  IInv'
<1>1. PICK old : old = account.avatar
  OBVIOUS
<1>2. /\ req[s] = None /\ lock.user = None /\ old # None
      /\ account' = [account EXCEPT !.avatar = None]
      /\ Open(s, "avatar", "cleanup", old)
      /\ UNCHANGED <<login, upcoming, identity, proofs, files, objects, lock>>
      /\ UNCHANGED history
  BY <1>1 DEF RemoveAvatar
<1>3. account \in Account /\ old \in Keys /\ None \notin Keys
  BY <1>1, <1>2, AccountsAssumption DEF IInv, TypeInv, TypeOK, Account
<1>4. /\ account' \in Account /\ account'.avatar = None /\ account'.role = account.role
      /\ account'.status = account.status
  BY <1>2, <1>3 DEF Account
<1>5. [op |-> "avatar", pc |-> "cleanup", key |-> old] \in Request
  BY <1>3 DEF Request, Kinds
<1>6. /\ ReqType' /\ OthersKept(s) /\ req'[s] # None
      /\ req'[s].op = "avatar" /\ req'[s].pc = "cleanup" /\ req'[s].key = old
  BY <1>2, <1>5, Opens DEF IInv
<1>7. ShapeOK(s)'
  BY <1>3, <1>6 DEF ShapeOK, Kinds
<1>8. TypeInv'
  BY <1>2, <1>4, <1>6, <1>7, Typed, TypedApart DEF IInv, history, RowsType, RestType
<1>9. Drops(s, "avatar", old)
  <2>1. \A x \in Kinds, k \in Keys : Names(x, k)' <=> Names(x, k) /\ ~(x = "avatar" /\ k = old)
    BY <1>1, <1>2, <1>3, <1>4 DEF Names, Kinds
  <2>2. Names("avatar", old) /\ \A k \in Keys : ~Holds(s, k)
    BY <1>1, <1>2 DEF Names, Holds
  <2> QED
    BY <1>2, <1>6, <2>1, <2>2 DEF Drops, Cleaning, At, history
<1>10. LocksOK'
  BY <1>2, <1>6, LocksKept DEF IInv, Unlocked, At
<1>11. RoleMatchesIdentity'
  BY <1>2, <1>4 DEF IInv, RoleMatchesIdentity, Verified, history
<1> QED
  BY <1>3, <1>8, <1>9, <1>10, <1>11, DropStep DEF IInv, Kinds

\* A request that holds no document goes on, and the rows stay as they are.
LEMMA QuietRows ==
  ASSUME IInv, NEW s \in Sessions, UNCHANGED rows, UNCHANGED <<objects, excused, unsure, assigned>>,
         OthersKept(s), TypeInv', LocksOK', \A k \in Keys : ~Holds(s, k) /\ ~Holds(s, k)',
         req'[s] # None /\ req'[s].key \in Keys =>
           ~Unnamed(req'[s].key) \/ (req[s] # None /\ req[s].key = req'[s].key)
  PROVE  IInv'
<1>1. Quiet(s)
  BY RowsSame DEF Quiet
<1>2. RoleMatchesIdentity'
  BY DEF IInv, RoleMatchesIdentity, Verified, rows
<1> QED
  BY <1>1, <1>2, QuietStep DEF IInv

LEMMA GetFileStep ==
  ASSUME IInv, NEW s \in Sessions, NEW k \in Keys, GetFile(s, k)
  PROVE  IInv'
<1>1. /\ req[s] = None /\ k \in files /\ Open(s, "removeFile", "record", k)
      /\ UNCHANGED rows /\ UNCHANGED <<objects, lock>> /\ UNCHANGED history
  BY DEF GetFile
<1>2. [op |-> "removeFile", pc |-> "record", key |-> k] \in Request
  BY DEF Request
<1>3. /\ ReqType' /\ OthersKept(s) /\ req'[s] # None
      /\ req'[s].op = "removeFile" /\ req'[s].pc = "record" /\ req'[s].key = k
  BY <1>1, <1>2, Opens DEF IInv
<1>4. ShapeOK(s)'
  BY <1>3 DEF ShapeOK, Kinds
<1>5. TypeInv'
  BY <1>1, <1>3, <1>4, Typed, TypedApart DEF IInv, rows, history, RowsType, RestType
<1>6. LocksOK'
  BY <1>1, <1>3, LocksKept DEF IInv, Unlocked, At, rows
<1>7. ~Unnamed(k) /\ \A x \in Keys : ~Holds(s, x) /\ ~Holds(s, x)'
  BY <1>1, <1>3 DEF Unnamed, Names, Kinds, Holds
<1> QED
  BY <1>1, <1>3, <1>5, <1>6, <1>7, QuietRows DEF history

LEMMA DeleteFileStep ==
  ASSUME IInv, NEW s \in Sessions, DeleteFile(s)
  PROVE  IInv'
<1>1. PICK k : k = req[s].key
  OBVIOUS
<1>2. /\ At(s, "record") /\ req[s] # None /\ req[s].op = "removeFile"
      /\ files' = files \ {k}
      /\ IF k \in files THEN Cleanup(s, k) ELSE End(s)
      /\ UNCHANGED <<account, login, upcoming, identity, proofs, objects, lock>>
      /\ UNCHANGED history
  BY <1>1 DEF DeleteFile, At
<1>3. k \in Keys /\ k # None /\ Unlocked(s) /\ \A x \in Keys : ~Holds(s, x)
  BY <1>1, <1>2, Shapes DEF At, IInv, Unlocked, Holds
<1>4. RowsType'
  BY <1>2, TypedApart DEF IInv, RowsType
<1>5. RoleMatchesIdentity'
  BY <1>2 DEF IInv, RoleMatchesIdentity, Verified, history
<1>6. CASE k \in files
  <2>1. /\ ReqType' /\ OthersKept(s)
        /\ req'[s] # None /\ req'[s].pc = "cleanup" /\ req'[s].key = k
        /\ req'[s].op = "removeFile"
    BY <1>2, <1>3, <1>6, CleansUp DEF IInv
  <2>2. ShapeOK(s)'
    BY <1>3, <2>1 DEF ShapeOK, Kinds
  <2>3. TypeInv'
    BY <1>2, <1>4, <2>1, <2>2, Typed, TypedApart DEF IInv, history, RestType
  <2>4. Drops(s, "file", k)
    <3>1. \A x \in Kinds, y \in Keys : Names(x, y)' <=> Names(x, y) /\ ~(x = "file" /\ y = k)
      BY <1>2 DEF Names, Kinds
    <3>2. Names("file", k)
      BY <1>6 DEF Names
    <3> QED
      BY <1>2, <1>3, <2>1, <3>1, <3>2 DEF Drops, Cleaning, At, history
  <2>5. LocksOK'
    BY <1>2, <1>3, <2>1, LocksKept DEF IInv, Unlocked, At
  <2> QED
    BY <1>3, <1>5, <2>3, <2>4, <2>5, DropStep DEF IInv, Kinds
<1>7. CASE k \notin files
  <2>1. ReqType' /\ OthersKept(s) /\ req'[s] = None
    BY <1>2, <1>7, Ends DEF IInv
  <2>2. ShapeOK(s)'
    BY <2>1 DEF ShapeOK
  <2>3. TypeInv'
    BY <1>2, <1>4, <2>1, <2>2, Typed, TypedApart DEF IInv, history, RestType
  <2>4. files' = files /\ UNCHANGED rows
    BY <1>2, <1>7 DEF rows
  <2>5. LocksOK'
    BY <1>2, <1>3, <2>1, LocksKept DEF IInv, Unlocked, At
  <2> QED
    BY <1>2, <1>3, <2>1, <2>3, <2>4, <2>5, QuietRows DEF history, Holds
<1> QED
  BY <1>6, <1>7

----------------------------------------------------------------------------
(* Requests that hold no document.                                          *)

LEMMA HoldsNothing ==
  ASSUME TypeInv, NEW s \in Sessions, req[s] # None,
         req[s].op = "approve" \/ req[s].key = None
  PROVE  \A k \in Keys : ~Holds(s, k)
BY AccountsAssumption DEF Holds

\* A call that is over has changed nothing of a document, a role or a status.
LEMMA CallOver ==
  ASSUME IInv, NEW s \in Sessions, NEW pc \in {"book", "update", "signIn"},
         At(s, pc), End(s), UNCHANGED <<identity, proofs, files, objects, lock>>,
         UNCHANGED history, account' \in Account, login' \in BOOLEAN, upcoming' \subseteq Writers,
         account'.avatar = account.avatar, account'.role = account.role,
         account'.status = account.status, lock.user = None
  PROVE  IInv'
<1>1. /\ req[s] # None /\ req[s].key = None /\ Unlocked(s) /\ \A k \in Keys : ~Holds(s, k)
  BY Shapes, HoldsNothing DEF At, IInv, Unlocked
<1>2. ReqType' /\ OthersKept(s) /\ req'[s] = None
  BY Ends DEF IInv
<1>3. ShapeOK(s)' /\ Unlocked(s)' /\ \A k \in Keys : ~Holds(s, k)'
  BY <1>2 DEF ShapeOK, Unlocked, At, Holds
<1>4. TypeInv'
  BY <1>2, <1>3, Typed, TypedApart DEF IInv, RowsType, RestType, history
<1>5. SameNames
  BY DEF SameNames, Names, Kinds
<1>6. Quiet(s)
  BY <1>1, <1>2, <1>3, <1>5 DEF Quiet, history
<1>7. LocksOK'
  BY <1>1, <1>2, <1>3, LocksKept DEF IInv
<1>8. RoleMatchesIdentity'
  BY DEF IInv, RoleMatchesIdentity, Verified, history
<1> QED
  BY <1>4, <1>6, <1>7, <1>8, QuietStep DEF IInv

LEMMA CallOverStep ==
  ASSUME IInv, NEW s \in Sessions, CreateSession(s) \/ UpdateMe(s) \/ InsertAppointment(s)
  PROVE  IInv'
<1>1. account \in Account /\ login \in BOOLEAN /\ upcoming \subseteq Writers
  BY DEF IInv, TypeInv, TypeOK
<1>2. CASE CreateSession(s)
  BY <1>1, <1>2, CallOver DEF CreateSession
<1>3. CASE UpdateMe(s)
  <2>1. /\ account' = [account EXCEPT !.personal = TRUE] /\ At(s, "update") /\ End(s)
        /\ lock.user = None
        /\ UNCHANGED <<login, upcoming, identity, proofs, files, objects, lock>>
        /\ UNCHANGED history
    BY <1>3 DEF UpdateMe
  <2>2. /\ account' \in Account /\ account'.avatar = account.avatar
        /\ account'.role = account.role /\ account'.status = account.status
    BY <1>1, <2>1 DEF Account
  <2> QED
    BY <1>1, <2>1, <2>2, CallOver
<1>4. CASE InsertAppointment(s)
  BY <1>1, <1>4, CallOver DEF InsertAppointment, Writers
<1> QED
  BY <1>2, <1>3, <1>4

\* A request that begins without a document of its own.
LEMMA CallStep ==
  ASSUME IInv, NEW s \in Sessions,
         SignIn(s) \/ \E pc \in {"book", "update", "lock"} : Call(s, pc)
  PROVE  IInv'
<1>1. PICK pc \in {"book", "update", "lock", "signIn"} : Open(s, "call", pc, None)
  BY DEF SignIn, Call
<1>2. req[s] = None /\ UNCHANGED rows /\ UNCHANGED <<objects, lock>> /\ UNCHANGED history
  BY DEF SignIn, Call
<1>3. [op |-> "call", pc |-> pc, key |-> None] \in Request
  BY DEF Request
<1>4. /\ ReqType' /\ OthersKept(s) /\ req'[s] # None
      /\ req'[s].op = "call" /\ req'[s].pc = pc /\ req'[s].key = None
  BY <1>1, <1>3, Opens DEF IInv
<1>5. ShapeOK(s)'
  BY <1>4 DEF ShapeOK, Kinds
<1>6. TypeInv'
  BY <1>2, <1>4, <1>5, Typed, TypedApart DEF IInv, rows, history, RowsType, RestType
<1>7. LocksOK'
  BY <1>2, <1>4, LocksKept DEF IInv, Unlocked, At, rows
<1>8. None \notin Keys
  BY AccountsAssumption
<1> QED
  BY <1>2, <1>4, <1>6, <1>7, <1>8, QuietRows DEF history, Holds

LEMMA DocumentUrlStep ==
  ASSUME IInv, NEW s \in Sessions, CreateDocumentUrl(s)
  PROVE  IInv'
<1>1. PICK k : k = identity.document
  OBVIOUS
<1>2. /\ req[s] = None /\ Undecided /\ Open(s, "approve", "rule", k)
      /\ UNCHANGED rows /\ UNCHANGED <<objects, lock>> /\ UNCHANGED history
  BY <1>1 DEF CreateDocumentUrl
<1>3. k \in Keys \cup {None} /\ None \notin Keys /\ identity # None
  BY <1>1, <1>2, AccountsAssumption DEF Undecided, IInv, TypeInv, TypeOK, Identity
<1>4. [op |-> "approve", pc |-> "rule", key |-> k] \in Request
  BY <1>3 DEF Request
<1>5. /\ ReqType' /\ OthersKept(s) /\ req'[s] # None
      /\ req'[s].op = "approve" /\ req'[s].pc = "rule" /\ req'[s].key = k
  BY <1>2, <1>4, Opens DEF IInv
<1>6. ShapeOK(s)'
  BY <1>5 DEF ShapeOK, Kinds
<1>7. TypeInv'
  BY <1>2, <1>5, <1>6, Typed, TypedApart DEF IInv, rows, history, RowsType, RestType
<1>8. LocksOK'
  BY <1>2, <1>5, LocksKept DEF IInv, Unlocked, At, rows
<1>9. k \in Keys => ~Unnamed(k)
  BY <1>1, <1>3 DEF Unnamed, Names, Kinds
<1> QED
  BY <1>2, <1>5, <1>7, <1>8, <1>9, QuietRows DEF history, Holds

LEMMA RefuseStep ==
  ASSUME IInv, NEW s \in Sessions, Refuse(s)
  PROVE  IInv'
<1>1. /\ At(s, "rule") /\ req[s] # None /\ End(s)
      /\ UNCHANGED rows /\ UNCHANGED <<objects, lock>> /\ UNCHANGED history
  BY DEF Refuse, At
<1>2. Unlocked(s) /\ \A k \in Keys : ~Holds(s, k)
  BY <1>1, Shapes, HoldsNothing DEF At, IInv, Unlocked
<1>3. ReqType' /\ OthersKept(s) /\ req'[s] = None
  BY <1>1, Ends DEF IInv
<1>4. ShapeOK(s)'
  BY <1>3 DEF ShapeOK
<1>5. TypeInv'
  BY <1>1, <1>3, <1>4, Typed, TypedApart DEF IInv, rows, history, RowsType, RestType
<1>6. LocksOK'
  BY <1>1, <1>2, <1>3, LocksKept DEF IInv, Unlocked, At, rows
<1> QED
  BY <1>1, <1>2, <1>3, <1>5, <1>6, QuietRows DEF history, Holds

----------------------------------------------------------------------------
(* Transactions of more than one step.                                      *)

\* The transaction of a request goes on, takes a lock or gives it back.
LEMMA ApplyStep ==
  ASSUME IInv, NEW s \in Sessions, ApplyDecision(s)
  PROVE  IInv'
<1>1. /\ At(s, "rule") /\ req[s] # None /\ Undecided /\ GoTo(s, "grant")
      /\ lock' = [lock EXCEPT !.identity = s]
      /\ UNCHANGED rows /\ UNCHANGED objects /\ UNCHANGED history
  BY DEF ApplyDecision, At
<1>2. req[s].op = "approve" /\ \A k \in Keys : ~Holds(s, k)
  BY <1>1, Shapes, HoldsNothing DEF At, IInv
<1>3. /\ ReqType' /\ OthersKept(s) /\ req'[s] # None
      /\ req'[s].op = "approve" /\ req'[s].pc = "grant" /\ req'[s].key = req[s].key
  BY <1>1, <1>2, GoesOn DEF IInv
<1>4. ShapeOK(s)'
  BY <1>3 DEF ShapeOK, Kinds
<1>5. /\ lock' \in [{"user", "identity"} -> Sessions \cup {None}]
      /\ lock'.identity = s /\ lock'.user = lock.user
  BY <1>1 DEF IInv, TypeInv, TypeOK
<1>6. TypeInv'
  BY <1>1, <1>3, <1>4, <1>5, Typed, TypedApart DEF IInv, rows, history, RowsType, RestType
<1>7. LocksOK'
  <2>1. lock.identity = None /\ identity # None /\ identity.status = "SUBMITTED"
        /\ None \notin Sessions
    BY <1>1, AccountsAssumption DEF Undecided, Decidable
  <2>2. \A t \in Sessions \ {s} : /\ At(t, "check")' <=> At(t, "check")
                                  /\ At(t, "erase")' <=> At(t, "erase")
                                  /\ At(t, "grant")' <=> At(t, "grant")
    BY <1>3 DEF OthersKept, At
  <2>3. ~At(s, "check") /\ ~At(s, "erase") /\ ~At(s, "check")' /\ ~At(s, "erase")'
        /\ At(s, "grant")'
    BY <1>1, <1>3 DEF At
  <2> QED
    BY <1>1, <1>5, <2>1, <2>2, <2>3 DEF LocksOK, IInv, rows
<1>8. \A k \in Keys : ~Holds(s, k)'
  BY <1>3 DEF Holds
<1> QED
  BY <1>1, <1>2, <1>3, <1>6, <1>7, <1>8, QuietRows DEF history

LEMMA LockStep ==
  ASSUME IInv, NEW s \in Sessions, LockAccount(s)
  PROVE  IInv'
<1>1. /\ At(s, "lock") /\ req[s] # None /\ lock.user = None /\ GoTo(s, "check")
      /\ lock' = [lock EXCEPT !.user = s]
      /\ UNCHANGED rows /\ UNCHANGED objects /\ UNCHANGED history
  BY DEF LockAccount, At
<1>2. req[s].op = "call" /\ req[s].key = None /\ \A k \in Keys : ~Holds(s, k)
  BY <1>1, Shapes, HoldsNothing DEF At, IInv
<1>3. /\ ReqType' /\ OthersKept(s) /\ req'[s] # None
      /\ req'[s].op = "call" /\ req'[s].pc = "check" /\ req'[s].key = None
  BY <1>1, <1>2, GoesOn DEF IInv
<1>4. ShapeOK(s)'
  BY <1>3 DEF ShapeOK, Kinds
<1>5. /\ lock' \in [{"user", "identity"} -> Sessions \cup {None}]
      /\ lock'.user = s /\ lock'.identity = lock.identity
  BY <1>1 DEF IInv, TypeInv, TypeOK
<1>6. TypeInv'
  BY <1>1, <1>3, <1>4, <1>5, Typed, TypedApart DEF IInv, rows, history, RowsType, RestType
<1>7. LocksOK'
  <2>1. \A t \in Sessions \ {s} : /\ At(t, "check")' <=> At(t, "check")
                                  /\ At(t, "erase")' <=> At(t, "erase")
                                  /\ At(t, "grant")' <=> At(t, "grant")
    BY <1>3 DEF OthersKept, At
  <2>2. ~At(s, "grant") /\ ~At(s, "grant")' /\ ~At(s, "erase")' /\ At(s, "check")'
    BY <1>1, <1>3 DEF At
  <2> QED
    BY <1>1, <1>5, <2>1, <2>2, AccountsAssumption DEF LocksOK, IInv, rows
<1>8. None \notin Keys /\ \A k \in Keys : ~Holds(s, k)'
  BY <1>3, AccountsAssumption DEF Holds
<1> QED
  BY <1>1, <1>2, <1>3, <1>6, <1>7, <1>8, QuietRows DEF history

\* A transaction gives its locks back and its request is over.
LEMMA LocksReleased ==
  ASSUME LocksOK, NEW s \in Sessions, OthersKept(s), Unlocked(s)',
         lock'.user = IF lock.user = s THEN None ELSE lock.user,
         lock'.identity = IF lock.identity = s THEN None ELSE lock.identity,
         UNCHANGED upcoming, UNCHANGED identity \/ lock.identity \in {s, None}
  PROVE  LocksOK'
<1>1. None \notin Sessions
  BY AccountsAssumption
<1>2. \A t \in Sessions \ {s} : /\ At(t, "check")' <=> At(t, "check")
                                /\ At(t, "erase")' <=> At(t, "erase")
                                /\ At(t, "grant")' <=> At(t, "grant")
  BY DEF OthersKept, At
<1> QED
  BY <1>1, <1>2 DEF LocksOK, Unlocked

LEMMA FindStep ==
  ASSUME IInv, NEW s \in Sessions, FindBlockers(s)
  PROVE  IInv'
<1>1. /\ At(s, "check") /\ req[s] # None /\ lock.user = s
      /\ UNCHANGED rows /\ UNCHANGED objects /\ UNCHANGED history
      /\ lock \in [{"user", "identity"} -> Sessions \cup {None}]
  BY DEF FindBlockers, At, IInv, LocksOK, TypeInv, TypeOK
<1>2. req[s].op = "call" /\ req[s].key = None /\ \A k \in Keys : ~Holds(s, k)
  BY <1>1, Shapes, HoldsNothing DEF At, IInv
<1>3. CASE upcoming # {}
  <2>1. End(s) /\ lock' = [lock EXCEPT !.user = None]
    BY <1>3 DEF FindBlockers
  <2>2. ReqType' /\ OthersKept(s) /\ req'[s] = None
    BY <2>1, Ends DEF IInv
  <2>3. /\ lock' \in [{"user", "identity"} -> Sessions \cup {None}]
        /\ lock'.user = None /\ lock'.identity = lock.identity
    BY <1>1, <2>1
  <2>4. ShapeOK(s)'
    BY <2>2 DEF ShapeOK
  <2>5. TypeInv'
    BY <1>1, <2>2, <2>3, <2>4, Typed, TypedApart DEF IInv, rows, history, RowsType, RestType
  <2>6. lock.identity # s
    BY <1>1 DEF At, LocksOK, IInv
  <2>7. LocksOK'
    BY <1>1, <2>2, <2>3, <2>6, LocksReleased DEF IInv, rows, Unlocked, At
  <2> QED
    BY <1>1, <1>2, <2>2, <2>5, <2>7, QuietRows DEF history, Holds
<1>4. CASE upcoming = {}
  <2>1. GoTo(s, "erase") /\ UNCHANGED lock
    BY <1>4 DEF FindBlockers
  <2>2. /\ ReqType' /\ OthersKept(s) /\ req'[s] # None
        /\ req'[s].op = "call" /\ req'[s].pc = "erase" /\ req'[s].key = None
    BY <1>1, <1>2, <2>1, GoesOn DEF IInv
  <2>3. ShapeOK(s)'
    BY <2>2 DEF ShapeOK, Kinds
  <2>4. TypeInv'
    BY <1>1, <2>1, <2>2, <2>3, Typed, TypedApart DEF IInv, rows, history, RowsType, RestType
  <2>5. LocksOK'
    <3>1. \A t \in Sessions \ {s} : /\ At(t, "check")' <=> At(t, "check")
                                    /\ At(t, "erase")' <=> At(t, "erase")
                                    /\ At(t, "grant")' <=> At(t, "grant")
      BY <2>2 DEF OthersKept, At
    <3>2. ~At(s, "grant") /\ ~At(s, "grant")' /\ At(s, "erase")'
      BY <1>1, <2>2 DEF At
    <3> QED
      BY <1>1, <1>4, <2>1, <3>1, <3>2 DEF LocksOK, IInv, rows
  <2>6. None \notin Keys /\ \A k \in Keys : ~Holds(s, k)'
    BY <2>2, AccountsAssumption DEF Holds
  <2> QED
    BY <1>1, <1>2, <2>2, <2>4, <2>5, <2>6, QuietRows DEF history
<1> QED
  BY <1>3, <1>4

LEMMA GrantStep ==
  ASSUME IInv, NEW s \in Sessions, GrantRole(s)
  PROVE  IInv'
<1>1. /\ At(s, "grant") /\ req[s] # None /\ End(s)
      /\ identity' = [identity EXCEPT !.status = "VERIFIED"]
      /\ IF account.role = "admin" THEN UNCHANGED <<account, assigned>>
         ELSE account' = [account EXCEPT !.role = "advisor"] /\ assigned' = None
      /\ lock' = [lock EXCEPT !.identity = None]
      /\ UNCHANGED <<login, upcoming, proofs, files, objects, excused, unsure, faults>>
  BY DEF GrantRole, At
<1>2. /\ account \in Account /\ identity \in Identity /\ identity # None
      /\ lock \in [{"user", "identity"} -> Sessions \cup {None}]
      /\ lock.identity = s /\ None \notin Sessions
  BY <1>1, AccountsAssumption DEF IInv, TypeInv, TypeOK, LocksOK
<1>3. /\ identity' \in Identity /\ identity' # None /\ identity'.status = "VERIFIED"
      /\ identity'.document = identity.document
  BY <1>1, <1>2, AccountsAssumption DEF Identity, IdentityStatus
<1>4. /\ account' \in Account /\ account'.avatar = account.avatar
      /\ assigned' \in Roles \cup {None}
  BY <1>1, <1>2 DEF Account, Roles, IInv, TypeInv, TypeOK
<1>5. /\ lock' \in [{"user", "identity"} -> Sessions \cup {None}]
      /\ lock'.user = lock.user /\ lock'.identity = None
  BY <1>1, <1>2
<1>6. req[s].op = "approve" /\ \A k \in Keys : ~Holds(s, k)
  BY <1>1, Shapes, HoldsNothing DEF At, IInv
<1>7. ReqType' /\ OthersKept(s) /\ req'[s] = None
  BY <1>1, Ends DEF IInv
<1>8. ShapeOK(s)' /\ Unlocked(s)' /\ \A k \in Keys : ~Holds(s, k)'
  BY <1>7 DEF ShapeOK, Unlocked, At, Holds
<1>9. TypeInv'
  BY <1>1, <1>3, <1>4, <1>5, <1>7, <1>8, Typed, TypedApart DEF IInv, RowsType, RestType
<1>10. SameNames
  BY <1>1, <1>2, <1>3, <1>4 DEF SameNames, Names, Kinds
<1>11. Quiet(s)
  BY <1>1, <1>6, <1>7, <1>8, <1>10 DEF Quiet
<1>12. LocksOK'
  <2>1. lock.user # s
    BY <1>1 DEF IInv, LocksOK, At
  <2> QED
    BY <1>1, <1>2, <1>5, <1>7, <1>8, <2>1, LocksReleased DEF IInv
<1>13. RoleMatchesIdentity'
  <2>1. CASE account.role = "admin"
    <3>1. UNCHANGED <<account, assigned>>
      BY <1>1, <2>1
    <3>2. assigned # None /\ account.role = assigned
      BY <1>1, <1>2, <2>1 DEF IInv, RoleMatchesIdentity, Verified, LocksOK
    <3> QED
      BY <3>1, <3>2 DEF RoleMatchesIdentity
  <2>2. CASE account.role # "admin"
    <3>1. account'.role = "advisor" /\ assigned' = None
      BY <1>1, <1>2, <2>2 DEF Account
    <3> QED
      BY <1>3, <3>1 DEF RoleMatchesIdentity, Verified
  <2> QED
    BY <2>1, <2>2
<1> QED
  BY <1>9, <1>11, <1>12, <1>13, QuietStep DEF IInv

\* deleteMe(): only what the erased rows named is forgotten.
LEMMA AnonymizeStep ==
  ASSUME IInv, NEW s \in Sessions, Anonymize(s)
  PROVE  IInv'
<1>1. PICK old : old = account.avatar
  OBVIOUS
<1>2. /\ At(s, "erase") /\ req[s] # None /\ lock.identity = None
      /\ account' = [account EXCEPT !.status = "DELETED", !.avatar = None, !.personal = FALSE]
      /\ login' = FALSE /\ identity' = None /\ proofs' = [k \in Keys |-> None]
      /\ UNCHANGED <<upcoming, files>>
      /\ excused' = excused \cup (Named \ (files \cup {old}))
      /\ lock' = [lock EXCEPT !.user = None]
      /\ Cleanup(s, old)
      /\ UNCHANGED <<objects, unsure, faults, assigned>>
  BY <1>1 DEF Anonymize, Erase, At
<1>3. /\ account \in Account /\ old \in Keys \cup {None} /\ None \notin Keys
      /\ lock \in [{"user", "identity"} -> Sessions \cup {None}] /\ lock.user = s
  BY <1>1, <1>2, AccountsAssumption DEF IInv, TypeInv, TypeOK, Account, LocksOK
<1>4. /\ account' \in Account /\ account'.avatar = None /\ account'.status = "DELETED"
  BY <1>2, <1>3 DEF Account
<1>5. /\ lock' \in [{"user", "identity"} -> Sessions \cup {None}]
      /\ lock'.user = None /\ lock'.identity = lock.identity
  BY <1>2, <1>3
<1>6. Named = {k \in Keys : ~Unnamed(k)}
  BY NamedKeys DEF IInv, TypeInv
<1>7. /\ req[s].op = "call" /\ req[s].key = None /\ \A k \in Keys : ~Holds(s, k)
  BY <1>2, Shapes, HoldsNothing DEF At, IInv
<1>8. /\ ReqType' /\ OthersKept(s)
      /\ IF old = None THEN req'[s] = None
         ELSE /\ req'[s] # None /\ req'[s].pc = "cleanup" /\ req'[s].key = old
              /\ req'[s].op = "call"
  BY <1>2, <1>3, <1>7, CleansUp DEF IInv
<1>9. ShapeOK(s)' /\ Unlocked(s)'
  BY <1>3, <1>8 DEF ShapeOK, Unlocked, At, Kinds
<1>10. RowsType'
  BY <1>2, <1>4, TypedApart DEF IInv, RowsType
<1>11. RestType'
  BY <1>2, <1>5, <1>6, TypedApart DEF IInv, RestType
<1>12. TypeInv'
  BY <1>8, <1>9, <1>10, <1>11, Typed DEF IInv
<1>13. Erases(s)
  <2>1. \A x \in Kinds, k \in Keys : Names(x, k)' <=> x = "file" /\ Names(x, k)
    BY <1>2, <1>3, <1>4 DEF Names, Kinds
  <2>2. \A k \in Keys : ~Unnamed(k) => \/ Names("file", k) \/ k \in excused'
                                       \/ account.avatar = k
    BY <1>1, <1>2, <1>6 DEF Names
  <2>3. IF account.avatar = None THEN req'[s] = None
        ELSE Cleaning(s)' /\ req'[s].key = account.avatar
    BY <1>1, <1>8 DEF Cleaning, At
  <2> QED
    BY <1>2, <1>7, <1>8, <2>1, <2>2, <2>3 DEF Erases
<1>14. LocksOK'
  BY <1>2, <1>3, <1>5, <1>8, <1>9, LocksReleased DEF IInv
<1>15. RoleMatchesIdentity'
  BY <1>2, <1>3, <1>4 DEF IInv, RoleMatchesIdentity, Verified, Account
<1> QED
  BY <1>12, <1>13, <1>14, <1>15, EraseStep DEF IInv

LEMMA RollbackStep ==
  ASSUME IInv, NEW s \in Sessions, TransactionFails(s) \/ DetectDeadlock(s)
  PROVE  IInv'
<1>1. /\ \E l \in DOMAIN lock : lock[l] = s
      /\ lock' = [l \in DOMAIN lock |-> IF lock[l] = s THEN None ELSE lock[l]]
      /\ End(s) /\ UNCHANGED rows /\ UNCHANGED <<objects, excused, unsure, assigned>>
      /\ faults' \in 0..MaxFaults
  <2>1. lock \in [{"user", "identity"} -> Sessions \cup {None}] /\ faults \in 0..MaxFaults
    BY DEF IInv, TypeInv, TypeOK
  <2>2. \E l \in DOMAIN lock : lock[l] = s
    BY <2>1 DEF TransactionFails, DetectDeadlock
  <2> QED
    BY <2>1, <2>2, Faulted DEF TransactionFails, DetectDeadlock, Rollback, IInv
<1>2. /\ lock \in [{"user", "identity"} -> Sessions \cup {None}] /\ None \notin Sessions
  BY AccountsAssumption DEF IInv, TypeInv, TypeOK
<1>3. lock.user = s \/ lock.identity = s
  BY <1>1, <1>2
<1>4. /\ req[s] # None
      /\ req[s].pc \in {"check", "erase", "grant"}
  BY <1>3 DEF IInv, LocksOK, At
<1>5. \A k \in Keys : ~Holds(s, k)
  BY <1>4, Shapes, HoldsNothing DEF IInv
<1>6. /\ lock' \in [{"user", "identity"} -> Sessions \cup {None}]
      /\ lock'.user = IF lock.user = s THEN None ELSE lock.user
      /\ lock'.identity = IF lock.identity = s THEN None ELSE lock.identity
  BY <1>1, <1>2
<1>7. ReqType' /\ OthersKept(s) /\ req'[s] = None
  BY <1>1, Ends DEF IInv
<1>8. ShapeOK(s)' /\ Unlocked(s)' /\ \A k \in Keys : ~Holds(s, k)'
  BY <1>7 DEF ShapeOK, Unlocked, At, Holds
<1>9. TypeInv'
  BY <1>1, <1>6, <1>7, <1>8, Typed, TypedApart DEF IInv, rows, RowsType, RestType
<1>10. LocksOK'
  BY <1>1, <1>6, <1>7, <1>8, LocksReleased DEF IInv, rows
<1> QED
  BY <1>1, <1>5, <1>7, <1>8, <1>9, <1>10, QuietRows

LEMMA CrashedStep ==
  ASSUME IInv, Crash
  PROVE  IInv'
<1>1. /\ req' = [s \in Sessions |-> None] /\ lock' = [l \in DOMAIN lock |-> None]
      /\ excused' = excused \cup ((Held \cap objects) \ Named)
      /\ UNCHANGED rows /\ UNCHANGED <<objects, unsure, assigned>> /\ faults' \in 0..MaxFaults
  BY Faulted DEF Crash, IInv
<1>2. lock' = [l \in {"user", "identity"} |-> None]
  BY <1>1 DEF IInv, TypeInv, TypeOK
<1>3. Named = {k \in Keys : ~Unnamed(k)}
  BY NamedKeys DEF IInv, TypeInv
<1>4. \A s \in Sessions : req'[s] = None
  BY <1>1
<1>5. TypeInv'
  <2>1. \A s \in Sessions : ShapeOK(s)'
    BY <1>4 DEF ShapeOK
  <2>2. excused' \subseteq Keys
    BY <1>1 DEF IInv, TypeInv, TypeOK
  <2> QED
    BY <1>1, <1>2, <2>1, <2>2 DEF IInv, TypeInv, TypeOK, rows
<1>6. Crashes
  <2>1. \A k \in objects : Unnamed(k) /\ (\E s \in Sessions : Holds(s, k)) => k \in excused'
    <3> SUFFICES ASSUME NEW k \in objects, Unnamed(k), NEW s \in Sessions, Holds(s, k)
                 PROVE  k \in excused'
      OBVIOUS
    <3>1. k \in Keys /\ k \notin Named /\ k # None
      BY <1>3, AccountsAssumption DEF IInv, TypeInv, TypeOK
    <3>2. k \in Held
      BY <3>1 DEF Held, Holds
    <3> QED
      BY <1>1, <3>1, <3>2
  <2> QED
    BY <1>1, <1>4, <2>1, RowsSame DEF Crashes
<1>7. LocksOK'
  BY <1>2, <1>4, AccountsAssumption DEF LocksOK, At
<1> QED
  BY <1>1, <1>5, <1>6, <1>7, CrashStep DEF IInv, RoleMatchesIdentity, Verified, rows

----------------------------------------------------------------------------
(* Steps of others.                                                         *)

LEMMA Aside ==
  ASSUME IInv, RowsType', SameNames, UNCHANGED <<objects, req, lock>>, UNCHANGED history,
         "booked" \in upcoming' => "booked" \in upcoming \/ lock.user = None,
         UNCHANGED identity \/ lock.identity = None,
         Verified' <=> Verified, account'.role = account.role,
         account'.status = account.status \/ account.status # "DELETED"
  PROVE  IInv'
<1>1. TypeInv'
  BY DEF IInv, TypeInv, TypeOK, RowsType, ShapeOK, history
<1>2. None \notin Sessions
  BY AccountsAssumption
<1>3. LocksOK'
  BY <1>2 DEF IInv, LocksOK, At
<1>4. RoleMatchesIdentity'
  BY RoleKept DEF IInv, history
<1> QED
  BY <1>1, <1>3, <1>4, UntouchedStep DEF IInv, Untouched, history

LEMMA AsideStep ==
  ASSUME IInv, \/ Reject \/ Suspend \/ Reinstate \/ SignOut \/ Gone
               \/ BookService \/ SellService \/ AppointmentOver
               \/ \E k \in Keys : ApproveProof(k) \/ RejectProof(k)
               \/ UNCHANGED vars
  PROVE  IInv'
<1>1. /\ account \in Account /\ login \in BOOLEAN /\ upcoming \subseteq Writers
      /\ identity \in Identity \cup {None}
      /\ proofs \in [Keys -> ProofStatus \cup {None}] /\ files \subseteq Keys
  BY DEF IInv, TypeInv, TypeOK
<1>2. CASE Reject
  <2>1. /\ identity # None /\ identity.status = "SUBMITTED" /\ lock.identity = None
        /\ identity' = [identity EXCEPT !.status = "REJECTED"]
        /\ UNCHANGED <<account, login, upcoming, proofs, files, objects, req, lock>>
        /\ UNCHANGED history
    BY <1>2 DEF Reject, Undecided, Decidable
  <2>2. /\ identity' \in Identity /\ identity' # None /\ identity'.status = "REJECTED"
        /\ identity'.document = identity.document
    BY <1>1, <2>1, AccountsAssumption DEF Identity, IdentityStatus
  <2>3. SameNames
    BY <2>1, <2>2 DEF SameNames, Names, Kinds
  <2> QED
    BY <1>1, <2>1, <2>2, <2>3, Aside DEF RowsType, Verified, history
<1>3. CASE Suspend \/ Reinstate
  <2>1. PICK to \in {"ACTIVE", "SUSPENDED"} :
          /\ account.status \in {"ACTIVE", "SUSPENDED"}
          /\ account' = [account EXCEPT !.status = to]
          /\ UNCHANGED <<login, upcoming, identity, proofs, files, objects, req, lock>>
          /\ UNCHANGED history
    BY <1>3 DEF Suspend, Reinstate, SetStatus
  <2>2. /\ account' \in Account /\ account'.role = account.role
        /\ account'.avatar = account.avatar
    BY <1>1, <2>1 DEF Account
  <2>3. SameNames
    BY <2>1, <2>2 DEF SameNames, Names, Kinds
  <2> QED
    BY <1>1, <2>1, <2>2, <2>3, Aside DEF RowsType, Verified, history
<1>4. CASE \/ SignOut \/ BookService \/ SellService \/ AppointmentOver \/ Gone
           \/ UNCHANGED vars
  <2>1. /\ UNCHANGED <<account, identity, proofs, files, objects, req, lock>>
        /\ UNCHANGED history /\ login' \in BOOLEAN /\ upcoming' \subseteq Writers
        /\ "booked" \in upcoming' => "booked" \in upcoming \/ lock.user = None
    BY <1>1, <1>4 DEF SignOut, BookService, SellService, AppointmentOver, Gone, Writers,
       vars, rows
  <2>2. SameNames
    BY <2>1 DEF SameNames, Names, Kinds
  <2> QED
    BY <1>1, <2>1, <2>2, Aside DEF RowsType, Verified, history
<1>5. CASE \E k \in Keys : ApproveProof(k) \/ RejectProof(k)
  <2>1. PICK k \in Keys, ruling \in {"APPROVED", "REJECTED"} :
          /\ proofs[k] = "PENDING" /\ proofs' = [proofs EXCEPT ![k] = ruling]
          /\ UNCHANGED <<account, login, upcoming, identity, files, objects, req, lock>>
          /\ UNCHANGED history
    BY <1>5 DEF ApproveProof, RejectProof, Review
  <2>2. /\ proofs' \in [Keys -> ProofStatus \cup {None}]
        /\ \A x \in Keys : proofs'[x] # None <=> proofs[x] # None
    BY <1>1, <2>1, AccountsAssumption DEF ProofStatus
  <2>3. SameNames
    BY <2>1, <2>2 DEF SameNames, Names, Kinds
  <2> QED
    BY <1>1, <2>1, <2>2, <2>3, Aside DEF RowsType, Verified, history
<1> QED
  BY <1>2, <1>3, <1>4, <1>5

LEMMA SetRoleStep ==
  ASSUME IInv, NEW role \in Assignable, SetRole(role)
  PROVE  IInv'
<1>1. /\ account' = [account EXCEPT !.role = role] /\ assigned' = role
      /\ UNCHANGED <<login, upcoming, identity, proofs, files, objects, req, lock,
                     excused, unsure, faults>>
  BY DEF SetRole
<1>2. account \in Account /\ role \in Roles /\ role # None
  BY AccountsAssumption DEF IInv, TypeInv, TypeOK
<1>3. account' \in Account /\ account'.role = role /\ account'.avatar = account.avatar
  BY <1>1, <1>2 DEF Account
<1>4. TypeInv'
  BY <1>1, <1>2, <1>3 DEF IInv, TypeInv, TypeOK, ShapeOK
<1>5. Untouched
  BY <1>1, <1>3 DEF Untouched, SameNames, Names, Kinds
<1>6. LocksOK'
  BY <1>1 DEF IInv, LocksOK, At
<1>7. RoleMatchesIdentity'
  BY <1>1, <1>2, <1>3 DEF RoleMatchesIdentity
<1> QED
  BY <1>4, <1>5, <1>6, <1>7, UntouchedStep DEF IInv

----------------------------------------------------------------------------
LEMMA InvariantStep == IInv /\ [Next]_vars => IInv'
<1> SUFFICES ASSUME IInv, [Next]_vars PROVE IInv'
  OBVIOUS
<1>1. ASSUME NEW s \in Sessions, Store(s) PROVE IInv'
  <2>1. CASE \E k \in Keys : UploadAvatar(s, k) \/ SubmitScan(s, k) \/ SubmitProof(s, k)
                             \/ UploadFile(s, k)
    BY <2>1, UploadStep DEF UploadAvatar, SubmitScan, SubmitProof, UploadFile, Kinds
  <2>2. CASE PutObject(s) \/ \E landed \in BOOLEAN : PutFails(s, landed)
    BY <2>2, PutStep
  <2>3. CASE \E told \in BOOLEAN : \/ ReplaceAvatar(s, told) \/ SubmitIdentity(s, told)
                                   \/ CreateProof(s, told) \/ CreateFile(s, told)
    BY <2>3, AvatarStep, IdentityStep, ProofStep, FileStep
  <2>4. CASE ScanRefused(s) \/ FileRefused(s) \/ RecordFails(s)
    BY <2>4, GivingUpStep
  <2>5. CASE RemoveObject(s) \/ RemoveFails(s)
    BY <2>5, RemovalStep
  <2>6. CASE RemoveAvatar(s) \/ DeleteFile(s) \/ \E k \in Keys : GetFile(s, k)
    BY <2>6, AvatarRemovedStep, DeleteFileStep, GetFileStep
  <2> QED
    BY <1>1, <2>1, <2>2, <2>3, <2>4, <2>5, <2>6 DEF Store
<1>2. ASSUME NEW s \in Sessions, Live(s) PROVE IInv'
  BY <1>2, CallStep, CallOverStep, LockStep, FindStep, AnonymizeStep DEF Live
<1>3. ASSUME NEW s \in Sessions, TransactionFails(s) \/ DetectDeadlock(s) PROVE IInv'
  BY <1>3, RollbackStep
<1>4. CASE Rule
  BY <1>4, AsideStep, SetRoleStep, DocumentUrlStep, ApplyStep, GrantStep, RefuseStep DEF Rule
<1>5. CASE \/ SignOut \/ BookService \/ SellService \/ AppointmentOver \/ Gone
           \/ UNCHANGED vars
  BY <1>5, AsideStep
<1>6. CASE Crash
  BY <1>6, CrashedStep
<1> QED
  BY <1>1, <1>2, <1>3, <1>4, <1>5, <1>6 DEF Next

LEMMA InitHolds == Init => IInv
<1> SUFFICES ASSUME Init PROVE IInv
  OBVIOUS
<1>1. /\ account = [status |-> "ACTIVE", role |-> "advisee", avatar |-> None,
                    personal |-> TRUE]
      /\ login = TRUE /\ upcoming = {} /\ identity = None
      /\ proofs = [k \in Keys |-> None] /\ files = {} /\ objects = {}
      /\ req = [s \in Sessions |-> None]
      /\ lock = [user |-> None, identity |-> None]
      /\ excused = {} /\ unsure = {} /\ faults = 0 /\ assigned = None
  BY DEF Init
<1>2. TypeInv
  <2>1. account \in Account
    BY <1>1 DEF Account, Roles
  <2>2. lock \in [{"user", "identity"} -> Sessions \cup {None}]
    BY <1>1
  <2>3. faults \in 0..MaxFaults
    BY <1>1, AccountsAssumption
  <2>4. \A s \in Sessions : ShapeOK(s)
    BY <1>1 DEF ShapeOK
  <2> QED
    BY <1>1, <2>1, <2>2, <2>3, <2>4 DEF TypeInv, TypeOK
<1>3. LocksOK
  BY <1>1, AccountsAssumption DEF LocksOK, At
<1>4. DocumentsOK
  <2>1. \A k \in Keys : Unnamed(k)
    BY <1>1, AccountsAssumption DEF Unnamed, Names
  <2> QED
    BY <1>1, <2>1 DEF DocumentsOK, NamedOnce, UploadsOK, CleaningOK, Existing, Accounted,
       Unnamed, Uploading, Cleaning, At
<1>5. RoleMatchesIdentity
  BY <1>1 DEF RoleMatchesIdentity, Verified
<1> QED
  BY <1>2, <1>3, <1>4, <1>5 DEF IInv

----------------------------------------------------------------------------
(* What holds of every behaviour.                                           *)

\* The rows, locks, requests and objects stay in step: what a record names was
\* stored, what is stored is named, held or left by a fault, and no two records
\* name one object, whatever requests run at once and wherever they fail.
THEOREM Inductive == Spec => []IInv
BY InitHolds, InvariantStep, PTL DEF Spec

\* No record names an object that is not stored (the upload order of put, then
\* record, and removal after the record), but for uploads whose commit was lost.
THEOREM RecordsNameStoredObjects == Spec => []NamedObjectsExist
<1>1. IInv => NamedObjectsExist
  BY NamedKeys DEF IInv, TypeInv, DocumentsOK, Existing, NamedObjectsExist
<1> QED
  BY <1>1, Inductive, PTL

\* Every stored object is named by a record, in the hands of a request that will
\* name or remove it, or was left behind by a fault or by deleteMe().
THEOREM NoOrphans == Spec => []NothingLingers
<1>1. IInv => NothingLingers
  <2> SUFFICES ASSUME IInv, NEW k \in objects, k \notin Named, k \notin Held
               PROVE  k \in excused
    BY DEF NothingLingers
  <2>1. k \in Keys /\ k # None /\ Unnamed(k)
    BY NamedKeys, AccountsAssumption DEF IInv, TypeInv, TypeOK
  <2>2. \A s \in Sessions : ~Holds(s, k)
    BY <2>1 DEF Held, Holds
  <2> QED
    BY <2>1, <2>2 DEF IInv, DocumentsOK, Accounted
<1> QED
  BY <1>1, Inductive, PTL

\* approve() gives the role and the ruling together or neither, an admin's role is
\* left to set-role, against every rollback, deadlock and deletion of the account.
THEOREM RoleIsEarned == Spec => []RoleMatchesIdentity
BY Inductive, PTL DEF IInv

\* anonymizeById() erases only while no appointment that was booked names the
\* person: what it read under the row lock is still so when it commits.
THEOREM DeletionIsFree == Spec => DeletesOnlyFree
<1>1. IInv /\ [Next]_vars =>
        [(account.status # "DELETED" /\ account'.status = "DELETED")
           => "booked" \notin upcoming]_vars
  <2> SUFFICES ASSUME IInv, Next, account.status # "DELETED", account'.status = "DELETED"
               PROVE  "booked" \notin upcoming
    OBVIOUS
  <2>1. account \in Account
    BY DEF IInv, TypeInv, TypeOK
  <2>2. \E s \in Sessions : At(s, "erase")
    <3>1. ASSUME NEW s \in Sessions, Store(s) PROVE FALSE
      <4>1. account' = account \/ \E v : account' = [account EXCEPT !.avatar = v]
        BY <3>1 DEF Store, UploadAvatar, SubmitScan, SubmitProof, UploadFile, Upload, PutObject,
           PutFails, ReplaceAvatar, SubmitIdentity, CreateProof, CreateFile, ScanRefused,
           FileRefused, RecordFails, RemoveObject, RemoveFails, RemoveAvatar, DeleteFile,
           GetFile, rows
      <4> QED
        BY <2>1, <4>1 DEF Account
    <3>2. ASSUME NEW s \in Sessions, Live(s), ~Anonymize(s) PROVE FALSE
      <4>1. account' = account \/ account' = [account EXCEPT !.personal = TRUE]
        BY <3>2 DEF Live, SignIn, CreateSession, UpdateMe, InsertAppointment, Call,
           LockAccount, FindBlockers, rows
      <4> QED
        BY <2>1, <4>1 DEF Account
    <3>3. CASE Rule
      <4>1. \/ account' = account
            \/ \E role : account' = [account EXCEPT !.role = role]
            \/ account' = [account EXCEPT !.status = "ACTIVE"]
            \/ account' = [account EXCEPT !.status = "SUSPENDED"]
        BY <3>3 DEF Rule, Reject, Suspend, Reinstate, SetStatus, CreateDocumentUrl,
           ApplyDecision, GrantRole, SetRole, Refuse, ApproveProof, RejectProof, Review, rows
      <4> QED
        BY <2>1, <4>1 DEF Account
    <3>4. CASE \/ \E s \in Sessions : TransactionFails(s) \/ DetectDeadlock(s)
               \/ SignOut \/ BookService \/ SellService \/ AppointmentOver \/ Crash \/ Gone
      BY <3>4 DEF TransactionFails, DetectDeadlock, Rollback, SignOut, BookService,
     SellService, AppointmentOver,
         Crash, Gone, rows, vars
    <3> QED
      BY <3>1, <3>2, <3>3, <3>4 DEF Next, Anonymize
  <2> QED
    BY <2>2 DEF IInv, LocksOK
<1> QED
  BY <1>1, Inductive, PTL DEF DeletesOnlyFree, Spec

\* A ruling is not overruled: a scan or proof that was approved or rejected stays
\* so until it is replaced or erased (decide(), review() and approve()).
THEOREM RulingsAreFinal == Spec => RulingStands
<1> DEFINE Ruled == identity # None /\ identity.status \in {"VERIFIED", "REJECTED"}
           Stands == identity' = None \/ identity'.document # identity.document
                     \/ identity' = identity
           ProofStands == \A k \in Keys : proofs[k] \in {"APPROVED", "REJECTED"}
                            => proofs'[k] \in {None, proofs[k]}
<1>1. ASSUME IInv, NEW s \in Sessions, Store(s) PROVE (Ruled => Stands) /\ ProofStands
  <2>1. CASE \E told \in BOOLEAN : SubmitIdentity(s, told)
    <3>1. PICK told \in BOOLEAN : SubmitIdentity(s, told)
      BY <2>1
    <3>2. PICK k : k = req[s].key
      OBVIOUS
    <3>3. /\ At(s, "record") /\ req[s].op = "identity"
          /\ identity' = [status |-> "SUBMITTED", document |-> k]
          /\ proofs' = proofs
      BY <3>1, <3>2 DEF SubmitIdentity
    <3>4. Unnamed(k)
      BY <1>1, <3>2, <3>3 DEF IInv, DocumentsOK, UploadsOK, Uploading, At, Kinds
    <3>5. identity # None => identity.document # k
      BY <3>4 DEF Unnamed, Names, Kinds
    <3>6. identity'.document = k
      BY <3>3
    <3> QED
      BY <3>3, <3>5, <3>6
  <2>2. CASE \E told \in BOOLEAN : CreateProof(s, told)
    <3>1. PICK k : k = req[s].key
      OBVIOUS
    <3>2. /\ At(s, "record") /\ req[s].op = "proof"
          /\ proofs' = [proofs EXCEPT ![k] = "PENDING"] /\ identity' = identity
      BY <2>2, <3>1 DEF CreateProof, RecordProof
    <3>3. Unnamed(k)
      BY <1>1, <3>1, <3>2 DEF IInv, DocumentsOK, UploadsOK, Uploading, At, Kinds
    <3>4. proofs[k] = None
      BY <3>3 DEF Unnamed, Names, Kinds
    <3>5. proofs \in [Keys -> ProofStatus \cup {None}] /\ None \notin {"APPROVED", "REJECTED"}
      BY <1>1, AccountsAssumption DEF IInv, TypeInv, TypeOK, ProofStatus
    <3>6. ProofStands
      BY <3>2, <3>4, <3>5
    <3> QED
      BY <3>2, <3>6
  <2>3. CASE ~\E told \in BOOLEAN : SubmitIdentity(s, told) \/ CreateProof(s, told)
    <3>1. UNCHANGED <<identity, proofs>>
      BY <1>1, <2>3 DEF Store, UploadAvatar, SubmitScan, SubmitProof, UploadFile, Upload,
         PutObject, PutFails, ReplaceAvatar, CreateFile, ScanRefused, FileRefused,
         RecordFails, RemoveObject, RemoveFails, RemoveAvatar, DeleteFile, GetFile, rows
    <3> QED
      BY <3>1
  <2> QED
    BY <2>1, <2>2, <2>3
<1>2. ASSUME IInv, NEW s \in Sessions, Live(s) PROVE (Ruled => Stands) /\ ProofStands
  <2>1. CASE Anonymize(s)
    BY <2>1 DEF Anonymize, Erase
  <2>2. CASE ~Anonymize(s)
    BY <1>2, <2>2 DEF Live, SignIn, CreateSession, UpdateMe, InsertAppointment, Call,
       LockAccount, FindBlockers, rows
  <2> QED
    BY <2>1, <2>2
<1>3. ASSUME IInv, Rule PROVE (Ruled => Stands) /\ ProofStands
  <2>1. CASE Reject
    BY <2>1 DEF Reject, Undecided, Decidable
  <2>2. CASE \E s \in Sessions : GrantRole(s)
    <3>1. identity # None /\ identity.status = "SUBMITTED" /\ proofs' = proofs
      BY <1>3, <2>2 DEF GrantRole, IInv, LocksOK
    <3> QED
      BY <3>1
  <2>3. CASE \E k \in Keys : ApproveProof(k) \/ RejectProof(k)
    <3>1. PICK k \in Keys, ruling \in {"APPROVED", "REJECTED"} :
            /\ proofs[k] = "PENDING" /\ proofs' = [proofs EXCEPT ![k] = ruling]
            /\ identity' = identity
      BY <2>3 DEF ApproveProof, RejectProof, Review
    <3>2. proofs \in [Keys -> ProofStatus \cup {None}]
      BY <1>3 DEF IInv, TypeInv, TypeOK
    <3> QED
      BY <3>1, <3>2
  <2>4. CASE \/ Suspend \/ Reinstate \/ \E role \in Assignable : SetRole(role)
             \/ \E s \in Sessions : CreateDocumentUrl(s) \/ ApplyDecision(s) \/ Refuse(s)
    BY <2>4 DEF Suspend, Reinstate, SetStatus, SetRole, CreateDocumentUrl, ApplyDecision,
       Refuse, rows
  <2> QED
    BY <1>3, <2>1, <2>2, <2>3, <2>4 DEF Rule
<1>4. ASSUME \/ \E s \in Sessions : TransactionFails(s) \/ DetectDeadlock(s)
             \/ SignOut \/ BookService \/ SellService \/ AppointmentOver \/ Crash \/ Gone
      PROVE  (Ruled => Stands) /\ ProofStands
  BY <1>4 DEF TransactionFails, DetectDeadlock, Rollback, SignOut, BookService,
     SellService, AppointmentOver,
     Crash, Gone, rows, vars
<1>5. IInv /\ [Next]_vars =>
        [/\ (identity # None /\ identity.status \in {"VERIFIED", "REJECTED"})
               => (identity' = None \/ identity'.document # identity.document
                    \/ identity' = identity)
         /\ \A k \in Keys : proofs[k] \in {"APPROVED", "REJECTED"}
               => proofs'[k] \in {None, proofs[k]}]_vars
  BY <1>1, <1>2, <1>3, <1>4 DEF Next
<1> QED
  BY <1>5, Inductive, PTL DEF RulingStands, Spec
=============================================================================
