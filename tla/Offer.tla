-------------------------------- MODULE Offer --------------------------------
(***************************************************************************)
(* What an Advisor offers: availability profiles (modules/availability),   *)
(* Services that name one (modules/advisor-services), and the translated   *)
(* text of Services, categories, skills and Advisor profiles               *)
(* (modules/service-categories, skills, advisors, common/i18n).            *)
(*                                                                         *)
(* A profile's row and its three tables of one day are saved in one        *)
(* transaction that locks the row, but read by a statement each.  Services *)
(* are published and their Advisor verified; names of profiles, prices and *)
(* durations are left out.  The deletion of an account (modules/users)     *)
(* writes its Advisor profile too; of that transaction, what it does to    *)
(* the profile's texts is here, and the rest in Accounts.                  *)
(***************************************************************************)
EXTENDS Slots

CONSTANTS
  Sessions,    \* requests in progress at once (bound)
  Profiles, Services, Categories, Skills, Advisors,   \* ids (bound)
  Drafts,      \* schedules an Advisor submits (bound)
  Edits,       \* edits of text, trial and profile (bound)
  Duration,    \* minutes of a consultation, in units
  MaxRequests, \* requests in one behaviour (bound)
  Placeholder, \* the headline of a deleted Advisor
  Null,        \* SQL's
  Gone,        \* a row that was deleted
  None

VARIABLES
  profile,  \* availability_profiles and the tables that refer to it
  service,  \* services
  text,     \* the localized text of a row and its translations
  said,     \* history: what the last committed edit that named a field gave it
  kept,     \* history: the same, None once an edit that overlapped it wrote the field
  deleted,  \* Advisors whose account was deleted
  req, left

vars == <<profile, service, text, said, kept, deleted, req, left>>
stored == <<profile, service, text, said, kept, deleted>>

Languages == {"th", "en"}
Tables == {"weekly", "specific", "blocked"}
Statements == {"live"} \cup Tables
Catalogue == Categories \cup Skills
Docs == Services \cup Catalogue \cup Advisors

\* The row of a profile as a save leaves it.
Saved(draft, gone) ==
  [deleted |-> gone, weekly |-> draft.weekly, specific |-> draft.specific,
   blocked |-> draft.blocked]

\* The words an edit may leave in a field, and a row with its translations.
Words ==
  ({e.name : e \in Edits} \cup {e.about : e \in Edits} \cup {Null, Placeholder}) \ {None}
Fields == {"name", "about"}
Text == [name : Words, about : Words]
TextRow == [own : Text, th : Text \cup {None}, en : Text \cup {None}]

ASSUME OfferAssumption ==
  /\ \A e \in Edits : e.language \in Languages /\ e.profile \in Profiles \cup {None}
  /\ Advisors \cap Services = {} /\ (Advisors \cup Services) \cap Catalogue = {}
  /\ None \notin {Null, Gone, Placeholder} \cup Text \cup TextRow /\ Gone \notin TextRow
  /\ \A draft \in Drafts, gone \in BOOLEAN : Saved(draft, gone) \notin {None, Gone}
  /\ \A draft \in Drafts :
       /\ draft.weekly \cup draft.specific \in SUBSET ((0..Midnight) \X (0..Midnight))
       /\ \A p \in draft.blocked : p = AllDay \/ p \in Int \X Int
  /\ Duration \in Nat \ {0}

Is(row) == row \notin {None, Gone}
At(s, pc) == req[s] # None /\ req[s].pc = pc

Spend == left > 0 /\ left' = left - 1

Begin(s, r) ==
  /\ req[s] = None /\ Spend
  /\ req' = [req EXCEPT ![s] = r]

Go(s, r) == req' = [req EXCEPT ![s] = r] /\ UNCHANGED left
Answer(s, answer) == Go(s, [pc |-> answer])

Answers == {"done", "badRequest", "notFound", "conflict", "error", "shown"}

Forget(s) ==
  /\ req[s] # None /\ req[s].pc \in Answers
  /\ Go(s, None)
  /\ UNCHANGED stored

----------------------------------------------------------------------------
(* Availability profiles.                                                  *)

Live(p) == Is(profile[p]) /\ ~profile[p].deleted

\* Every slot search in progress notes the schedules there were meanwhile.
Schedules(p, row) ==
  /\ profile' = [profile EXCEPT ![p] = row]
  /\ UNCHANGED <<service, text, said, kept, deleted>>

Noting(p, row, t) ==
  IF At(t, "read") /\ p \in req[t].profiles
  THEN [req[t] EXCEPT !.seen[p] = @ \cup {row}] ELSE req[t]

Settle(s, p, row) ==
  /\ Schedules(p, row)
  /\ req' = [t \in Sessions |-> IF t = s THEN [pc |-> "done"] ELSE Noting(p, row, t)]
  /\ UNCHANGED left

\* The insert and its tables are one transaction.
CreateProfile(p, draft) ==
  /\ profile[p] = None /\ AssertWindows(draft)
  /\ Schedules(p, Saved(draft, FALSE))
  /\ Spend /\ UNCHANGED req

UpdateProfile(s, p, draft) ==
  /\ Is(profile[p])
  /\ Begin(s, IF ~AssertWindows(draft) THEN [pc |-> "badRequest"]
              ELSE IF ~Live(p) THEN [pc |-> "notFound"]
              ELSE [pc |-> "lock", profile |-> p, draft |-> draft])
  /\ UNCHANGED stored

RowLocked(p) == \E t \in Sessions : At(t, "replace") /\ req[t].profile = p

\* Variant: the row is not touched before its tables.
LockNothing(s) ==
  /\ At(s, "lock")
  /\ Go(s, [pc |-> "replace", profile |-> req[s].profile, draft |-> req[s].draft,
            old |-> profile[req[s].profile]])
  /\ UNCHANGED stored

\* saveProfile: the UPDATE, then the DELETEs of what there is.
LockProfile(s) ==
  /\ At(s, "lock") /\ ~RowLocked(req[s].profile)
  /\ Go(s, [pc |-> "replace", profile |-> req[s].profile, draft |-> req[s].draft,
            old |-> profile[req[s].profile]])
  /\ UNCHANGED stored

\* The INSERTs and the commit.  A profile deleted meanwhile is saved all the same.
ReplaceWindows(s) ==
  /\ At(s, "replace")
  /\ LET p == req[s].profile
         Left(k) == (profile[p][k] \ req[s].old[k]) \cup req[s].draft[k]
     IN  Settle(s, p, Saved([k \in Tables |-> Left(k)], profile[p].deleted))

DeleteProfile(s, p) ==
  /\ Is(profile[p])
  /\ Begin(s, IF Live(p) THEN [pc |-> "inUse", profile |-> p] ELSE [pc |-> "notFound"])
  /\ UNCHANGED stored

IsProfileInUse(s) ==
  /\ At(s, "inUse")
  /\ IF \E v \in Services : Is(service[v]) /\ service[v].profile = req[s].profile
     THEN Answer(s, "conflict")
     ELSE Go(s, [pc |-> "delete", profile |-> req[s].profile])
  /\ UNCHANGED stored

SoftDelete(s) ==
  /\ At(s, "delete") /\ ~RowLocked(req[s].profile)
  /\ IF Live(req[s].profile)
     THEN Settle(s, req[s].profile, [profile[req[s].profile] EXCEPT !.deleted = TRUE])
     ELSE Answer(s, "notFound") /\ UNCHANGED stored

----------------------------------------------------------------------------
(* Localized text.  An edit e names a language and the fields it changes:  *)
(* None leaves a field as it is.                                           *)

\* coalesce(translation, own), field by field.
Coalesce(t, own) ==
  IF t = None THEN own ELSE [f \in Fields |-> IF t[f] = Null THEN own[f] ELSE t[f]]

Localized(doc, language) == Coalesce(text[doc][language], text[doc].own)

Edited(e) == e.name # None \/ e.about # None

Merged(e, current) ==
  [name  |-> IF e.name = None THEN current.name ELSE e.name,
   about |-> IF e.about = None THEN current.about ELSE e.about]

WritesSourceText(language) == language = "th"

\* The text a new row gets in the language of the request.
Created(e) ==
  [own |-> Merged(e, [name |-> Null, about |-> Null]),
   th |-> IF e.language = "th" THEN Merged(e, [name |-> Null, about |-> Null]) ELSE None,
   en |-> IF e.language = "en" THEN Merged(e, [name |-> Null, about |-> Null]) ELSE None]

\* What two readings have in common.
Agreed(a, b) == [f \in Fields |-> IF a[f] = b[f] THEN a[f] ELSE None]

\* An edit that began when "before" was kept also writes the fields it does not name.
Remember(doc, e, before) ==
  /\ said' = [said EXCEPT ![doc][e.language] = Merged(e, @)]
  /\ kept' = [kept EXCEPT ![doc][e.language] = Merged(e, Agreed(@, before))]

Keeps(doc, e) == kept[doc][e.language]

SaveText(doc, e, new, before) ==
  IF ~Edited(e) THEN UNCHANGED <<text, said, kept>>
  ELSE /\ text' = [text EXCEPT ![doc] =
                     [own |-> IF WritesSourceText(e.language) THEN new ELSE @.own,
                      th |-> IF e.language = "th" THEN new ELSE @.th,
                      en |-> IF e.language = "en" THEN new ELSE @.en]]
       /\ Remember(doc, e, before)

\* The row and its translation in one transaction.
CreateText(doc, e) ==
  /\ text[doc] = None /\ e.name # None
  /\ text' = [text EXCEPT ![doc] = Created(e)]
  /\ Remember(doc, e, Keeps(doc, e))
  /\ Spend /\ UNCHANGED <<profile, service, deleted, req>>

CreateCategory(doc, e) == doc \in Categories /\ CreateText(doc, e)
CreateSkill(doc, e) == doc \in Skills /\ CreateText(doc, e)
CreateAdvisorProfile(doc, e) == doc \in Advisors /\ CreateText(doc, e)

\* Variant: merged over the row's own columns.
EditingSource(doc, e, current, before) ==
  [pc |-> "writeText", doc |-> doc, edit |-> e, text |-> Merged(e, text[doc].own), kept |-> before]

Editing(doc, e, current, before) ==
  [pc |-> "writeText", doc |-> doc, edit |-> e, text |-> Merged(e, current), kept |-> before]

\* The transaction's read, the fields left out merged in.
EditText(s, doc, e) ==
  /\ Is(text[doc])
  /\ Begin(s, Editing(doc, e, Localized(doc, e.language), Keeps(doc, e)))
  /\ UNCHANGED stored

EditCategory(s, doc, e) == doc \in Categories /\ EditText(s, doc, e)
EditSkill(s, doc, e) == doc \in Skills /\ EditText(s, doc, e)

\* The row lock of an Advisor's profile: an edit's, or the deletion's.
RowHeld(doc) == \E t \in Sessions : (At(t, "writeText") \/ At(t, "erased")) /\ req[t].doc = doc

\* The one edit that reads FOR UPDATE.  The translation is in a subquery: a read that
\* has to wait has it as it was when the statement began.
UpdateAdvisorProfile(s, doc, e) ==
  /\ doc \in Advisors
  /\ \/ ~RowHeld(doc) /\ EditText(s, doc, e)
     \/ /\ Is(text[doc]) /\ RowHeld(doc)
        /\ Begin(s, [pc |-> "wait", doc |-> doc, edit |-> e,
                     seen |-> text[doc][e.language], kept |-> Keeps(doc, e)])
        /\ UNCHANGED stored

\* The row's own columns are read again when the lock is granted.
LockAdvisorProfile(s) ==
  /\ At(s, "wait") /\ ~RowHeld(req[s].doc)
  /\ LET q == req[s] IN
     Go(s, Editing(q.doc, q.edit, Coalesce(q.seen, text[q.doc].own),
                   Agreed(Keeps(q.doc, q.edit), q.kept)))
  /\ UNCHANGED stored

\* A deletion in progress removed this translation, if there was one.
BeingErased(doc, language) ==
  \E t \in Sessions : At(t, "erase") /\ req[t].doc = doc /\ language \in req[t].gone

Blocked(q) == Edited(q.edit) /\ BeingErased(q.doc, q.edit.language)

WriteText(s) ==
  /\ At(s, "writeText") /\ ~Blocked(req[s])
  /\ LET q == req[s] IN
     IF Is(text[q.doc])
     THEN SaveText(q.doc, q.edit, q.text, q.kept) /\ Answer(s, "done")
     ELSE Answer(s, "notFound") /\ UNCHANGED <<text, said, kept>>
  /\ UNCHANGED <<profile, service, deleted>>

\* anonymizeById(): the translations there are, ...
EraseTranslations(s, doc) ==
  /\ doc \in Advisors \ deleted /\ Is(text[doc])
  /\ \A t \in Sessions : (At(t, "erase") \/ At(t, "erased")) => req[t].doc # doc
  /\ Begin(s, [pc |-> "erase", doc |-> doc, gone |-> {l \in Languages : text[doc][l] # None}])
  /\ UNCHANGED stored

\* ... then the row, once nobody edits it, ...
EraseProfile(s) ==
  /\ At(s, "erase") /\ ~RowHeld(req[s].doc)
  /\ Go(s, [req[s] EXCEPT !.pc = "erased"])
  /\ UNCHANGED stored

\* ... and the commit.  A translation inserted in between stays.
CommitErasure(s) ==
  /\ At(s, "erased")
  /\ LET doc == req[s].doc
         Unsaid == [l \in Languages |-> [name |-> None, about |-> None]]
         Rest(l) == IF l \in req[s].gone THEN None ELSE text[doc][l]
     IN  /\ text' = [text EXCEPT ![doc] = [own |-> [name |-> Placeholder, about |-> Null],
                                           th |-> Rest("th"), en |-> Rest("en")]]
         /\ said' = [said EXCEPT ![doc] = Unsaid] /\ kept' = [kept EXCEPT ![doc] = Unsaid]
         /\ deleted' = deleted \cup {doc}
  /\ Answer(s, "done")
  /\ UNCHANGED <<profile, service>>

\* The database ends an edit and a deletion that wait for each other: s fails.
DetectDeadlock(s) ==
  /\ \/ At(s, "writeText") /\ Blocked(req[s])
     \/ /\ At(s, "erase")
        /\ \E t \in Sessions : At(t, "writeText") /\ Blocked(req[t]) /\ req[t].doc = req[s].doc
  /\ Answer(s, "error")
  /\ UNCHANGED stored

DeleteText(s, doc) ==
  /\ Is(text[doc]) /\ doc \in Catalogue
  /\ Begin(s, [pc |-> "deleteText", doc |-> doc])
  /\ UNCHANGED stored

\* A foreign key keeps what a Service, or an Advisor's list of skills, names.
Named(doc, claimed) == IF doc \in Skills THEN claimed
                       ELSE \E v \in Services : Is(service[v]) /\ service[v].category = doc

DeleteRow(s, claimed) ==
  /\ At(s, "deleteText")
  /\ LET doc == req[s].doc IN
     IF ~Is(text[doc]) THEN Answer(s, "notFound") /\ UNCHANGED text
     ELSE IF Named(doc, claimed) THEN Answer(s, "error") /\ UNCHANGED text
     ELSE Answer(s, "done") /\ text' = [text EXCEPT ![doc] = Gone]
  /\ UNCHANGED <<profile, service, said, kept, deleted>>

----------------------------------------------------------------------------
(* Services.  A trial is the minutes it lasts, or Null; an edit's None      *)
(* keeps what there is.                                                     *)

ReferencesHold(category, p) == Is(text[category]) /\ Live(p)

CreateService(s, v, category, p, e) ==
  /\ service[v] = None /\ e.name # None
  /\ Begin(s, IF ReferencesHold(category, p)
              THEN [pc |-> "insert", service |-> v, category |-> category, profile |-> p, edit |-> e]
              ELSE [pc |-> "badRequest"])
  /\ UNCHANGED stored

\* createLocalized(), under a new id: the row of the profile stays when it is deleted, a
\* category's does not.
InsertService(s) ==
  /\ At(s, "insert") /\ service[req[s].service] = None /\ text[req[s].service] = None
  /\ LET q == req[s] IN
     IF Is(text[q.category])
     THEN /\ service' = [service EXCEPT ![q.service] =
               [profile |-> q.profile, category |-> q.category,
                trial |-> IF q.edit.trial = None THEN Null ELSE q.edit.trial]]
          /\ text' = [text EXCEPT ![q.service] = Created(q.edit)]
          /\ Remember(q.service, q.edit, Keeps(q.service, q.edit))
          /\ Answer(s, "done")
     ELSE Answer(s, "error") /\ UNCHANGED <<service, text, said, kept>>
  /\ UNCHANGED <<profile, deleted>>

\* getOwned(), and what the edit makes of the row.
UpdateService(s, v, e) ==
  /\ Is(service[v])
  /\ LET p == IF e.profile = None THEN service[v].profile ELSE e.profile IN
     Begin(s, IF p = Null THEN [pc |-> "badRequest"]
              ELSE [pc |-> "references", service |-> v, edit |-> e, profile |-> p,
                    trial |-> IF e.trial = None THEN service[v].trial ELSE e.trial])
  /\ UNCHANGED stored

AssertReferences(s) ==
  /\ At(s, "references")
  /\ LET q == req[s] IN
     IF Live(q.profile) THEN Go(s, [q EXCEPT !.pc = "readService"])
     ELSE Answer(s, "badRequest")
  /\ UNCHANGED stored

\* updateOwned(): the text is read again, in the transaction.
ReadService(s) ==
  /\ At(s, "readService")
  /\ LET q == req[s] IN
     IF Is(service[q.service])
     THEN Go(s, [pc |-> "writeService", service |-> q.service, edit |-> q.edit, trial |-> q.trial,
                 text |-> Merged(q.edit, Localized(q.service, q.edit.language)),
                 kept |-> Keeps(q.service, q.edit)])
     ELSE Answer(s, "notFound")
  /\ UNCHANGED stored

WriteService(s) ==
  /\ At(s, "writeService")
  /\ LET q == req[s] IN
     IF Is(service[q.service])
     THEN /\ service' = [service EXCEPT ![q.service] =
               [profile |-> IF q.edit.profile = None THEN @.profile ELSE q.edit.profile,
                category |-> @.category, trial |-> q.trial]]
          /\ SaveText(q.service, q.edit, q.text, q.kept)
          /\ Answer(s, "done")
     ELSE Answer(s, "notFound") /\ UNCHANGED <<service, text, said, kept>>
  /\ UNCHANGED <<profile, deleted>>

DeleteService(s, v) ==
  /\ Is(service[v])
  /\ Begin(s, [pc |-> "deleteService", service |-> v])
  /\ UNCHANGED stored

\* The photographs and the row, or nothing when a booking names the Service.
DeleteOwned(s) ==
  /\ At(s, "deleteService")
  /\ LET v == req[s].service IN
     \/ Is(service[v]) /\ Answer(s, "error") /\ UNCHANGED <<service, text>>
     \/ /\ Is(service[v]) /\ Answer(s, "done")
        /\ service' = [service EXCEPT ![v] = Gone] /\ text' = [text EXCEPT ![v] = Gone]
     \/ ~Is(service[v]) /\ Answer(s, "notFound") /\ UNCHANGED <<service, text>>
  /\ UNCHANGED <<profile, said, kept, deleted>>

----------------------------------------------------------------------------
(* Slot searches: the Services first, then each table of their schedules.  *)

Scheduled(v) == Is(service[v]) /\ service[v].profile # Null

Search(s, wanted) ==
  LET found == {v \in wanted : Scheduled(v)}
      names == {service[v].profile : v \in found}
  IN  IF found = {} THEN [pc |-> "notFound"]
      ELSE [pc |-> "read", profiles |-> names,
            named |-> [v \in found |-> service[v].profile],
            table |-> [k \in Statements |-> None],
            seen |-> [p \in names |-> {profile[p]}]]

FindSlots(s, v) == Begin(s, Search(s, {v})) /\ UNCHANGED stored
OpenOn(s) == Begin(s, Search(s, Services)) /\ UNCHANGED stored

ReadTable(s, k) ==
  /\ At(s, "read") /\ req[s].table[k] = None
  /\ Go(s, [req[s] EXCEPT !.table[k] =
        [p \in req[s].profiles |-> IF k = "live" THEN Live(p) ELSE profile[p][k]]])
  /\ UNCHANGED stored

\* Variant: blocked periods are read for nothing.
DayOpen(q, p) ==
  SlotsFrom(Steady, q.table["weekly"][p], q.table["specific"][p], {}, Duration)

DaySlots(q, p) ==
  SlotsFrom(Steady, q.table["weekly"][p], q.table["specific"][p], q.table["blocked"][p], Duration)

ShowSlots(s) ==
  /\ At(s, "read") /\ \A k \in Statements : req[s].table[k] # None
  /\ LET q == req[s]
         found == {v \in DOMAIN q.named : q.table["live"][q.named[v]]}
     IN  Go(s, [pc |-> "shown", named |-> q.named, seen |-> q.seen,
                slots |-> [v \in found |-> DaySlots(q, q.named[v])]])
  /\ UNCHANGED stored

----------------------------------------------------------------------------
Legacy == [profile |-> Null, category |-> CHOOSE c \in Categories : TRUE, trial |-> Null]

\* Perhaps a Service from before there were profiles.
Init ==
  /\ profile = [p \in Profiles |-> None]
  /\ \E old \in SUBSET Services :
       /\ service = [v \in Services |-> IF v \in old THEN Legacy ELSE None]
       /\ text = [d \in Docs |->
            IF d \in old \/ (d \in Categories /\ old # {})
            THEN [own |-> [name |-> Null, about |-> Null], th |-> None, en |-> None] ELSE None]
  /\ said = [d \in Docs |-> [l \in Languages |-> [name |-> None, about |-> None]]]
  /\ kept = said /\ deleted = {}
  /\ req = [s \in Sessions |-> None]
  /\ left = MaxRequests

Serve(s) ==
  \/ \E p \in Profiles, draft \in Drafts : UpdateProfile(s, p, draft)
  \/ LockProfile(s)
  \/ ReplaceWindows(s)
  \/ \E p \in Profiles : DeleteProfile(s, p)
  \/ IsProfileInUse(s)
  \/ SoftDelete(s)
  \/ \E doc \in Docs, e \in Edits :
       EditCategory(s, doc, e) \/ EditSkill(s, doc, e) \/ UpdateAdvisorProfile(s, doc, e)
  \/ LockAdvisorProfile(s)
  \/ WriteText(s)
  \/ \E doc \in Docs : EraseTranslations(s, doc)
  \/ EraseProfile(s)
  \/ CommitErasure(s)
  \/ DetectDeadlock(s)
  \/ \E doc \in Docs : DeleteText(s, doc)
  \/ \E claimed \in BOOLEAN : DeleteRow(s, claimed)
  \/ \E v \in Services, c \in Categories, p \in Profiles, e \in Edits : CreateService(s, v, c, p, e)
  \/ InsertService(s)
  \/ \E v \in Services, e \in Edits : UpdateService(s, v, e)
  \/ AssertReferences(s)
  \/ ReadService(s)
  \/ WriteService(s)
  \/ \E v \in Services : DeleteService(s, v)
  \/ DeleteOwned(s)
  \/ \E v \in Services : FindSlots(s, v)
  \/ OpenOn(s)
  \/ \E k \in Statements : ReadTable(s, k)
  \/ ShowSlots(s)
  \/ Forget(s)

Next ==
  \/ \E s \in Sessions : Serve(s)
  \/ \E p \in Profiles, draft \in Drafts : CreateProfile(p, draft)
  \/ \E doc \in Docs, e \in Edits :
       CreateCategory(doc, e) \/ CreateSkill(doc, e) \/ CreateAdvisorProfile(doc, e)

Spec == Init /\ [][Next]_vars

----------------------------------------------------------------------------
(* Every row is well typed, and a Service has a text exactly as long as a row. *)
TypeOK ==
  /\ \A p \in Profiles : profile[p] = None \/
       /\ DOMAIN profile[p] = {"deleted"} \cup Tables
       /\ profile[p].deleted \in BOOLEAN
  /\ \A v \in Services : Is(service[v]) =>
       service[v].profile \in Profiles \cup {Null} /\ service[v].category \in Categories
  /\ \A v \in Services : Is(service[v]) <=> Is(text[v])
  /\ \A s \in Sessions : req[s] = None \/ "pc" \in DOMAIN req[s]
  /\ left \in 0..MaxRequests

(* The windows and blocked periods of a profile are those of one schedule  *)
(* that passed the checks, however many saves overlap: saveProfile()       *)
(* touches the row before the tables, and two valid schedules mixed need   *)
(* not be valid.                                                           *)
WholeSchedules ==
  \A p \in Profiles : profile[p] # None =>
    \E draft \in Drafts : /\ AssertWindows(draft)
                          /\ \A k \in Tables : profile[p][k] = draft[k]

(* The slots shown are exactly the whole free times of tables that were    *)
(* each current at some moment of the search - of the one schedule there   *)
(* was, when nobody saved meanwhile - and a Service is left out only when  *)
(* its profile was deleted.                                                *)
SlotsAreExact ==
  \A s \in Sessions : At(s, "shown") =>
    \A v \in DOMAIN req[s].named :
      LET seen == req[s].seen[req[s].named[v]] IN
      IF v \in DOMAIN req[s].slots
      THEN /\ \E r \in seen : ~r.deleted
           /\ \E w, d, b \in seen :
                req[s].slots[v] = Offered(Steady, w.weekly, d.specific, b.blocked, Duration)
      ELSE \E r \in seen : r.deleted

\* A field a translation leaves empty reads as the row's own column, in Thai too.
Stands(d, l, f, word) ==
  (Is(text[d]) /\ word # None /\ (l = "th" \/ word # Null)) => Localized(d, l)[f] = word

(* Editing a text changes no other: a field reads as the last committed    *)
(* edit that named it left it, unless an edit of the same language that    *)
(* had read the text before then wrote it back, or the account was deleted *)
(* since.  That goes for a field cleared in Thai too, and not for one      *)
(* cleared in English, which shows the Thai.  The row's own columns are    *)
(* the Thai text as soon as there is one, or, once the account is deleted, *)
(* the placeholder ("so an English edit leaves the Thai as it was").       *)
TextsKept ==
  /\ \A d \in Docs, l \in Languages, f \in Fields : Stands(d, l, f, kept[d][l][f])
  /\ \A d \in Docs : (Is(text[d]) /\ text[d].th # None) =>
       \/ text[d].own = text[d].th
       \/ d \in deleted /\ text[d].own = [name |-> Placeholder, about |-> Null]

FieldsKept(docs) ==
  \A d \in docs, l \in Languages, f \in Fields : Stands(d, l, f, said[d][l][f])

(* Whatever edits overlap: updateLocalized() and updateOwned() read the    *)
(* text "so a partial edit keeps the other field", but they lock nothing,  *)
(* so a field is lost.                                                     *)
EveryTextKept == FieldsKept(Docs)

(* The same of an Advisor's profile alone: updateByUserId() says that its  *)
(* row is "locked, so two partial edits at once cannot each merge over     *)
(* stale text".  The lock does not refresh the translation.                *)
AdvisorsTextKept == FieldsKept(Advisors)

(* A deleted Advisor reads as the placeholder in every language: "the      *)
(* translations go too, or a reader in their language would still see the  *)
(* old headline".  One that an edit under way inserts is not removed.      *)
DeletedReadsAsPlaceholder ==
  \A d \in deleted, l \in Languages : Localized(d, l).name = Placeholder

(* A field that an edit cleared reads as empty: localized-columns.ts says  *)
(* that a row's own columns show only "when there is no such row".         *)
ClearedStaysCleared ==
  \A d \in Docs, l \in Languages :
    (Is(text[d]) /\ text[d][l] # None /\ said[d][l].about = Null) => Localized(d, l).about = Null

(* No Service names a deleted profile: deleteProfile() refuses one that    *)
(* "is assigned to a service".                                             *)
NamedProfilesLive ==
  \A v \in Services : (Is(service[v]) /\ service[v].profile # Null) => Live(service[v].profile)

(* What a search shows is of one schedule: a save "replaces" a profile's   *)
(* tables "atomically", but the search reads them one by one.              *)
SlotsOfOneSchedule ==
  \A s \in Sessions : At(s, "shown") =>
    \A v \in DOMAIN req[s].slots : \E r \in req[s].seen[req[s].named[v]] :
      req[s].slots[v] = Offered(Steady, r.weekly, r.specific, r.blocked, Duration)
=============================================================================
