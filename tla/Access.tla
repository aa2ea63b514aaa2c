------------------------------- MODULE Access -------------------------------
(***************************************************************************)
(* Who may call what: the permissions of the three roles, the permission   *)
(* every route asks for, and one person whose role changes while they call *)
(* (modules/auth/auth.config.ts, the controllers, common/authorization).   *)
(*                                                                         *)
(* The guard believes the session's copy of the account that a signed      *)
(* cookie carries for MaxAge ticks, and looks at the tables only when the  *)
(* cookie is gone: what it says is what was true some ticks ago.  A route  *)
(* is its name, what it needs and what it does to the person's matters.    *)
(***************************************************************************)
EXTENDS Naturals, Sequences, Functions

CONSTANTS
  MaxAge,     \* ticks a cookie is believed
  SetRoles    \* the roles an admin gives through the library (set-role)

VARIABLES
  person,    \* [role, verified, admin]: user.role, a verified identity, an admin_profiles row
  session,   \* whether a session row exists
  cookie,    \* the cached copy in the browser: [role, age]
  filed,     \* resources of which something the person filed awaits a ruling
  recent     \* the roles signed in under, so many ticks ago (history)

accessVars == <<person, session, cookie, filed, recent>>

----------------------------------------------------------------------------
(* permissions, and the statements of each role.                           *)

Of(resource, verbs) == {resource} \X verbs

Managed == {"create", "read", "update", "delete"}
Moderated == {"read", "decide"}
SelfSubmit == {"submitSelf", "readSelf"}

\* The queues somebody files to and an admin rules on.
Matters == {"identityVerification", "skillProof", "refund", "report"}

Profile == Of("profile", {"read", "updateSelf", "deleteSelf"})
Application == Of("advisorApplication", {"submitSelf", "readSelf", "updateSelf"})

\* adminAc.statements, as far as the routes ask for them.
AdminAc == Of("user", {"list", "get", "ban"})

AdminStatements ==
  AdminAc \cup Profile \cup Of("advisorService", {"read"})
  \cup Of("serviceCategory", Managed) \cup Of("skills", Managed)
  \cup (Matters \X Moderated) \cup Of("offPlatformFlag", Moderated)
  \cup Of("payout", Moderated) \cup Of("auditLog", {"read"})

AdvisorStatements ==
  Profile \cup Application \cup Of("advisor", {"read", "updateSelf"})
  \cup Of("advisorService", {"createSelf", "read", "update", "delete"})
  \cup Of("serviceCategory", Managed) \cup Of("skills", {"read", "create"})
  \cup ((Matters \ {"refund"}) \X SelfSubmit) \cup Of("payout", {"readSelf"})

AdviseeStatements ==
  Profile \cup Application \cup Of("serviceCategory", {"read"}) \cup Of("skills", {"read"})
  \cup (Matters \X SelfSubmit)

AppRoles == [admin   |-> AdminStatements,
             advisor |-> AdvisorStatements,
             advisee |-> AdviseeStatements]

Roles == DOMAIN AppRoles

----------------------------------------------------------------------------
(* The controllers: each route and what it needs.                          *)

Public == <<"public">>
SignedIn == <<"signed in">>

Route(does, need) == [does |-> does, need |-> need]
Reads(resource) == Route("read", <<resource, "read">>)
Rules(resource) == Route("rule", <<resource, "decide">>)
Files(resource) == Route("file", <<resource, "submitSelf">>)
ReadsOwn(resource) == Route("read", <<resource, "readSelf">>)
Writes(resource, verb) == Route("write", <<resource, verb>>)
Shows == Route("read", Public)
Asks == Route("read", SignedIn)
Acts == Route("write", SignedIn)
Desk == Writes("advisor", "updateSelf")

SkillsController ==
  [findMany |-> Shows, findOne |-> Shows, create |-> Writes("skills", "create"),
   update |-> Writes("skills", "update"), delete |-> Writes("skills", "delete")]

ServiceCategoriesController ==
  [findMany |-> Shows, findOne |-> Shows, create |-> Writes("serviceCategory", "create"),
   update |-> Writes("serviceCategory", "update"), delete |-> Writes("serviceCategory", "delete")]

UsersController ==
  [getMe |-> Writes("profile", "updateSelf"), updateMe |-> Writes("profile", "updateSelf"),
   getDeletionBlockers |-> Reads("profile"), getAvatarUrl |-> Reads("profile"),
   uploadAvatar |-> Writes("profile", "updateSelf"), removeAvatar |-> Writes("profile", "updateSelf"),
   deleteMe |-> Writes("profile", "deleteSelf")]

AdminAccountsController ==
  [findMany |-> Route("read", <<"user", "list">>), findOne |-> Route("read", <<"user", "get">>),
   suspend |-> Writes("user", "ban"), reinstate |-> Writes("user", "ban")]

\* The profile is not what an admin rules on: the identity is.
AdvisorsController ==
  [apply |-> Writes("advisorApplication", "submitSelf"), getMe |-> ReadsOwn("advisorApplication"),
   updateMe |-> Writes("advisorApplication", "updateSelf")]

PublicAdvisorsController == [findMany |-> Shows, findOne |-> Shows]

AdvisorServicesController ==
  [findMany |-> Reads("advisorService"), findOne |-> Reads("advisorService"),
   create |-> Writes("advisorService", "createSelf"), update |-> Writes("advisorService", "update"),
   delete |-> Writes("advisorService", "delete")]

AdminServicesController == [findMany |-> Reads("advisorService")]
PublicServicesController == [findMany |-> Shows, findOne |-> Shows]

AvailabilityController ==
  [getGlobal |-> Reads("advisor"), findProfiles |-> Reads("advisor"), upsertGlobal |-> Desk,
   createProfile |-> Desk, updateProfile |-> Desk, deleteProfile |-> Desk]

AdvisorBookingsController ==
  [findMine |-> Reads("advisor"), cancel |-> Desk, start |-> Desk, complete |-> Desk,
   recordNoShow |-> Desk]

AdvisorScreeningController ==
  [findQuestions |-> Reads("advisor"), findRequests |-> Reads("advisor"),
   findRequest |-> Reads("advisor"), replaceQuestions |-> Desk, accept |-> Desk, decline |-> Desk]

AdminIdentityVerificationsController ==
  [findMany |-> Reads("identityVerification"), findOne |-> Reads("identityVerification"),
   createDocumentUrl |-> Reads("identityVerification"),
   approve |-> Rules("identityVerification"), reject |-> Rules("identityVerification")]

AdvisorIdentityVerificationController ==
  [getMine |-> ReadsOwn("identityVerification"), submit |-> Files("identityVerification")]

AdminSkillProofsController ==
  [findMany |-> Reads("skillProof"), findOne |-> Reads("skillProof"),
   createDocumentUrl |-> Reads("skillProof"),
   approve |-> Rules("skillProof"), reject |-> Rules("skillProof")]

AdvisorSkillProofsController == [findMine |-> ReadsOwn("skillProof"), submit |-> Files("skillProof")]

RefundsController == [open |-> Files("refund"), findMine |-> ReadsOwn("refund")]

AdminRefundsController ==
  [findMany |-> Reads("refund"), findOne |-> Reads("refund"),
   approve |-> Rules("refund"), reject |-> Rules("refund")]

ReportsController == [submit |-> Files("report"), findMine |-> ReadsOwn("report")]

AdminReportsController ==
  [findMany |-> Reads("report"), findOne |-> Reads("report"), resolve |-> Rules("report")]

AdminOffPlatformFlagsController ==
  [findMany |-> Reads("offPlatformFlag"), resolve |-> Rules("offPlatformFlag")]

AdminCaseContextController ==
  [forReport |-> Reads("report"), forFlag |-> Reads("offPlatformFlag"), forRefund |-> Reads("refund")]

AdvisorPayoutsController == [findMine |-> ReadsOwn("payout")]

AdminPayoutsController ==
  [findMany |-> Reads("payout"), findOne |-> Reads("payout"),
   markPaid |-> Rules("payout"), markFailed |-> Rules("payout")]

BookingsController ==
  [create |-> Acts, findMine |-> Asks, findOne |-> Asks, cancel |-> Acts, reschedule |-> Acts]

BookingReviewsController == [findOne |-> Asks, create |-> Acts, update |-> Acts]

AdvisorReviewsController ==
  [findMine |-> Asks, reply |-> Acts, summaries |-> Shows, findForAdvisor |-> Shows, summary |-> Shows]

ScreeningController == [findForService |-> Asks, submit |-> Acts]

PaymentController ==
  [postCheckout |-> Acts, postInvoice |-> Acts, getInvoice |-> Asks, listMyInvoices |-> Asks,
   getMyInvoice |-> Asks, getPaymentStatus |-> Asks, checkoutCallback |-> Acts]

ChatController == [findRooms |-> Asks, findMessages |-> Asks, markRead |-> Acts, setMuted |-> Acts]
ChatFilesController ==
  [findFiles |-> Asks, upload |-> Acts, createDownloadUrl |-> Asks, remove |-> Acts]

NotificationsController ==
  [findMine |-> Asks, countUnread |-> Asks, markAllRead |-> Acts, markRead |-> Acts]

PushController == [getPublicKey |-> Asks, subscribe |-> Acts, unsubscribe |-> Acts]
PdpaController == [findMine |-> Asks, recordConsent |-> Acts]
HealthController == [check |-> Shows]

\* @Roles(['advisee']), and then the tables are asked.
ServiceSlotsController == [findSlots |-> Route("slots", <<"advisee">>)]

Controllers ==
  {SkillsController, ServiceCategoriesController, UsersController, AdminAccountsController,
   AdvisorsController, PublicAdvisorsController, AdvisorServicesController, AdminServicesController,
   PublicServicesController, AvailabilityController, AdvisorBookingsController,
   AdvisorScreeningController, AdminIdentityVerificationsController,
   AdvisorIdentityVerificationController, AdminSkillProofsController, AdvisorSkillProofsController,
   RefundsController, AdminRefundsController, ReportsController, AdminReportsController,
   AdminOffPlatformFlagsController, AdminCaseContextController, AdvisorPayoutsController,
   AdminPayoutsController, BookingsController, BookingReviewsController, AdvisorReviewsController,
   ScreeningController, PaymentController, ChatController, ChatFilesController,
   NotificationsController, PushController, PdpaController, HealthController,
   ServiceSlotsController}

AllRoutes == UNION {Range(c) : c \in Controllers}

\* What a role may be granted: a resource and a verb.
Granted(need) == {role \in Roles : need \in AppRoles[role]}

ASSUME AccessAssumption ==
  /\ MaxAge \in Nat \ {0}
  /\ SetRoles \subseteq Roles
  \* "Defining the statement without granting it to anybody is how" a route
  \* comes to refuse everyone (auth.config.ts:161-164).
  /\ \A route \in AllRoutes : Len(route.need) = 2 => Granted(route.need) # {}
  \* "an admin who could file the refund they then approve" (:123-125).
  /\ \A resource \in Matters :
       Granted(<<resource, "submitSelf">>) \cap Granted(<<resource, "decide">>) = {}

----------------------------------------------------------------------------
(* The guard: a signed cookie first, the tables when it is gone.           *)

Nobody == "nobody"
NoCookie == [role |-> Nobody, age |-> MaxAge]

\* Variant: a cookie is believed as long as the browser has it.
CookieIsThere(copy) == copy # NoCookie

CookieIsFresh(copy) == copy.age < MaxAge

Caller == IF CookieIsFresh(cookie) THEN cookie.role
          ELSE IF session THEN person.role ELSE Nobody

May(role, route) ==
  \/ route.need = SignedIn
  \/ route.need = <<role>>
  \/ route.need \in AppRoles[role]

\* What the tables say, whatever the cookie says.
FindMembership == [isAdvisor |-> person.verified, isAdmin |-> person.admin]

Resolved == {"advisee"} \cup (IF FindMembership.isAdvisor THEN {"advisor"} ELSE {})
                        \cup (IF FindMembership.isAdmin THEN {"admin"} ELSE {})

Outcome(route) ==
  CASE route.need = Public -> "served"
    [] route.need # Public /\ Caller = Nobody -> "unauthorized"
    [] OTHER -> IF /\ May(Caller, route)
                   /\ route.does = "slots" => Resolved = {"advisee"}
                THEN "served" ELSE "forbidden"

----------------------------------------------------------------------------
(* A call of the person.  Of what the handlers do only their filings       *)
(* matter here, and a service may still refuse one.                        *)

Ask(route) ==
  /\ Outcome(route) = "served"
  /\ route.does = "file"
  /\ route.need[1] = "identityVerification" => ~person.verified
  /\ filed' = filed \cup {route.need[1]}
  /\ UNCHANGED <<person, session, cookie, recent>>

\* Another admin rules.
Rule(route) ==
  /\ route.does = "rule" /\ route.need[1] \in filed
  /\ filed' = filed \ {route.need[1]}
  /\ UNCHANGED <<person, session, cookie, recent>>

Held(role) == IF session THEN [recent EXCEPT ![0] = @ \cup {role}] ELSE recent

\* An approved identity makes an Advisor of anyone but an admin.
Approve ==
  LET role == IF person.role = "admin" THEN "admin" ELSE "advisor"
  IN /\ "identityVerification" \in filed
     /\ filed' = filed \ {"identityVerification"}
     /\ person' = [person EXCEPT !.role = role, !.verified = TRUE]
     /\ recent' = Held(role)
     /\ UNCHANGED <<session, cookie>>

----------------------------------------------------------------------------
(* The library: sessions, their cookies, and the roles admins set.         *)

SetRole(role) ==
  /\ person' = [person EXCEPT !.role = role]
  /\ recent' = Held(role)
  /\ UNCHANGED <<session, cookie, filed>>

SignIn ==
  /\ ~session
  /\ session' = TRUE
  /\ cookie' = [role |-> person.role, age |-> 0]
  /\ recent' = [recent EXCEPT ![0] = @ \cup {person.role}]
  /\ UNCHANGED <<person, filed>>

\* The browser asks for its session and is given a new copy.
Refresh ==
  /\ session
  /\ cookie' = [role |-> person.role, age |-> 0]
  /\ UNCHANGED <<person, session, filed, recent>>

\* A suspension, or a sign-out on another device.
Revoke ==
  /\ session
  /\ session' = FALSE
  /\ UNCHANGED <<person, cookie, filed, recent>>

Pass ==
  /\ cookie' = [cookie EXCEPT !.age = IF @ < MaxAge THEN @ + 1 ELSE @]
  /\ recent' = [d \in DOMAIN recent |->
                  IF d > 0 THEN recent[d - 1] ELSE IF session THEN {person.role} ELSE {}]
  /\ UNCHANGED <<person, session, filed>>

----------------------------------------------------------------------------
Applicant == [role |-> "advisee", verified |-> FALSE, admin |-> FALSE]
SeededAdmin == [role |-> "admin", verified |-> FALSE, admin |-> TRUE]

AccessInit ==
  /\ person \in {Applicant, SeededAdmin}
  /\ session = FALSE
  /\ cookie = NoCookie
  /\ filed = {}
  /\ recent = [d \in 0..(MaxAge - 1) |-> {}]

AccessNext ==
  \/ \E route \in AllRoutes : Ask(route) \/ Rule(route)
  \/ \E role \in SetRoles : SetRole(role)
  \/ Approve \/ SignIn \/ Refresh \/ Revoke \/ Pass

AccessSpec == AccessInit /\ [][AccessNext]_accessVars

----------------------------------------------------------------------------
\* The types of the state.
AccessTypeOK ==
  /\ person \in [role : Roles, verified : BOOLEAN, admin : BOOLEAN]
  /\ session \in BOOLEAN
  /\ cookie \in [role : Roles \cup {Nobody}, age : 0..MaxAge]
  /\ filed \subseteq Matters
  /\ recent \in [0..(MaxAge - 1) -> SUBSET Roles]

\* auth.config.ts:306-308: a revocation or a new role "can take up to maxAge to
\* reach a browser", and never longer: whatever a route answers, a role the
\* person was signed in under within the last MaxAge ticks answers the same.
AnsweredByRecentRole ==
  Caller # Nobody =>
    \A route \in {r \in AllRoutes : r.need # Public /\ r.does # "slots"} :
      \E d \in DOMAIN recent : \E role \in recent[d] :
        May(role, route) <=> Outcome(route) = "served"

\* What role-resolver.service.ts:10-12 says of accounts, "every authenticated
\* account is an Advisee", Advisor being additive: who filed something can read
\* it.  It fails: an Advisee approved as an Advisor no longer reads their refunds.
FiledCanBeReadBack ==
  \A resource \in filed : person.role \in Granted(<<resource, "readSelf">>)
=============================================================================
