--------------------------- MODULE PushRegistration ---------------------------
(***************************************************************************)
(* How Bold is asked to push events: a webhook for each organization that  *)
(* the account has locks of, created, kept up to date and deleted through  *)
(* Bold's API, and remembered in the config entry (push.py).               *)
(*                                                                         *)
(* The registration is a background task of the entry.  It awaits a        *)
(* request at a time, and ends, without storing anything, when one fails   *)
(* or the entry is unloaded: at a reload, a restart or its removal.  The   *)
(* request it gave up may still reach Bold, at any later time.             *)
(* The cloudhook behind a Home Assistant Cloud URL is taken to exist.      *)
(***************************************************************************)
EXTENDS Integers, FiniteSets, Functions

CONSTANTS
    Organizations,
    HomeUrls,           \* external URLs; each ends with the webhook's path
    CloudUrls,          \* a cloudhook's URL doesn't
    MaxWebhooks,        \* bound: webhooks created
    MaxLate,            \* bound: requests given up that Bold is yet to carry out
    Environment,        \* which of Hazards happen
    None

Hazards == {"fail",     \* requests to Bold fail, before or after it carried them out
            "reload",   \* the entry reloads, or Home Assistant restarts
            "url",      \* the external URL of Home Assistant changes
            "cloud",    \* a cloudhook comes to be used, or is no longer
            "devices",  \* organizations are joined and left
            "remove",   \* the entry is removed
            "late"}     \* Bold carries out requests that were given up

ASSUME MaxWebhooksIsNatural == MaxWebhooks \in Nat
ASSUME EnvironmentIsHazards == Environment \subseteq Hazards

Urls == HomeUrls \cup CloudUrls
OtherUrl == "other"
ToCreate == 0           \* the ID of a webhook there is yet to be
Webhook == [id : -1 .. MaxWebhooks, org : Organizations, url : Urls \cup {OtherUrl}]

ASSUME OtherUrlIsOther == OtherUrl \notin Urls
ASSUME NoneIsNothing == None \notin Int \cup Organizations \cup Urls \cup Webhook

VARIABLES
    webhooks,           \* those at Bold, of any app
    created,            \* how many were created
    url,                \* where Bold can reach Home Assistant, if anywhere
    organizations,      \* those of devices that have activity
    loaded, removed,    \* the config entry is set up, or was removed
    stored,             \* its webhook IDs by organization, CONF_BOLD_WEBHOOKS
    pushActive,         \* push_active of the event coordinator
    task,               \* the registration task
    late,               \* requests given up that Bold is yet to carry out
    disturbed           \* organizations one changed after the task had listed them

bold == <<webhooks, created>>
home == <<url, organizations>>
entry == <<loaded, removed, stored, pushActive>>
lateness == <<late, disturbed>>
vars == <<bold, home, entry, task, lateness>>

Nowhere == [org \in {} |-> 0]

\* All organizations, and those still to do; that being done, with the webhook to
\* keep for it and its duplicates; and the webhook IDs so far.
Task(status, orgs) ==
    [status |-> status, url |-> url, all |-> orgs, todo |-> orgs, org |-> None, keep |-> None,
     duplicates |-> {}, registered |-> Nowhere]

Idle == task.status = "idle"

MutatedIsOurs(webhook, id) == webhook.id = id \/ webhook.url = task.url
MutatedIsOursAtAnyUrl(webhook, id) == webhook.id = id \/ webhook.url # None

\* By the ID that was stored, or by its URL or the path of that.
IsOurs(webhook, id) ==
    \/ webhook.id = id
    \/ webhook.url = task.url
    \/ webhook.url \in HomeUrls

StoredId(org) == IF org \in DOMAIN stored THEN stored[org] ELSE None

-----------------------------------------------------------------------------
(* Requests to Bold                                                        *)

Request == [do : {"delete", "update", "create"}, webhook : Webhook]

Same(v, w) == v.id = w.id /\ v.org = w.org

\* One for a webhook that is gone is refused.
CanCarryOut(request) ==
    IF request.do = "create" THEN created < MaxWebhooks
    ELSE \E w \in webhooks : Same(w, request.webhook)

\* Bold carries it out.
CarriesOut(request) ==
    LET others == {w \in webhooks : ~ Same(w, request.webhook)}
    IN  /\ CanCarryOut(request)
        /\ created' = IF request.do = "create" THEN created + 1 ELSE created
        /\ webhooks' = CASE request.do = "delete" -> others
                          [] request.do = "update" -> others \cup {request.webhook}
                          [] OTHER -> webhooks \cup {[request.webhook EXCEPT !.id = created']}

\* What the task asks for: of an organization that is listed, first the
\* duplicates are deleted, then the webhook is updated or created.
Asked ==
    IF Idle \/ task.org = None THEN {}
    ELSE IF task.duplicates # {} THEN [do : {"delete"}, webhook : task.duplicates]
    ELSE IF task.keep # None
    THEN {[do |-> "update", webhook |-> [task.keep EXCEPT !.url = task.url]]}
    ELSE {[do |-> "create", webhook |-> [id |-> ToCreate, org |-> task.org, url |-> task.url]]}

\* The task ends before there is an answer.
GivesUp ==
    /\ task' = Task("idle", {})
    /\ disturbed' = {}
    /\ \/ UNCHANGED late
       \/ /\ "late" \in Environment
          /\ Cardinality(late) < MaxLate
          /\ \E request \in Asked : late' = late \cup {request}

\* An organization of which the task knows what webhooks there are.
IsListed(org) == org \in task.all /\ (org \in task.todo => org = task.org)

LateArrives ==
    \E request \in late :
        /\ CarriesOut(request)
        /\ late' = late \ {request}
        /\ disturbed' = disturbed \cup {org \in {request.webhook.org} : IsListed(org)}
        /\ UNCHANGED <<home, entry, task>>

-----------------------------------------------------------------------------
(* The registration                                                        *)

\* async_setup_push.  Without organizations there is nothing to await.
Setup ==
    /\ ~ loaded /\ ~ removed
    /\ loaded' = TRUE
    /\ task' = Task(IF url = None \/ organizations = {} THEN "idle" ELSE "running", organizations)
    /\ stored' = IF url # None /\ organizations = {} THEN Nowhere ELSE stored
    /\ disturbed' = {}
    /\ UNCHANGED <<bold, home, removed, pushActive, late>>

\* The webhooks of an organization are listed; of ours the first is kept.
ListWebhooks ==
    /\ ~ Idle /\ task.org = None
    /\ \E org \in task.todo :
           LET ours == {w \in webhooks : w.org = org /\ IsOurs(w, StoredId(org))}
           IN  \E keep \in IF ours = {} THEN {None} ELSE ours :
                   task' = [task EXCEPT !.org = org, !.keep = keep, !.duplicates = ours \ {keep}]
    /\ UNCHANGED <<bold, home, entry, lateness>>

DeleteDuplicate ==
    /\ \E request \in Asked :
           /\ request.do = "delete"
           /\ CarriesOut(request)
           /\ task' = [task EXCEPT !.duplicates = @ \ {request.webhook}]
    /\ UNCHANGED <<home, entry, lateness>>

\* An organization is done, by the webhook with this ID.
Register(id) ==
    task' = [task EXCEPT !.todo = @ \ {task.org}, !.org = None, !.keep = None,
                         !.registered = [o \in DOMAIN @ \cup {task.org} |->
                                             IF o = task.org THEN id ELSE @[o]]]

UpdateWebhook ==
    /\ \E request \in Asked :
           /\ request.do = "update"
           /\ CarriesOut(request)
           /\ Register(request.webhook.id)
    /\ UNCHANGED <<home, entry, lateness>>

CreateWebhook ==
    /\ \E request \in Asked :
           /\ request.do = "create"
           /\ CarriesOut(request)
           /\ Register(created')
    /\ UNCHANGED <<home, entry, lateness>>

\* The last answer arrived.
Finish ==
    /\ ~ Idle /\ task.todo = {}
    /\ stored' = task.registered
    /\ pushActive' = TRUE
    /\ task' = [task EXCEPT !.status = "idle"]
    /\ UNCHANGED <<bold, home, loaded, removed, lateness>>

\* A request fails: the next one, or the last one, after Bold carried it out.
Fails ==
    /\ ~ Idle
    /\ \/ "fail" \in Environment
       \/ \E request \in Asked : request.do # "create" /\ ~ CanCarryOut(request)
    /\ GivesUp
    /\ UNCHANGED <<bold, home, entry>>

-----------------------------------------------------------------------------
(* The entry, and the world                                                *)

\* Unloading cancels the task.
Unloaded ==
    /\ loaded' = FALSE
    /\ pushActive' = FALSE
    /\ GivesUp

Unload ==
    /\ "reload" \in Environment
    /\ loaded
    /\ Unloaded
    /\ UNCHANGED <<bold, home, removed, stored>>

\* async_remove_push deletes the webhooks whose IDs were stored.  One that Bold
\* fails to delete is kept.
Remove ==
    /\ "remove" \in Environment
    /\ ~ removed
    /\ Unloaded
    /\ removed' = TRUE
    /\ \E kept \in SUBSET Range(stored) :
           /\ kept = {} \/ "fail" \in Environment
           /\ webhooks' = {w \in webhooks : w.id \in kept \/ w.id \notin Range(stored)}
    /\ UNCHANGED <<created, home, stored>>

UrlChanges ==
    /\ url' \in (Urls \cup {None}) \ {url}
    /\ IF {url, url'} \cap CloudUrls = {} THEN "url" \in Environment ELSE "cloud" \in Environment
    /\ UNCHANGED <<bold, organizations, entry, task, lateness>>

DevicesChange ==
    /\ "devices" \in Environment
    /\ organizations' \in (SUBSET Organizations) \ {organizations}
    /\ UNCHANGED <<bold, url, entry, task, lateness>>

-----------------------------------------------------------------------------
\* Others have webhooks too.
Init ==
    /\ webhooks = [id : {-1}, org : Organizations, url : {OtherUrl}]
    /\ created = 0
    /\ url \in Urls
    /\ organizations \in (SUBSET Organizations) \ {{}}
    /\ loaded = FALSE /\ removed = FALSE
    /\ stored = Nowhere
    /\ pushActive = FALSE
    /\ task = Task("idle", {})
    /\ late = {} /\ disturbed = {}

\* The exploration ends when the entry is removed, or Bold has enough webhooks.
Ended ==
    /\ removed \/ created = MaxWebhooks
    /\ UNCHANGED vars

Next ==
    \/ Setup \/ ListWebhooks \/ DeleteDuplicate \/ UpdateWebhook \/ CreateWebhook
    \/ Finish \/ Fails \/ LateArrives
    \/ Unload \/ Remove \/ UrlChanges \/ DevicesChange \/ Ended

Spec == Init /\ [][Next]_vars

-----------------------------------------------------------------------------
(* Properties                                                              *)

Ids == UNION {[orgs -> -1 .. MaxWebhooks] : orgs \in SUBSET Organizations}

Tasks == [status : {"idle", "running"}, url : Urls \cup {None},
          all : SUBSET Organizations, todo : SUBSET Organizations,
          org : Organizations \cup {None}, keep : Webhook \cup {None},
          duplicates : SUBSET Webhook, registered : Ids]

\* Every variable has its type.
TypeOK ==
    /\ webhooks \subseteq Webhook /\ created \in 0 .. MaxWebhooks
    /\ url \in Urls \cup {None} /\ organizations \subseteq Organizations
    /\ loaded \in BOOLEAN /\ removed \in BOOLEAN /\ pushActive \in BOOLEAN
    /\ stored \in Ids /\ task \in Tasks
    /\ late \subseteq Request /\ disturbed \subseteq Organizations

\* The webhooks that lead to this Home Assistant.
Ours == {w \in webhooks : w.url # OtherUrl}

OursOf(org) == {w \in Ours : w.org = org}
Registered(id, org) == {[id |-> id, org |-> org, url |-> task.url]}

\* While push is active, Bold has one webhook of ours for every organization
\* that the devices were of: at the URL it was registered with, and with the ID
\* that is stored ("Existing webhooks are reused and updated, so restarts don't
\* add more"), whatever was asked for and given up before - unless Bold carried
\* that out only after the organization's webhooks had been listed.
OneWebhookEach ==
    pushActive => \A org \in task.all \ disturbed : OursOf(org) = Registered(StoredId(org), org)

\* The same, without exception.
OneWebhookEver ==
    pushActive => \A org \in task.all : OursOf(org) = Registered(StoredId(org), org)

\* The webhooks of other apps, or of other Home Assistants, are left alone.
OthersLeftAlone == [][webhooks \ Ours = (webhooks \ Ours)']_vars

\* Once the entry is removed, Bold has none of its webhooks ("Delete the Bold
\* webhooks and cloudhook of a removed config entry").
NothingLeftBehind == removed => Ours = {}

(* What every step keeps, and those follow from.                           *)

\* Others' webhooks are told by their ID, which is none that was stored or is
\* asked for,
IdsTellOurs ==
    /\ \A w \in webhooks : w.id = -1 <=> w.url = OtherUrl
    /\ -1 \notin Range(stored) /\ -1 \notin Range(task.registered)
    /\ \A request \in late : request.webhook.id # -1 /\ request.webhook.url # OtherUrl

\* nor is what the task is about to change.
TaskHasOurs ==
    /\ task.keep # None => task.keep.id # -1 /\ task.keep.url # OtherUrl
    /\ \A w \in task.duplicates : w.id # -1 /\ w.url # OtherUrl /\ w # task.keep
    /\ task.keep = None => task.duplicates = {}
    /\ task.url \in Urls

TaskInvariant == IdsTellOurs /\ (~ Idle => TaskHasOurs)

\* The URL of a cloudhook is only known as long as it is used.
UrlsStay ==
    /\ \A w \in Ours : w.url \in HomeUrls \cup {url}
    /\ \A request \in late :
           request.do # "delete" => request.webhook.url \in HomeUrls \cup {url}
    /\ ~ Idle => /\ task.url \in HomeUrls \cup {url}
                 /\ url \in CloudUrls => task.url = url

\* An ID is that of one webhook.
IdsDiffer ==
    /\ \A w \in webhooks : w.id <= created
    /\ \A v, w \in webhooks : Same(v, w) => v = w

\* An organization that is done has one webhook, one in work has those that
\* the task knows of.
OneEach ==
    /\ DOMAIN task.registered = task.all \ task.todo
    /\ task.org \in task.todo \cup {None} /\ task.todo \subseteq task.all
    /\ task.org = None => task.duplicates = {}
    /\ \A w \in task.duplicates \cup ({task.keep} \ {None}) : w.org = task.org
    /\ \A org \in task.all \ (task.todo \cup disturbed) :
           OursOf(org) = Registered(task.registered[org], org)
    /\ task.org \notin disturbed \cup {None} =>
           OursOf(task.org) = task.duplicates \cup ({task.keep} \ {None})

WebhookInvariant ==
    /\ IdsDiffer
    /\ ~ Idle => OneEach
    /\ ~ Idle => loaded
    /\ pushActive => /\ loaded /\ Idle
                     /\ task.todo = {}
                     /\ \A org \in task.all \ disturbed :
                            /\ org \in DOMAIN stored
                            /\ OursOf(org) = Registered(stored[org], org)
=============================================================================
