------------------------ MODULE PushRegistrationProofs ------------------------
(***************************************************************************)
(* What PushRegistration promises of any organizations, however often the  *)
(* entry reloads and whichever requests fail, proved.                      *)
(***************************************************************************)
EXTENDS PushRegistration, TLAPS

LEMMA NothingIsNone ==
    /\ None \notin Int /\ None \notin Organizations /\ None \notin Urls
    /\ None \notin Webhook /\ OtherUrl \notin Urls /\ MaxWebhooks \in Nat
BY NoneIsNothing, OtherUrlIsOther, MaxWebhooksIsNatural

\* IDs by organization.
LEMMA IdsType ==
    /\ \A f \in Ids : /\ DOMAIN f \in SUBSET Organizations
                      /\ \A org \in DOMAIN f : f[org] \in -1 .. MaxWebhooks
    /\ \A orgs \in SUBSET Organizations :
           \A f \in [orgs -> -1 .. MaxWebhooks] : f \in Ids
    /\ Nowhere \in Ids /\ Range(Nowhere) = {}
BY DEF Ids, Nowhere, Range

LEMMA TaskType ==
    ASSUME TypeOK, NEW status \in {"idle", "running"}, NEW orgs \in SUBSET Organizations
    PROVE  Task(status, orgs) \in Tasks
<1>1. url \in Urls \cup {None} /\ Nowhere \in Ids
  BY IdsType DEF TypeOK
<1> QED BY <1>1 DEF Task, Tasks

\* The fields of a task.
LEMMA TaskFields ==
    ASSUME TypeOK
    PROVE  /\ task.status \in {"idle", "running"} /\ task.url \in Urls \cup {None}
           /\ task.all \subseteq Organizations /\ task.todo \subseteq Organizations
           /\ task.org \in Organizations \cup {None} /\ task.keep \in Webhook \cup {None}
           /\ task.duplicates \subseteq Webhook /\ task.registered \in Ids
BY DEF TypeOK, Tasks

-----------------------------------------------------------------------------
(* Types                                                                   *)

LEMMA InitType == Init => TypeOK
<1> SUFFICES ASSUME Init PROVE TypeOK
  OBVIOUS
<1>1. webhooks \subseteq Webhook
  BY NothingIsNone DEF Init, Webhook, Urls
<1>2. url \in Urls \cup {None} /\ Nowhere \in Ids
  BY IdsType DEF Init
<1>3. Task("idle", {}) \in Tasks
  BY <1>2 DEF Task, Tasks
<1>4. /\ created \in 0 .. MaxWebhooks /\ organizations \subseteq Organizations
      /\ late \subseteq Request /\ disturbed \subseteq Organizations
  BY NothingIsNone DEF Init
<1>5. /\ loaded \in BOOLEAN /\ removed \in BOOLEAN /\ pushActive \in BOOLEAN
      /\ stored \in Ids /\ task \in Tasks
  BY <1>2, <1>3 DEF Init
<1> QED BY <1>1, <1>2, <1>4, <1>5 DEF TypeOK

\* What registering does to the task.
LEMMA Registers ==
    ASSUME TypeOK, task.org # None, NEW id \in -1 .. MaxWebhooks, Register(id)
    PROVE  /\ task' \in Tasks
           /\ task' = [task EXCEPT !.todo = task.todo \ {task.org}, !.org = None,
                                   !.keep = None, !.registered = task'.registered]
           /\ DOMAIN task'.registered = DOMAIN task.registered \cup {task.org}
           /\ task'.registered[task.org] = id
           /\ \A org \in DOMAIN task.registered \ {task.org} :
                  task'.registered[org] = task.registered[org]
<1> DEFINE registered == [o \in DOMAIN task.registered \cup {task.org} |->
                              IF o = task.org THEN id ELSE task.registered[o]]
<1>1. task' = [task EXCEPT !.todo = task.todo \ {task.org}, !.org = None,
                           !.keep = None, !.registered = registered]
  BY DEF Register, TypeOK, Tasks
<1>2. task.org \in Organizations /\ DOMAIN task.registered \in SUBSET Organizations
  BY TaskFields, IdsType
<1>3. registered \in [DOMAIN task.registered \cup {task.org} -> -1 .. MaxWebhooks]
  BY TaskFields, IdsType
<1>4. registered \in Ids
  BY <1>2, <1>3, IdsType
<1>5. task' \in Tasks /\ task'.registered = registered
  BY <1>1, <1>4 DEF TypeOK, Tasks
<1> QED BY <1>1, <1>2, <1>5

\* What the task asks for, and of what.
LEMMA AskedIs ==
    ASSUME TypeOK, TaskInvariant, NEW request \in Asked
    PROVE  /\ ~ Idle /\ task.org \in Organizations /\ task.url \in Urls /\ request \in Request
           /\ \/ /\ request.do = "delete" /\ request.webhook \in task.duplicates
              \/ /\ request.do = "update" /\ task.keep # None /\ task.duplicates = {}
                 /\ task.keep \in Webhook
                 /\ request.webhook = [task.keep EXCEPT !.url = task.url]
              \/ /\ request.do = "create" /\ task.keep = None /\ task.duplicates = {}
                 /\ request.webhook = [id |-> ToCreate, org |-> task.org, url |-> task.url]
<1>1. ~ Idle /\ task.org # None
  BY DEF Asked
<1>2. /\ task.org \in Organizations /\ task.url \in Urls
      /\ task.keep = None \/ task.keep \in Webhook
      /\ task.duplicates \subseteq Webhook
  BY <1>1, TaskFields DEF TaskInvariant, TaskHasOurs
<1>3. CASE task.duplicates # {}
  <2>1. request \in [do : {"delete"}, webhook : task.duplicates]
    BY <1>1, <1>3 DEF Asked
  <2> QED BY <1>1, <1>2, <2>1 DEF Request
<1>4. CASE task.duplicates = {} /\ task.keep # None
  <2>1. request = [do |-> "update", webhook |-> [task.keep EXCEPT !.url = task.url]]
    BY <1>1, <1>4 DEF Asked
  <2>2. [task.keep EXCEPT !.url = task.url] \in Webhook
    BY <1>2, <1>4 DEF Webhook
  <2> QED BY <1>1, <1>2, <1>4, <2>1, <2>2 DEF Request
<1>5. CASE task.duplicates = {} /\ task.keep = None
  <2>1. request = [do |-> "create",
                   webhook |-> [id |-> ToCreate, org |-> task.org, url |-> task.url]]
    BY <1>1, <1>5 DEF Asked
  <2>2. [id |-> ToCreate, org |-> task.org, url |-> task.url] \in Webhook
    BY <1>2, NothingIsNone DEF Webhook, ToCreate
  <2> QED BY <1>1, <1>2, <1>5, <2>1, <2>2 DEF Request
<1> QED BY <1>3, <1>4, <1>5

\* What Bold carries out leaves webhooks, one more at most, of which one may be
\* the request's.
LEMMA CarriesOutIs ==
    ASSUME TypeOK, NEW request \in Request, CarriesOut(request)
    PROVE  /\ webhooks' \subseteq Webhook /\ created' \in 0 .. MaxWebhooks
           /\ request.do = "create" => created' \in 1 .. MaxWebhooks
           /\ \A w \in webhooks' : \/ w \in webhooks
                                  \/ /\ request.do # "delete"
                                     /\ w.org = request.webhook.org /\ w.url = request.webhook.url
                                     /\ w.id = IF request.do = "create" THEN created'
                                               ELSE request.webhook.id
           /\ \A w \in webhooks \ webhooks' : Same(w, request.webhook)
<1>1. request.webhook \in Webhook /\ request.do \in {"delete", "update", "create"}
  BY DEF Request
<1>2. CASE request.do = "create"
  <2>1. /\ created' = created + 1 /\ created < MaxWebhooks /\ created \in 0 .. MaxWebhooks
        /\ webhooks' = webhooks \cup {[request.webhook EXCEPT !.id = created']}
    BY <1>2 DEF CarriesOut, CanCarryOut, TypeOK
  <2>2. created' \in 1 .. MaxWebhooks /\ created' \in 0 .. MaxWebhooks
    BY <2>1, NothingIsNone
  <2>3. PICK w : w = [request.webhook EXCEPT !.id = created']
    OBVIOUS
  <2>5. /\ w.org = request.webhook.org /\ w.url = request.webhook.url
        /\ w.id = created' /\ w \in Webhook
    BY <1>1, <2>2, <2>3, NothingIsNone DEF Webhook
  <2>4. webhooks' = webhooks \cup {w} /\ webhooks \subseteq Webhook
    BY <2>1, <2>3 DEF TypeOK
  <2> QED BY <1>2, <2>2, <2>4, <2>5
<1>3. CASE request.do = "update"
  <2>1. /\ created' = created
        /\ webhooks' = {w \in webhooks : ~ Same(w, request.webhook)} \cup {request.webhook}
    BY <1>3 DEF CarriesOut
  <2> QED BY <1>1, <1>3, <2>1 DEF TypeOK
<1>4. CASE request.do = "delete"
  <2>1. /\ created' = created
        /\ webhooks' = {w \in webhooks : ~ Same(w, request.webhook)}
    BY <1>4 DEF CarriesOut
  <2> QED BY <1>4, <2>1 DEF TypeOK
<1> QED BY <1>1, <1>2, <1>3, <1>4

\* A task that ends.
LEMMA GivesUpIs ==
    ASSUME TypeOK, TaskInvariant, GivesUp
    PROVE  /\ task' \in Tasks /\ Idle' /\ task'.registered = Nowhere
           /\ disturbed' = {} /\ late' \subseteq late \cup Asked /\ late' \subseteq Request
<1>1. task' \in Tasks
  BY TaskType DEF GivesUp
<1>2. Idle' /\ task'.registered = Nowhere /\ disturbed' = {}
  BY DEF GivesUp, Task, Idle
<1>3. late' \subseteq late \cup Asked
  BY DEF GivesUp
<1> QED BY <1>1, <1>2, <1>3, AskedIs DEF TypeOK

LEMMA NextType == TypeOK /\ TaskInvariant /\ [Next]_vars => TypeOK'
<1> SUFFICES ASSUME TypeOK, TaskInvariant, [Next]_vars PROVE TypeOK'
  OBVIOUS
<1> USE DEF bold, home, entry, lateness
<1>1. CASE Setup
  <2>1. task' \in Tasks
    BY <1>1, TaskType DEF Setup, TypeOK
  <2> QED BY <1>1, <2>1, IdsType DEF Setup, TypeOK
<1>2. CASE ListWebhooks
  <2>1. PICK org \in task.todo, ours \in SUBSET webhooks, keep \in webhooks \cup {None} :
            task' = [task EXCEPT !.org = org, !.keep = keep, !.duplicates = ours \ {keep}]
    BY <1>2 DEF ListWebhooks
  <2>2. task' \in Tasks
    BY <2>1 DEF TypeOK, Tasks
  <2> QED BY <1>2, <2>2 DEF ListWebhooks, TypeOK
<1>3. CASE DeleteDuplicate
  <2>1. PICK request \in Asked : /\ CarriesOut(request)
                                /\ task' = [task EXCEPT !.duplicates = @ \ {request.webhook}]
    BY <1>3 DEF DeleteDuplicate
  <2>2. task' \in Tasks
    BY <2>1 DEF TypeOK, Tasks
  <2> QED BY <1>3, <2>1, <2>2, AskedIs, CarriesOutIs DEF DeleteDuplicate, TypeOK
<1>4. CASE UpdateWebhook
  <2>1. PICK request \in Asked : /\ request.do = "update" /\ CarriesOut(request)
                                /\ Register(request.webhook.id)
    BY <1>4 DEF UpdateWebhook
  <2>2. request \in Request /\ task.org # None
    BY <2>1, AskedIs, NothingIsNone
  <2>3. request.webhook.id \in -1 .. MaxWebhooks
    BY <2>2 DEF Request, Webhook
  <2>4. task' \in Tasks
    BY <2>1, <2>2, <2>3, Registers
  <2> QED BY <1>4, <2>1, <2>2, <2>4, CarriesOutIs DEF UpdateWebhook, TypeOK
<1>5. CASE CreateWebhook
  <2>1. PICK request \in Asked : /\ request.do = "create" /\ CarriesOut(request)
                                /\ Register(created')
    BY <1>5 DEF CreateWebhook
  <2>2. request \in Request /\ task.org # None
    BY <2>1, AskedIs, NothingIsNone
  <2>3. created' \in -1 .. MaxWebhooks
    BY <2>1, <2>2, CarriesOutIs, NothingIsNone
  <2>4. task' \in Tasks
    BY <2>1, <2>2, <2>3, Registers
  <2> QED BY <1>5, <2>1, <2>2, <2>4, CarriesOutIs DEF CreateWebhook, TypeOK
<1>6. CASE Finish
  <2>1. [task EXCEPT !.status = "idle"] \in Tasks
    BY DEF TypeOK, Tasks
  <2> QED BY <1>6, <2>1, TaskFields DEF Finish, TypeOK
<1>7. CASE Fails
  BY <1>7, GivesUpIs DEF Fails, TypeOK
<1>8. CASE Unload
  BY <1>8, GivesUpIs DEF Unload, Unloaded, TypeOK
<1>9. CASE Remove
  BY <1>9, GivesUpIs DEF Remove, Unloaded, TypeOK
<1>10. CASE UrlChanges
  BY <1>10 DEF UrlChanges, TypeOK
<1>11. CASE DevicesChange
  BY <1>11 DEF DevicesChange, TypeOK
<1>12. CASE LateArrives
  <2>1. PICK request \in late :
            /\ CarriesOut(request) /\ late' = late \ {request}
            /\ disturbed' = disturbed \cup {org \in {request.webhook.org} : IsListed(org)}
            /\ UNCHANGED <<home, entry, task>>
    BY <1>12 DEF LateArrives
  <2>2. request \in Request /\ request.webhook.org \in Organizations
    BY DEF TypeOK, Request, Webhook
  <2> QED BY <2>1, <2>2, CarriesOutIs DEF TypeOK
<1>13. CASE UNCHANGED vars
  BY <1>13 DEF vars, TypeOK
<1> QED BY <1>1, <1>2, <1>3, <1>4, <1>5, <1>6, <1>7, <1>8, <1>9, <1>10, <1>11, <1>12, <1>13
        DEF Next, Ended

-----------------------------------------------------------------------------
(* Whose webhooks the task changes                                         *)

LEMMA InitTask == Init => TaskInvariant
<1> SUFFICES ASSUME Init PROVE TaskInvariant
  OBVIOUS
<1>1. \A w \in webhooks : w.id = -1 <=> w.url = OtherUrl
  BY DEF Init
<1>2. stored = Nowhere /\ task.registered = Nowhere /\ Idle /\ late = {}
  BY DEF Init, Task, Idle
<1> QED BY <1>1, <1>2, IdsType DEF TaskInvariant, IdsTellOurs

\* What is ours is told from what is not.
LEMMA OursAreOurs ==
    ASSUME TypeOK, IdsTellOurs, task.url \in Urls,
           NEW org, NEW w \in webhooks, IsOurs(w, StoredId(org))
    PROVE  w \in Ours
<1>1. StoredId(org) # -1
  BY NothingIsNone DEF StoredId, IdsTellOurs, Range
<1>2. CASE w.id = StoredId(org)
  BY <1>1, <1>2 DEF IdsTellOurs, Ours
<1>3. CASE w.url \in Urls
  BY <1>3, NothingIsNone DEF Ours
<1> QED BY <1>2, <1>3 DEF IsOurs, Urls

\* An ID that is registered is that of none of others' webhooks.
LEMMA RegistersOurs ==
    ASSUME TypeOK, TaskInvariant, ~ Idle, task.org # None, task.duplicates = {},
           NEW id \in -1 .. MaxWebhooks, id # -1, Register(id)
    PROVE  /\ -1 \notin Range(task'.registered)
           /\ task'.duplicates = {} /\ task'.keep = None /\ task'.url \in Urls
<1>1. /\ DOMAIN task'.registered = DOMAIN task.registered \cup {task.org}
      /\ task'.registered[task.org] = id
      /\ \A org \in DOMAIN task.registered \ {task.org} :
             task'.registered[org] = task.registered[org]
  BY Registers
<1>2. -1 \notin Range(task'.registered)
  BY <1>1 DEF TaskInvariant, IdsTellOurs, Range
<1>3. task' = [task EXCEPT !.todo = task.todo \ {task.org}, !.org = None,
                           !.keep = None, !.registered = task'.registered]
  BY Registers
<1>4. /\ task'.duplicates = task.duplicates /\ task'.keep = None
      /\ task'.url = task.url
  BY <1>3 DEF TypeOK, Tasks
<1> QED BY <1>2, <1>4 DEF TaskInvariant, TaskHasOurs

\* What is asked for, now or before, is of ours.
LEMMA AskedOurs ==
    ASSUME TypeOK, TaskInvariant, NEW request \in Asked \cup late
    PROVE  /\ request \in Request
           /\ request.webhook.id # -1 /\ request.webhook.url # OtherUrl
<1>1. CASE request \in late
  BY <1>1 DEF TaskInvariant, IdsTellOurs, TypeOK
<1>2. CASE request \in Asked
  <2>1. TaskHasOurs /\ request \in Request
    BY <1>2, AskedIs DEF TaskInvariant
  <2>2. CASE request.do = "delete"
    BY <1>2, <2>1, <2>2, AskedIs DEF TaskHasOurs
  <2>3. CASE request.do = "update"
    BY <1>2, <2>1, <2>3, AskedIs, NothingIsNone DEF TaskHasOurs, Webhook
  <2>4. CASE request.do = "create"
    BY <1>2, <2>1, <2>4, AskedIs, NothingIsNone DEF ToCreate
  <2> QED BY <1>2, <2>2, <2>3, <2>4, AskedIs
<1> QED BY <1>1, <1>2

\* Bold leaves others' webhooks alone when it carries such a request out.
LEMMA OnlyOurs ==
    ASSUME TypeOK, TaskInvariant, NEW request \in Asked \cup late, CarriesOut(request)
    PROVE  /\ \A w \in webhooks' : w.id = -1 <=> w.url = OtherUrl
           /\ \A w : w.url = OtherUrl => (w \in webhooks <=> w \in webhooks')
<1>1. /\ request \in Request /\ request.webhook.id # -1 /\ request.webhook.url # OtherUrl
  BY AskedOurs
<1>2. \A w \in webhooks : w.id = -1 <=> w.url = OtherUrl
  BY DEF TaskInvariant, IdsTellOurs
<1>3. ASSUME NEW w \in webhooks', w \notin webhooks
      PROVE  w.id # -1 /\ w.url # OtherUrl
  BY <1>1, <1>3, CarriesOutIs
<1>4. ASSUME NEW w \in webhooks, w \notin webhooks'
      PROVE  w.url # OtherUrl
  BY <1>1, <1>2, <1>4, CarriesOutIs DEF Same
<1> QED BY <1>2, <1>3, <1>4

LEMMA GivesUpTask ==
    ASSUME TypeOK, TaskInvariant, GivesUp, \A w \in webhooks' : w.id = -1 <=> w.url = OtherUrl,
           stored' = stored
    PROVE  TaskInvariant'
<1>1. Idle' /\ task'.registered = Nowhere /\ late' \subseteq late \cup Asked
  BY GivesUpIs
<1>2. \A request \in late' : request.webhook.id # -1 /\ request.webhook.url # OtherUrl
  BY <1>1, AskedOurs
<1> QED BY <1>1, <1>2, IdsType DEF TaskInvariant, IdsTellOurs

LEMMA NextTask == TypeOK /\ TaskInvariant /\ [Next]_vars => TaskInvariant'
<1> SUFFICES ASSUME TypeOK, TaskInvariant, [Next]_vars PROVE TaskInvariant'
  OBVIOUS
<1> USE DEF bold, home, entry, lateness
<1>0. IdsTellOurs
  BY DEF TaskInvariant
<1>1. CASE Setup
  <2>1. /\ task'.registered = Nowhere /\ task'.duplicates = {} /\ task'.keep = None
        /\ task'.url = url /\ (url = None => Idle')
    BY <1>1 DEF Setup, Task, Idle
  <2>2. stored' \in {stored, Nowhere}
    BY <1>1 DEF Setup
  <2>3. IdsTellOurs'
    BY <1>0, <1>1, <2>1, <2>2, IdsType DEF Setup, IdsTellOurs
  <2>4. ~ Idle' => TaskHasOurs'
    BY <2>1, NothingIsNone DEF TaskHasOurs, TypeOK
  <2> QED BY <2>3, <2>4 DEF TaskInvariant
<1>2. CASE ListWebhooks
  <2>1. PICK org \in task.todo :
            LET ours == {w \in webhooks : w.org = org /\ IsOurs(w, StoredId(org))}
            IN  \E keep \in IF ours = {} THEN {None} ELSE ours :
                    task' = [task EXCEPT !.org = org, !.keep = keep, !.duplicates = ours \ {keep}]
    BY <1>2 DEF ListWebhooks
  <2> DEFINE ours == {w \in webhooks : w.org = org /\ IsOurs(w, StoredId(org))}
  <2>2. PICK keep \in IF ours = {} THEN {None} ELSE ours :
            task' = [task EXCEPT !.org = org, !.keep = keep, !.duplicates = ours \ {keep}]
    BY <2>1
  <2>3. /\ task'.keep = keep /\ task'.duplicates = ours \ {keep} /\ task'.url = task.url
        /\ task'.registered = task.registered
    BY <2>2 DEF TypeOK, Tasks
  <2>4. task.url \in Urls
    BY <1>2 DEF ListWebhooks, TaskInvariant, TaskHasOurs
  <2>5. \A w \in ours : w.id # -1 /\ w.url # OtherUrl
    BY <1>0, <2>4, OursAreOurs DEF IdsTellOurs, Ours
  <2>6. keep = None => ours = {}
    BY NothingIsNone DEF TypeOK
  <2>7. TaskHasOurs'
    BY <2>2, <2>3, <2>4, <2>5, <2>6 DEF TaskHasOurs
  <2>8. IdsTellOurs'
    BY <1>0, <1>2, <2>3 DEF ListWebhooks, IdsTellOurs
  <2> QED BY <2>7, <2>8 DEF TaskInvariant
<1>3. CASE DeleteDuplicate
  <2>1. PICK request \in Asked :
            /\ CarriesOut(request) /\ UNCHANGED <<stored, late>>
            /\ task' = [task EXCEPT !.duplicates = task.duplicates \ {request.webhook}]
    BY <1>3 DEF DeleteDuplicate
  <2>2. /\ task'.keep = task.keep /\ task'.duplicates \subseteq task.duplicates
        /\ task'.url = task.url /\ task'.registered = task.registered
    BY <2>1 DEF TypeOK, Tasks
  <2>3. TaskHasOurs
    BY <2>1, AskedIs DEF TaskInvariant
  <2>4. TaskHasOurs'
    BY <2>2, <2>3 DEF TaskHasOurs
  <2>5. IdsTellOurs'
    BY <1>0, <2>1, <2>2, OnlyOurs DEF IdsTellOurs
  <2> QED BY <2>4, <2>5 DEF TaskInvariant
<1>4. CASE UpdateWebhook \/ CreateWebhook
  <2>1. PICK request, id :
            /\ request \in Asked /\ CarriesOut(request) /\ Register(id) /\ UNCHANGED <<stored, late>>
            /\ IF request.do = "update" THEN id = request.webhook.id
               ELSE request.do = "create" /\ id = created'
    BY <1>4 DEF UpdateWebhook, CreateWebhook
  <2>2. /\ ~ Idle /\ task.org # None /\ task.duplicates = {} /\ request \in Request
    BY <2>1, AskedIs, NothingIsNone
  <2>3. id \in -1 .. MaxWebhooks /\ id # -1
    <3>1. CASE request.do = "update"
      BY <2>1, <2>2, <3>1, AskedOurs DEF Request, Webhook
    <3>2. CASE request.do = "create"
      BY <2>1, <2>2, <3>2, CarriesOutIs, NothingIsNone
    <3> QED BY <2>1, <3>1, <3>2
  <2>4. /\ -1 \notin Range(task'.registered)
        /\ task'.duplicates = {} /\ task'.keep = None /\ task'.url \in Urls
    BY <2>1, <2>2, <2>3, RegistersOurs
  <2>5. IdsTellOurs'
    BY <1>0, <2>1, <2>4, OnlyOurs DEF IdsTellOurs
  <2>6. TaskHasOurs'
    BY <2>4 DEF TaskHasOurs
  <2> QED BY <2>5, <2>6 DEF TaskInvariant
<1>5. CASE Finish
  <2>1. Idle' /\ task'.registered = task.registered /\ stored' = task.registered
    BY <1>5 DEF Finish, Idle, TypeOK, Tasks
  <2> QED BY <1>0, <1>5, <2>1 DEF Finish, IdsTellOurs, TaskInvariant
<1>6. CASE Fails \/ Unload
  BY <1>0, <1>6, GivesUpTask DEF Fails, Unload, Unloaded, IdsTellOurs
<1>7. CASE Remove
  <2>1. webhooks' \subseteq webhooks /\ stored' = stored /\ GivesUp
    BY <1>7 DEF Remove, Unloaded
  <2> QED BY <1>0, <2>1, GivesUpTask DEF IdsTellOurs
<1>8. CASE UrlChanges
  BY <1>8 DEF UrlChanges, TaskInvariant, IdsTellOurs, TaskHasOurs, Idle
<1>9. CASE DevicesChange
  BY <1>9 DEF DevicesChange, TaskInvariant, IdsTellOurs, TaskHasOurs, Idle
<1>10. CASE LateArrives
  <2>1. PICK request \in late :
            CarriesOut(request) /\ late' = late \ {request} /\ UNCHANGED <<stored, task>>
    BY <1>10 DEF LateArrives
  <2>2. \A w \in webhooks' : w.id = -1 <=> w.url = OtherUrl
    BY <2>1, OnlyOurs
  <2> QED BY <1>0, <2>1, <2>2 DEF TaskInvariant, IdsTellOurs, TaskHasOurs, Idle
<1>11. CASE UNCHANGED vars
  BY <1>11 DEF vars, TaskInvariant, IdsTellOurs, TaskHasOurs, Idle
<1> QED BY <1>1, <1>2, <1>3, <1>4, <1>5, <1>6, <1>7, <1>8, <1>9, <1>10, <1>11 DEF Next, Ended

\* Every variable keeps its type.
THEOREM PushTypeCorrect == Spec => []TypeOK
<1> QED BY InitType, NextType, InitTask, NextTask, PTL DEF Spec

LEMMA TaskInvariantHolds == Spec => [](TypeOK /\ TaskInvariant)
<1> QED BY InitType, NextType, InitTask, NextTask, PTL DEF Spec

-----------------------------------------------------------------------------
(* Others' webhooks                                                        *)

LEMMA NextLeavesOthers ==
    TypeOK /\ TaskInvariant /\ [Next]_vars => webhooks \ Ours = (webhooks \ Ours)'
<1> SUFFICES ASSUME TypeOK, TaskInvariant, [Next]_vars
             PROVE  \A w : w.url = OtherUrl => (w \in webhooks <=> w \in webhooks')
  BY DEF Ours
<1> USE DEF bold, home, entry, lateness
<1>1. CASE \E request \in Asked \cup late : CarriesOut(request)
  BY <1>1, OnlyOurs
<1>2. CASE Remove
  <2>1. PICK kept \in SUBSET Range(stored) :
            webhooks' = {w \in webhooks : w.id \in kept \/ w.id \notin Range(stored)}
    BY <1>2 DEF Remove
  <2> QED BY <2>1 DEF TaskInvariant, IdsTellOurs
<1>3. CASE webhooks' = webhooks
  BY <1>3
<1> QED BY <1>1, <1>2, <1>3
        DEF Next, Setup, ListWebhooks, DeleteDuplicate, UpdateWebhook, CreateWebhook, Finish,
            Fails, LateArrives, Unload, UrlChanges, DevicesChange, Ended, vars

\* No step creates, changes or deletes a webhook of another app or another
\* Home Assistant: _is_ours never takes one of them for ours, whatever was
\* stored, and the removal deletes what was stored only.
THEOREM OthersAlwaysLeftAlone == Spec => OthersLeftAlone
<1>1. TypeOK /\ TaskInvariant /\ [Next]_vars => [webhooks \ Ours = (webhooks \ Ours)']_vars
  BY NextLeavesOthers
<1> QED BY <1>1, TaskInvariantHolds, PTL DEF Spec, OthersLeftAlone

-----------------------------------------------------------------------------
(* One webhook each                                                        *)

LEMMA InitUrls == Init => UrlsStay
BY DEF Init, UrlsStay, Ours, Task, Idle

\* The URL that is known is one of Home Assistant's own, or stays.
LEMMA UrlIsKept ==
    ASSUME TypeOK, [Next]_vars, "cloud" \notin Environment
    PROVE  \/ url' = url
           \/ {url, url'} \subseteq HomeUrls \cup {None} /\ url' \notin CloudUrls
<1>1. CASE UrlChanges
  BY <1>1 DEF UrlChanges, TypeOK, Urls
<1>2. CASE ~ UrlChanges
  BY <1>2 DEF Next, Setup, ListWebhooks, DeleteDuplicate, UpdateWebhook, CreateWebhook, Finish,
              Fails, LateArrives, Unload, Remove, DevicesChange, Ended, vars, home
<1> QED BY <1>1, <1>2

\* What is asked for has such URLs.
LEMMA AskedUrls ==
    ASSUME TypeOK, TaskInvariant, UrlsStay, NEW request \in Asked \cup late
    PROVE  request.do # "delete" => request.webhook.url \in HomeUrls \cup {url}
<1>1. CASE request \in late
  BY <1>1 DEF UrlsStay
<1>2. CASE request \in Asked
  <2>1. ~ Idle /\ task.url \in HomeUrls \cup {url}
    BY <1>2, AskedIs DEF UrlsStay
  <2>2. CASE request.do = "update"
    BY <1>2, <2>1, <2>2, AskedIs DEF Webhook
  <2>3. CASE request.do = "create"
    BY <1>2, <2>1, <2>3, AskedIs
  <2> QED BY <1>2, <2>2, <2>3, AskedIs DEF Request
<1> QED BY <1>1, <1>2

\* So those of the webhooks do.
LEMMA NextUrls ==
    ASSUME "cloud" \notin Environment
    PROVE  TypeOK /\ TaskInvariant /\ UrlsStay /\ [Next]_vars => UrlsStay'
<1> SUFFICES ASSUME TypeOK, TaskInvariant, UrlsStay, [Next]_vars PROVE UrlsStay'
  OBVIOUS
<1> USE DEF bold, home, entry, lateness
<1>1. /\ \A u \in Urls \cap (HomeUrls \cup {url}) : u \in HomeUrls \cup {url'}
      /\ url' \in CloudUrls => url' = url
  BY UrlIsKept, NothingIsNone
<1>2. ~ Idle' => /\ task'.url \in Urls \cap (HomeUrls \cup {url})
                 /\ url' \in CloudUrls => task'.url = url'
  <2>1. CASE Setup
    <3>1. task'.url = url /\ url' = url /\ (url = None => Idle')
      BY <2>1 DEF Setup, Task, Idle
    <3> QED BY <3>1 DEF TypeOK
  <2>2. CASE GivesUp \/ Finish
    <3>1. Idle'
      BY <2>2, GivesUpIs DEF Finish, Idle, TypeOK, Tasks
    <3> QED BY <3>1
  <2>3. ASSUME task'.url = task.url, ~ Idle' => ~ Idle
        PROVE  ~ Idle' => /\ task'.url \in Urls \cap (HomeUrls \cup {url})
                          /\ url' \in CloudUrls => task'.url = url'
    BY <1>1, <2>3 DEF UrlsStay, TaskInvariant, TaskHasOurs
  <2>4. CASE UpdateWebhook \/ CreateWebhook
    <3>1. PICK request, id : /\ request \in Asked /\ CarriesOut(request) /\ Register(id)
                             /\ id = request.webhook.id \/ id = created'
      BY <2>4 DEF UpdateWebhook, CreateWebhook
    <3>2. request \in Request /\ ~ Idle /\ task.org # None
      BY <3>1, AskedIs, NothingIsNone
    <3>3. id \in -1 .. MaxWebhooks
      <4>1. request.webhook.id \in -1 .. MaxWebhooks
        BY <3>2 DEF Request, Webhook
      <4>2. created' \in 0 .. MaxWebhooks
        BY <3>1, <3>2, CarriesOutIs
      <4> QED BY <3>1, <4>1, <4>2, NothingIsNone
    <3>4. task' = [task EXCEPT !.todo = task.todo \ {task.org}, !.org = None,
                               !.keep = None, !.registered = task'.registered]
      BY <3>1, <3>2, <3>3, Registers
    <3>5. task'.url = task.url
      BY <3>4 DEF TypeOK, Tasks
    <3> QED BY <2>3, <3>2, <3>5
  <2>5. CASE ListWebhooks
    BY <2>3, <2>5 DEF ListWebhooks, TypeOK, Tasks
  <2>6. CASE DeleteDuplicate
    <3>1. task'.url = task.url /\ ~ Idle
      BY <2>6, AskedIs DEF DeleteDuplicate, TypeOK, Tasks
    <3> QED BY <2>3, <3>1
  <2>7. CASE task' = task
    BY <2>3, <2>7 DEF Idle
  <2> QED BY <2>1, <2>2, <2>4, <2>5, <2>6, <2>7
          DEF Next, Fails, Unload, Remove, Unloaded, UrlChanges, DevicesChange,
              LateArrives, Ended, vars
<1>3. \A w \in webhooks' : w \in webhooks \/ w.url \in HomeUrls \cup {url}
  <2>1. CASE \E request \in Asked \cup late : CarriesOut(request)
    <3>1. PICK request \in Asked \cup late : CarriesOut(request)
      BY <2>1
    <3>2. request \in Request
      BY AskedOurs
    <3> QED BY <3>1, <3>2, CarriesOutIs, AskedUrls
  <2>2. CASE webhooks' \subseteq webhooks
    BY <2>2
  <2> QED BY <2>1, <2>2
          DEF Next, Setup, ListWebhooks, DeleteDuplicate, UpdateWebhook, CreateWebhook, Finish,
              Fails, LateArrives, Unload, Remove, UrlChanges, DevicesChange, Ended, vars
<1>4. late' \subseteq late \cup Asked
  BY GivesUpIs DEF Next, Setup, ListWebhooks, DeleteDuplicate, UpdateWebhook, CreateWebhook,
     Finish, Fails, LateArrives, Unload, Remove, Unloaded, UrlChanges, DevicesChange, Ended, vars
<1>5. /\ \A w \in webhooks' : w.url # OtherUrl => w.url \in Urls
      /\ \A request \in late' : request.webhook.url \in Urls
  <2>1. webhooks' \subseteq Webhook
    BY NextType DEF TypeOK
  <2>2. \A request \in late' : request.webhook \in Webhook /\ request.webhook.url # OtherUrl
    BY <1>4, AskedOurs DEF Request
  <2> QED BY <2>1, <2>2 DEF Webhook
<1>6. \A w \in Ours' : w.url \in Urls \cap (HomeUrls \cup {url})
  BY <1>3, <1>5 DEF UrlsStay, Ours
<1>7. \A request \in late' :
          request.do # "delete" => request.webhook.url \in Urls \cap (HomeUrls \cup {url})
  BY <1>4, <1>5, AskedUrls
<1> QED BY <1>1, <1>2, <1>6, <1>7 DEF UrlsStay

\* What is ours of an organization is recognized: all of it, and nothing else.
Recognized == ~ Idle => \A w \in Ours : w.url \in HomeUrls \cup {task.url}

LEMMA OursAreRecognized ==
    ASSUME TypeOK, TaskInvariant, ~ Idle, Recognized, NEW org
    PROVE  {w \in webhooks : w.org = org /\ IsOurs(w, StoredId(org))} = OursOf(org)
<1>1. \A w \in webhooks : IsOurs(w, StoredId(org)) => w \in Ours
  BY OursAreOurs DEF TaskInvariant, TaskHasOurs
<1>2. \A w \in Ours : IsOurs(w, StoredId(org))
  BY DEF Recognized, IsOurs
<1> QED BY <1>1, <1>2 DEF OursOf, Ours

\* What ours is of an organization, before and after a step.
LEMMA OursOfIs ==
    /\ \A o : OursOf(o) = {w \in webhooks : w.url # OtherUrl /\ w.org = o}
    /\ \A o : OursOf(o)' = {w \in webhooks' : w.url # OtherUrl /\ w.org = o}
BY DEF OursOf, Ours

\* What Bold carries out for the task is of the organization in work only: the
\* duplicate goes, the webhook that is kept gets the URL, or there is one more.
LEMMA CarriesOutOf ==
    ASSUME TypeOK, TaskInvariant, NEW request \in Request, CarriesOut(request)
    PROVE  \A o : o # request.webhook.org => OursOf(o)' = OursOf(o)
<1>1. \A w \in webhooks' : w \in webhooks \/ w.org = request.webhook.org
  BY CarriesOutIs
<1>2. \A w \in webhooks : w \in webhooks' \/ w.org = request.webhook.org
  BY CarriesOutIs DEF Same
<1> QED BY <1>1, <1>2, OursOfIs

\* An organization that is registered has one webhook, when what there was of
\* it has gone; the others have what they had.
LEMMA RegistersOne ==
    ASSUME TypeOK, WebhookInvariant, ~ Idle, NEW org, org = task.org, org # None,
           NEW id \in -1 .. MaxWebhooks, Register(id),
           org \notin disturbed => OursOf(org)' = {[id |-> id, org |-> org, url |-> task.url]},
           task.duplicates = {},
           \A o : o # org => OursOf(o)' = OursOf(o),
           UNCHANGED <<loaded, pushActive, disturbed>>, IdsDiffer'
    PROVE  WebhookInvariant'
<1>1. /\ DOMAIN task'.registered = DOMAIN task.registered \cup {org}
      /\ task'.registered[org] = id
      /\ \A o \in DOMAIN task.registered \ {org} :
             task'.registered[o] = task.registered[o]
  BY Registers
<1>2. task' = [task EXCEPT !.todo = task.todo \ {task.org}, !.org = None,
                           !.keep = None, !.registered = task'.registered]
  BY Registers
<1>3. /\ task'.todo = task.todo \ {org} /\ task'.org = None /\ task'.keep = None
      /\ task'.duplicates = {} /\ task'.all = task.all /\ task'.url = task.url
  BY <1>2 DEF TypeOK, Tasks
<1>4. OneEach /\ ~ pushActive' /\ loaded'
  BY DEF WebhookInvariant
<1>5. org \in task.todo
  BY <1>4 DEF OneEach
<1>6. ASSUME NEW o \in task'.all \ (task'.todo \cup disturbed)
      PROVE  OursOf(o)' = {[id |-> task'.registered[o], org |-> o, url |-> task.url]}
  <2>1. CASE o = org
    BY <1>1, <1>6, <2>1
  <2>2. CASE o # org
    <3>1. o \in task.all \ (task.todo \cup disturbed) /\ o \in DOMAIN task.registered
      BY <1>3, <1>4, <1>6, <2>2 DEF OneEach
    <3>2. OursOf(o) = {[id |-> task.registered[o], org |-> o, url |-> task.url]}
      BY <1>4, <3>1 DEF OneEach, Registered
    <3> QED BY <1>1, <2>2, <3>1, <3>2
  <2> QED BY <2>1, <2>2
<1>7. \A o \in task'.all \ (task'.todo \cup disturbed') :
          (OursOf(o) = Registered(task.registered[o], o))'
  BY <1>3, <1>6 DEF Registered
<1>8. DOMAIN task'.registered = task'.all \ task'.todo
  BY <1>1, <1>3, <1>4, <1>5 DEF OneEach
<1>9. OneEach'
  <2>1. (task.org \in task.todo \cup {None} /\ task.todo \subseteq task.all)'
    BY <1>3, <1>4 DEF OneEach
  <2>2. (task.org = None /\ task.keep = None /\ task.duplicates = {})'
    BY <1>3
  <2> QED BY <1>7, <1>8, <2>1, <2>2 DEF OneEach
<1> QED BY <1>4, <1>9 DEF WebhookInvariant

LEMMA InitWebhooks == Init => WebhookInvariant
BY DEF Init, WebhookInvariant, IdsDiffer, Same, Task, Idle

\* IDs are new when they are given, and requests of others keep them.
LEMMA NextIds == TypeOK /\ TaskInvariant /\ IdsDiffer /\ [Next]_vars => IdsDiffer'
<1> SUFFICES ASSUME TypeOK, TaskInvariant, IdsDiffer, [Next]_vars PROVE IdsDiffer'
  OBVIOUS
<1> USE DEF bold, home, entry, lateness
<1>1. CASE \E request \in Asked \cup late : CarriesOut(request)
  <2>1. PICK request \in Asked \cup late : CarriesOut(request)
    BY <1>1
  <2>2. request \in Request /\ created \in 0 .. MaxWebhooks /\ MaxWebhooks \in Nat
    BY AskedOurs, NothingIsNone DEF TypeOK
  <2>3. webhooks \subseteq Webhook /\ \A w \in webhooks : w.id \in -1 .. MaxWebhooks
    BY DEF TypeOK, Webhook
  <2>4. CASE request.do = "create"
    <3>1. created' = created + 1
      BY <2>1, <2>4 DEF CarriesOut
    <3>2. PICK new : new = [request.webhook EXCEPT !.id = created']
      OBVIOUS
    <3>3. webhooks' = webhooks \cup {new} /\ new.id = created'
      BY <2>1, <2>2, <2>4, <3>2 DEF CarriesOut, Request, Webhook
    <3> QED BY <2>2, <2>3, <3>1, <3>3 DEF IdsDiffer, Same
  <2>5. CASE request.do # "create"
    <3>1. /\ created' = created
          /\ \A w \in webhooks' :
                 w = request.webhook \/ (w \in webhooks /\ ~ Same(w, request.webhook))
      <4>1. CASE request.do = "update"
        <5>1. /\ created' = created
              /\ webhooks' = {w \in webhooks : ~ Same(w, request.webhook)} \cup {request.webhook}
          BY <2>1, <4>1 DEF CarriesOut
        <5> QED BY <5>1
      <4>2. CASE request.do = "delete"
        BY <2>1, <4>2 DEF CarriesOut
      <4> QED BY <2>2, <2>5, <4>1, <4>2 DEF Request
    <3>2. request.webhook.id <= created
      BY <2>1, <2>5 DEF CarriesOut, CanCarryOut, Same, IdsDiffer
    <3>3. \A w \in webhooks' : w.id <= created
      BY <3>1, <3>2 DEF IdsDiffer
    <3>4. \A v, w \in webhooks' : Same(v, w) => v = w
      BY <3>1 DEF IdsDiffer, Same
    <3> QED BY <3>1, <3>3, <3>4 DEF IdsDiffer, Same
  <2> QED BY <2>4, <2>5
<1>2. CASE webhooks' \subseteq webhooks /\ created' = created
  BY <1>2 DEF IdsDiffer, Same
<1> QED BY <1>1, <1>2
        DEF Next, Setup, ListWebhooks, DeleteDuplicate, UpdateWebhook, CreateWebhook, Finish,
            Fails, LateArrives, Unload, Remove, UrlChanges, DevicesChange, Ended, vars

\* A request given up that arrives disturbs its organization, once that is
\* listed; what the others have is as it was.
LEMMA LateDisturbs ==
    ASSUME TypeOK, TaskInvariant, WebhookInvariant, LateArrives, IdsDiffer'
    PROVE  WebhookInvariant'
<1> USE DEF home, entry
<1>1. PICK request \in late :
          /\ CarriesOut(request)
          /\ disturbed' = disturbed \cup {org \in {request.webhook.org} : IsListed(org)}
          /\ UNCHANGED <<home, entry, task>>
  BY DEF LateArrives
<1>2. \A o : o # request.webhook.org => OursOf(o)' = OursOf(o)
  BY <1>1, CarriesOutOf DEF TypeOK
<1>3. \A o : o \notin disturbed' /\ IsListed(o) => o \notin disturbed /\ OursOf(o)' = OursOf(o)
  BY <1>1, <1>2
<1>4. \A id, o : Registered(id, o)' = Registered(id, o)
  BY <1>1 DEF Registered
<1>5. CASE ~ Idle
  <2>1. OneEach /\ ~ pushActive /\ loaded
    BY <1>5 DEF WebhookInvariant
  <2>2. ASSUME NEW o \in task.all \ (task.todo \cup disturbed')
        PROVE  OursOf(o)' = Registered(task.registered[o], o)'
    <3>1. o \in task.all \ (task.todo \cup disturbed) /\ OursOf(o)' = OursOf(o)
      BY <1>3, <2>2 DEF IsListed
    <3>2. OursOf(o) = Registered(task.registered[o], o)
      BY <2>1, <3>1 DEF OneEach
    <3> QED BY <1>1, <3>1, <3>2 DEF Registered
  <2>3. ASSUME task.org \notin disturbed' \cup {None}
        PROVE  OursOf(task.org)' = task.duplicates \cup ({task.keep} \ {None})
    <3>1. IsListed(task.org)
      BY <2>1, <2>3 DEF OneEach, IsListed
    <3>2. task.org \notin disturbed \cup {None} /\ \A o : o = task.org => OursOf(o)' = OursOf(o)
      BY <1>3, <2>3, <3>1
    <3>3. PICK org : org = task.org
      OBVIOUS
    <3>4. OursOf(org)' = OursOf(org)
      BY <3>2, <3>3
    <3>5. OursOf(task.org) = task.duplicates \cup ({task.keep} \ {None})
      BY <2>1, <3>2 DEF OneEach
    <3> QED BY <1>1, <3>3, <3>4, <3>5
  <2>4. OneEach'
    BY <1>1, <2>1, <2>2, <2>3 DEF OneEach
  <2> QED BY <1>1, <2>1, <2>4 DEF WebhookInvariant
<1>6. CASE Idle
  <2>1. Idle' /\ loaded' = loaded /\ pushActive' = pushActive /\ stored' = stored
    BY <1>1, <1>6 DEF Idle
  <2>2. ASSUME pushActive, NEW o \in task.all \ disturbed'
        PROVE  o \in DOMAIN stored /\ OursOf(o)' = Registered(stored[o], o)'
    <3>1. task.todo = {}
      BY <2>2 DEF WebhookInvariant
    <3>2. o \notin disturbed /\ OursOf(o)' = OursOf(o)
      BY <1>3, <2>2, <3>1 DEF IsListed
    <3>3. o \in DOMAIN stored /\ OursOf(o) = Registered(stored[o], o)
      BY <2>2, <3>2 DEF WebhookInvariant
    <3> QED BY <1>1, <3>2, <3>3 DEF Registered
  <2> QED BY <1>1, <2>1, <2>2 DEF WebhookInvariant
<1> QED BY <1>5, <1>6

LEMMA NextWebhooks ==
    TypeOK /\ TaskInvariant /\ Recognized /\ WebhookInvariant /\ [Next]_vars
        => WebhookInvariant'
<1> SUFFICES ASSUME TypeOK, TaskInvariant, Recognized, WebhookInvariant, [Next]_vars
             PROVE  WebhookInvariant'
  OBVIOUS
<1> USE DEF bold, home, entry, lateness
<1>0. task' = [task EXCEPT !.status = "idle"] => task'.status = "idle"
  BY DEF TypeOK, Tasks
<1>ids. IdsDiffer'
  BY NextIds DEF WebhookInvariant
<1>1. CASE Setup
  <2>1. /\ task'.registered = Nowhere /\ task'.org = None /\ task'.keep = None
        /\ task'.all = organizations /\ task'.todo = organizations
        /\ task'.duplicates = {} /\ loaded'
    BY <1>1 DEF Setup, Task
  <2>2. ~ pushActive'
    BY <1>1 DEF Setup, WebhookInvariant
  <2>3. OneEach'
    BY <2>1, NothingIsNone DEF OneEach, Nowhere
  <2> QED BY <2>1, <2>2, <2>3, <1>ids DEF WebhookInvariant
<1>2. CASE ListWebhooks
  <2>1. PICK org \in task.todo :
            LET ours == {w \in webhooks : w.org = org /\ IsOurs(w, StoredId(org))}
            IN  \E keep \in IF ours = {} THEN {None} ELSE ours :
                    task' = [task EXCEPT !.org = org, !.keep = keep, !.duplicates = ours \ {keep}]
    BY <1>2 DEF ListWebhooks
  <2>2. ~ Idle /\ {w \in webhooks : w.org = org /\ IsOurs(w, StoredId(org))} = OursOf(org)
    BY <1>2, OursAreRecognized DEF ListWebhooks
  <2>3. PICK keep \in IF OursOf(org) = {} THEN {None} ELSE OursOf(org) :
            task' = [task EXCEPT !.org = org, !.keep = keep, !.duplicates = OursOf(org) \ {keep}]
    BY <2>1, <2>2
  <2>4. /\ task'.org = org /\ task'.keep = keep /\ task'.duplicates = OursOf(org) \ {keep}
        /\ task'.todo = task.todo /\ task'.all = task.all /\ task'.url = task.url
        /\ task'.registered = task.registered /\ task'.status = task.status
    BY <2>3 DEF TypeOK, Tasks
  <2>5. OursOf(org) = task'.duplicates \cup ({keep} \ {None})
    <3>1. None \notin OursOf(org)
      BY NothingIsNone DEF OursOf, Ours, TypeOK
    <3> QED BY <2>3, <2>4, <3>1
  <2>6. /\ OneEach /\ ~ pushActive' /\ loaded' /\ disturbed' = disturbed
        /\ \A o : OursOf(o)' = OursOf(o)
    BY <1>2, <2>2 DEF ListWebhooks, WebhookInvariant, OursOf, Ours
  <2>7. \A o \in task'.all \ (task'.todo \cup disturbed') :
            (OursOf(o) = Registered(task.registered[o], o))'
    BY <2>4, <2>6 DEF OneEach, Registered
  <2>8. (OursOf(task.org) = task.duplicates \cup ({task.keep} \ {None}))'
    BY <2>4, <2>5, <2>6
  <2>9. org # None /\ \A w \in OursOf(org) : w.org = org
    BY NothingIsNone, TaskFields DEF OursOf
  <2>10. OneEach'
    <3>1. \A w \in task'.duplicates \cup ({task'.keep} \ {None}) : w.org = task'.org
      BY <2>4, <2>5, <2>9
    <3> QED BY <2>4, <2>6, <2>7, <2>8, <2>9, <3>1 DEF OneEach
  <2> QED BY <2>6, <2>10, <1>ids DEF WebhookInvariant
<1>3. CASE DeleteDuplicate
  <2>1. PICK request \in Asked :
            /\ request.do = "delete" /\ CarriesOut(request)
            /\ task' = [task EXCEPT !.duplicates = task.duplicates \ {request.webhook}]
            /\ UNCHANGED <<home, entry, lateness>>
    BY <1>3 DEF DeleteDuplicate
  <2>2. /\ task'.keep = task.keep /\ task'.duplicates = task.duplicates \ {request.webhook}
        /\ task'.url = task.url /\ task'.registered = task.registered /\ task'.org = task.org
        /\ task'.todo = task.todo /\ task'.all = task.all /\ task'.status = task.status
    BY <2>1 DEF TypeOK, Tasks
  <2>3. OneEach /\ TaskHasOurs /\ ~ pushActive' /\ loaded' /\ disturbed' = disturbed
    BY <2>1, AskedIs DEF WebhookInvariant, TaskInvariant
  <2>4. /\ request \in Request /\ request.webhook \in task.duplicates
        /\ request.webhook # task.keep
    BY <2>1, <2>3, AskedIs DEF TaskHasOurs
  <2>5. task.org # None
    BY <2>3, <2>4 DEF OneEach
  <2>6. ASSUME NEW o \in task'.all \ (task'.todo \cup disturbed')
        PROVE  (OursOf(o) = Registered(task.registered[o], o))'
    <3>1. o # request.webhook.org
      BY <2>2, <2>3, <2>4
      DEF OneEach
    <3> QED BY <2>1, <2>2, <2>3, <2>4, <3>1, CarriesOutOf DEF OneEach, Registered
  <2>7. ASSUME task.org \notin disturbed
        PROVE  (OursOf(task.org) = task.duplicates \cup ({task.keep} \ {None}))'
    <3>1. OursOf(task.org) = task.duplicates \cup ({task.keep} \ {None})
      BY <2>3, <2>5, <2>7 DEF OneEach
    <3>2. webhooks' = {w \in webhooks : ~ Same(w, request.webhook)}
      BY <2>1, <2>4 DEF CarriesOut
    <3>3. request.webhook \in webhooks
      BY <2>4, <3>1 DEF OursOf, Ours
    <3>4. webhooks' = webhooks \ {request.webhook}
      BY <3>2, <3>3 DEF WebhookInvariant, IdsDiffer, Same
    <3>5. PICK org : org = task.org
      OBVIOUS
    <3>6. OursOf(org)' = OursOf(org) \ {request.webhook}
      BY <3>4, OursOfIs
    <3> QED BY <2>2, <2>4, <3>1, <3>5, <3>6
  <2>8. OneEach'
    BY <2>2, <2>3, <2>5, <2>6, <2>7 DEF OneEach
  <2> QED BY <2>2, <2>3, <2>8, <1>ids DEF WebhookInvariant
<1>4. CASE UpdateWebhook
  <2>1. PICK request \in Asked :
            /\ request.do = "update" /\ CarriesOut(request) /\ Register(request.webhook.id)
            /\ UNCHANGED <<home, entry, lateness>>
    BY <1>4 DEF UpdateWebhook
  <2>2. /\ request \in Request /\ task.duplicates = {} /\ task.keep \in Webhook /\ ~ Idle
        /\ request.webhook = [task.keep EXCEPT !.url = task.url]
        /\ task.keep # None /\ task.org # None /\ task.url # OtherUrl
    BY <2>1, AskedIs, NothingIsNone
  <2>3. PICK id, org : id = task.keep.id /\ org = task.org
    OBVIOUS
  <2>4. OneEach /\ task.keep.org = org
    BY <2>2, <2>3 DEF WebhookInvariant, OneEach
  <2>5. request.webhook = [id |-> id, org |-> org, url |-> task.url] /\ id \in -1 .. MaxWebhooks
    BY <2>2, <2>3, <2>4 DEF Webhook
  <2>6. ASSUME org \notin disturbed
        PROVE  OursOf(org)' = {[id |-> id, org |-> org, url |-> task.url]}
    <3>1. OursOf(org) = {task.keep}
      BY <2>2, <2>3, <2>4, <2>6 DEF OneEach
    <3>2. /\ webhooks' = {w \in webhooks : ~ Same(w, request.webhook)} \cup {request.webhook}
          /\ Same(task.keep, request.webhook)
      BY <2>1, <2>3, <2>4, <2>5 DEF CarriesOut, Same
    <3>3. \A w \in webhooks : w.url # OtherUrl /\ w.org = org => w = task.keep
      BY <3>1, OursOfIs
    <3>4. \A w \in OursOf(org)' : w = request.webhook
      BY <3>2, <3>3, OursOfIs
    <3>5. request.webhook \in OursOf(org)'
      BY <2>2, <2>5, <3>2, OursOfIs
    <3> QED BY <2>5, <3>4, <3>5
  <2>7. \A o : o # org => OursOf(o)' = OursOf(o)
    BY <2>1, <2>2, <2>5, CarriesOutOf
  <2>8. Register(id) /\ UNCHANGED <<loaded, pushActive, disturbed>>
    BY <2>1, <2>5
  <2> QED BY <2>2, <2>3, <2>5, <2>6, <2>7, <2>8, <1>ids, RegistersOne
<1>5. CASE CreateWebhook
  <2>1. PICK request \in Asked :
            /\ request.do = "create" /\ CarriesOut(request) /\ Register(created')
            /\ UNCHANGED <<home, entry, lateness>>
    BY <1>5 DEF CreateWebhook
  <2>2. /\ request \in Request /\ task.duplicates = {} /\ task.keep = None /\ ~ Idle
        /\ request.webhook = [id |-> ToCreate, org |-> task.org, url |-> task.url]
        /\ task.org # None /\ task.url # OtherUrl
    BY <2>1, AskedIs, NothingIsNone
  <2>3. PICK org, id : org = task.org /\ id = created'
    OBVIOUS
  <2>4. OneEach /\ id \in -1 .. MaxWebhooks
    <3>1. created' \in 0 .. MaxWebhooks
      BY <2>1, <2>2, CarriesOutIs
    <3> QED BY <2>2, <2>3, <3>1, NothingIsNone DEF WebhookInvariant
  <2>5. webhooks' = webhooks \cup {[id |-> id, org |-> org, url |-> task.url]}
    <3>1. webhooks' = webhooks \cup {[request.webhook EXCEPT !.id = created']}
      BY <2>1 DEF CarriesOut
    <3>2. [request.webhook EXCEPT !.id = created'] = [id |-> id, org |-> org, url |-> task.url]
      BY <2>2, <2>3
    <3> QED BY <3>1, <3>2
  <2>6. ASSUME org \notin disturbed
        PROVE  OursOf(org)' = {[id |-> id, org |-> org, url |-> task.url]}
    <3>1. OursOf(org) = {}
      BY <2>2, <2>3, <2>4, <2>6 DEF OneEach
    <3> QED BY <2>2, <2>5, <3>1, OursOfIs
  <2>7. \A o : o # org => OursOf(o)' = OursOf(o)
    BY <2>1, <2>2, <2>3, CarriesOutOf
  <2>8. Register(id) /\ UNCHANGED <<loaded, pushActive, disturbed>>
    BY <2>1, <2>3
  <2> QED BY <2>2, <2>3, <2>4, <2>6, <2>7, <2>8, <1>ids, RegistersOne
<1>6. CASE Finish
  <2>1. /\ OneEach /\ task.todo = {} /\ stored' = task.registered /\ webhooks' = webhooks
        /\ Idle' /\ task'.todo = {} /\ task'.all = task.all /\ task'.url = task.url
        /\ loaded' = loaded /\ disturbed' = disturbed
    BY <1>0, <1>6 DEF Finish, WebhookInvariant, TypeOK, Tasks, Idle
  <2>2. loaded
    BY <1>6 DEF Finish, WebhookInvariant
  <2>3. ASSUME NEW org \in task'.all \ disturbed'
        PROVE  (org \in DOMAIN stored /\ OursOf(org) = Registered(stored[org], org))'
    <3>1. org \in task.all \ (task.todo \cup disturbed)
      BY <2>1, <2>3
    <3>2. OursOf(org) = Registered(task.registered[org], org) /\ OursOf(org)' = OursOf(org)
      BY <2>1, <3>1 DEF OneEach, OursOf, Ours
    <3>3. org \in DOMAIN stored'
      BY <2>1, <3>1 DEF OneEach
    <3> QED BY <2>1, <3>2, <3>3 DEF Registered
  <2> QED BY <2>1, <2>2, <2>3, <1>ids DEF WebhookInvariant
<1>7. CASE Fails \/ Unload \/ Remove
  <2>1. Idle'
    BY <1>7, GivesUpIs DEF Fails, Unload, Remove, Unloaded
  <2>2. ~ pushActive'
    BY <1>7 DEF Fails, Unload, Remove, Unloaded, WebhookInvariant
  <2> QED BY <2>1, <2>2, <1>ids DEF WebhookInvariant
<1>8. CASE UNCHANGED <<webhooks, loaded, stored, pushActive, task, disturbed>>
  <2>1. /\ \A org : OursOf(org)' = OursOf(org)
        /\ \A id, org : Registered(id, org)' = Registered(id, org)
    BY <1>8 DEF OursOf, Ours, Registered
  <2> QED BY <1>8, <2>1, <1>ids DEF WebhookInvariant, OneEach, Idle, Registered
<1> QED BY <1>1, <1>2, <1>3, <1>4, <1>5, <1>6, <1>7, <1>8, <1>ids, LateDisturbs
        DEF Next, UrlChanges, DevicesChange, Ended, vars

\* Where no cloudhook comes or goes, push is active only with one webhook of
\* ours for every organization: at the URL it was registered with, the one
\* whose ID is stored, however many registrations failed or were cancelled
\* before, and whenever Bold carried out the requests they had given up - of
\* the organizations that none of those changed after they had been listed.
\* (_async_register_with_bold finds ours by their path, keeps one and
\* deletes the others before it stores anything.)
THEOREM AlwaysOneWebhookEach ==
    ASSUME "cloud" \notin Environment
    PROVE  Spec => []OneWebhookEach
<1>1. WebhookInvariant => OneWebhookEach
  BY DEF WebhookInvariant, OneWebhookEach, OursOf, Registered, StoredId
<1>2. TypeOK /\ UrlsStay => Recognized
  <2>1. SUFFICES ASSUME TypeOK, UrlsStay, ~ Idle, NEW w \in Ours
                 PROVE  w.url \in HomeUrls \cup {task.url}
    BY DEF Recognized
  <2>2. w.url \in HomeUrls \cup {url}
    BY <2>1 DEF UrlsStay
  <2>3. w.url \in HomeUrls \cup CloudUrls
    BY <2>1 DEF Ours, TypeOK, Webhook, Urls
  <2> QED BY <2>1, <2>2, <2>3 DEF UrlsStay
<1>3. TypeOK /\ TaskInvariant /\ UrlsStay /\ [Next]_vars => UrlsStay'
  BY NextUrls
<1> QED BY <1>1, <1>2, <1>3, TaskInvariantHolds, InitUrls, InitWebhooks, NextWebhooks, PTL
        DEF Spec
=============================================================================
