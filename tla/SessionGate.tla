----------------------------- MODULE SessionGate -----------------------------
(***************************************************************************)
(* How a tab gets into the application: the setup gate (RequireSetup), the *)
(* setup wizard (SetupPage), the sign-in page (LoginPage), the re-login    *)
(* prompt (App's latch and SessionExpiredDialog) and the sign-out.         *)
(*                                                                         *)
(* They meet in one query, setup-status, whose data and error outlive the  *)
(* screens: a failed refetch keeps the data and shows the error until the  *)
(* next one succeeds.  Redirects are made by rendering, so every step that *)
(* changes the screen or the query ends on the screen Route says.          *)
(***************************************************************************)
EXTENDS Integers

CONSTANTS
  MaxExpiries,  \* bound: how often the session is lost
  MaxDenied     \* bound: refused requests whose answers are under way

ASSUME GateAssumption == MaxExpiries \in Nat /\ MaxDenied \in Nat

VARIABLES
  \* the server, and the browser's cookie
  ready,      \* the database engine is ready
  done,       \* app.setup_completed
  auth,       \* requests need a session
  cookie,     \* the session cookie is good
  expiries,   \* how often it was lost
  \* the tab
  screen,     \* the route: "app", "login" or "setup"
  next,       \* where the sign-in returns to
  latch,      \* App's sessionExpired
  denied,     \* refused requests of the pages, not yet handled
  signIn,     \* the login mutation: "idle", "sent", "granted"
  authSeen,   \* the auth-status query: "none", "off" or "on"
  \* the setup-status query
  status,     \* its data, "none" at first
  failed,     \* its error: "no", "denied" or "other"
  req,        \* its request: "idle", "asked", "again", "denied", or the data in the answer
  \* the wizard
  step,       \* wizardStep
  secure,     \* the Security step: "empty", "weak", "strong" or "noauth"
  wantSync,   \* an initial sync is asked for
  busy        \* wizardBusy, and which await the handler is in

server == <<ready, done, auth, cookie, expiries>>
tab == <<screen, next, latch, denied, signIn, authSeen>>
query == <<status, failed, req>>
form == <<step, secure, wantSync>>
wizard == <<form, busy>>
vars == <<server, tab, query, wizard>>

\* What setup-status says: no database, a database, or a completed setup.
Answers == {"nodb", "ready", "done"}
Status == IF done THEN "done" ELSE IF ready THEN "ready" ELSE "nodb"
LastStep == 6
SecurityStep == 4

TypeOK ==
  /\ ready \in BOOLEAN /\ done \in BOOLEAN /\ auth \in BOOLEAN /\ cookie \in BOOLEAN
  /\ expiries \in 0 .. MaxExpiries
  /\ screen \in {"app", "login", "setup"} /\ next \in {"app", "setup"}
  /\ latch \in BOOLEAN /\ denied \in 0 .. MaxDenied
  /\ signIn \in {"idle", "sent", "granted"}
  /\ authSeen \in {"none", "off", "on"}
  /\ status \in Answers \cup {"none"}
  /\ failed \in {"no", "denied", "other"}
  /\ req \in {"idle", "asked", "again", "denied"} \cup Answers
  /\ step \in 0 .. LastStep
  /\ secure \in {"empty", "weak", "strong", "noauth"}
  /\ wantSync \in BOOLEAN
  /\ busy \in {"no", "postgres", "wizard", "login", "sync", "skip", "stay", "home"}

\* A cold load: of a new installation, with or without a database, of one that
\* is set up, or of one with sign-in.
Init ==
  /\ ready \in BOOLEAN /\ done \in {FALSE, ready} /\ auth \in {FALSE, done}
  /\ cookie = FALSE /\ expiries = 0
  /\ screen = "app" /\ next = "app" /\ latch = FALSE /\ denied = 0
  /\ signIn = "idle" /\ authSeen = "none"
  /\ status = "none" /\ failed = "no" /\ req = "asked"
  /\ step = 0 /\ secure = "empty" /\ wantSync = FALSE /\ busy = "no"
------------------------------------------------------------------------------
Allowed == cookie \/ ~auth

\* What is rendered on the way to screen "to" with the query at data s, error f.
Route(to, s, f) ==
  IF to = "setup" THEN IF s = "done" THEN "app" ELSE "setup"
  ELSE IF to = "login" THEN "login"
  ELSE IF f = "denied" THEN "login"
  ELSE IF f = "no" /\ s \in {"nodb", "ready"} THEN "setup"
  ELSE "app"

Show(to, s, f) == screen' = Route(to, s, f)

\* The wizard is a fresh form when its screen is entered, unless a handler of the
\* one before is still at work, and goes to its first step when the data says
\* that there is no database.
Wizard(s) ==
  IF screen' = "setup" /\ screen # "setup" /\ busy = "no"
  THEN step' = 0 /\ secure' = "empty" /\ wantSync' = FALSE
  ELSE /\ step' = IF screen' = "setup" /\ s = "nodb" THEN 0 ELSE step
       /\ UNCHANGED <<secure, wantSync>>

\* A request for setup-status.  An error is forgotten only if there is no data.
\* A request in flight is kept by a screen that is entered, and replaced by an
\* invalidation unless it is the first load.
Fetching(f) == IF status = "none" THEN "no" ELSE f
Asked(replace) == IF req = "idle" \/ (replace /\ status # "none") THEN "asked" ELSE req

EnterUnfetched(to, fresh) ==
  /\ Show(to, status, failed)
  /\ Wizard(status)
  /\ UNCHANGED query

\* The tab enters a screen: the wizard always fetches, the app's gate unless its
\* data may be younger than the staleTime.
Enter(to, fresh) ==
  LET f == IF to = "login" THEN failed ELSE Fetching(failed) IN
  /\ Show(to, status, f)
  /\ failed' = f
  /\ \/ req' = IF to = "login" THEN req ELSE Asked(FALSE)
     \/ fresh /\ status # "none" /\ screen' # "setup" /\ req' = req
  /\ UNCHANGED status
  /\ Wizard(status)

\* AppLayout's refresh button, the notice's retry, and the browser's "online".
Refetch ==
  /\ screen \in {"app", "setup"}
  /\ req' = Asked(TRUE) /\ failed' = Fetching(failed)
  /\ UNCHANGED <<server, tab, status, wizard>>

\* GET /api/setup/status.
StatusAnswered ==
  /\ (req = "asked" /\ Allowed) \/ req = "again"
  /\ req' = IF Allowed THEN Status ELSE "denied"
  /\ UNCHANGED <<server, tab, status, failed, wizard>>

\* The first refusal raises the prompt, redirectToLogin, and is retried once.
StatusRetried ==
  /\ req = "asked" /\ ~Allowed
  /\ req' = "again"
  /\ latch' = (latch \/ screen # "login")
  /\ UNCHANGED <<server, screen, next, denied, signIn, authSeen, status, failed, wizard>>

\* The query takes the answer, after which whoever shows it renders again.  A
\* second refusal raises the prompt again.
StatusLands ==
  /\ req \in Answers \cup {"denied"}
  /\ req' = "idle"
  /\ status' = IF req = "denied" THEN status ELSE req
  /\ failed' = IF req = "denied" THEN "denied" ELSE "no"
  /\ Show(screen, status', failed')
  /\ latch' = (screen' # "login" /\ (latch \/ req = "denied"))
  /\ next' = IF screen' = "login" /\ screen # "login" THEN "app" ELSE next
  /\ Wizard(status')
  /\ UNCHANGED <<server, denied, signIn, authSeen, busy>>

StatusFails ==
  /\ req # "idle"
  /\ req' = "idle" /\ failed' = "other"
  /\ UNCHANGED <<server, tab, status, wizard>>
------------------------------------------------------------------------------
Inside == screen = "app" /\ failed = "no" /\ status = "done"

\* A request of the pages, a poll or a click, is refused.
RequestDenied ==
  /\ Inside /\ ~Allowed /\ denied < MaxDenied
  /\ denied' = denied + 1
  /\ UNCHANGED <<server, screen, next, latch, signIn, authSeen, query, wizard>>

\* requestJson handles the refusal: redirectToLogin, but not on the login page.
DenialHandled ==
  /\ denied > 0 /\ denied' = denied - 1
  /\ latch' = (latch \/ screen # "login")
  /\ UNCHANGED <<server, screen, next, signIn, authSeen, query, wizard>>

\* AppLayout and the pages learn whether sign-in is on.
AuthStatusLands ==
  /\ screen \in {"app", "login"}
  /\ authSeen' = IF auth THEN "on" ELSE "off"
  /\ UNCHANGED <<server, screen, next, latch, denied, signIn, query, wizard>>

\* The prompt's only button.  Arriving at the login page clears the latch.
GoToLogin ==
  /\ latch /\ screen # "login"
  /\ next' = screen /\ latch' = FALSE
  /\ Enter("login", FALSE)
  /\ UNCHANGED <<server, denied, signIn, authSeen, busy>>

\* LoginPage with a cached "sign-in is off" sends the tab home.
NothingToSignInto ==
  /\ screen = "login" /\ authSeen = "off"
  /\ Enter("app", TRUE)
  /\ UNCHANGED <<server, next, latch, denied, signIn, authSeen, busy>>

Submit ==
  /\ screen = "login" /\ signIn = "idle"
  /\ signIn' = "sent"
  /\ UNCHANGED <<server, screen, next, latch, denied, authSeen, query, wizard>>

LoginGranted ==
  /\ signIn = "sent" /\ signIn' = "granted"
  /\ cookie' = TRUE
  /\ UNCHANGED <<ready, done, auth, expiries, screen, next, latch, denied, authSeen,
                 query, wizard>>

\* A wrong password, too many tries, or no answer.
LoginRefused ==
  /\ signIn = "sent" /\ signIn' = "idle"
  /\ UNCHANGED <<server, screen, next, latch, denied, authSeen, query, wizard>>

\* onSuccess: every query is invalidated, those on the screen are fetched, and
\* the tab goes where it came from.
SignedIn ==
  /\ signIn = "granted" /\ signIn' = "idle"
  /\ Enter(next, FALSE)
  /\ next' = "app"
  /\ authSeen' = IF auth THEN "on" ELSE "off"
  /\ latch' = (latch /\ screen' # "login")
  /\ UNCHANGED <<server, denied, busy>>

\* onLogout: the cache is emptied whatever the server says.
SignOut ==
  /\ Inside /\ auth /\ authSeen = "on"
  /\ cookie' \in {FALSE, cookie}
  /\ status' = "none" /\ failed' = "no" /\ req' = "idle"
  /\ authSeen' = "none" /\ screen' = "login" /\ latch' = FALSE /\ next' = "app"
  /\ UNCHANGED <<ready, done, auth, expiries, denied, signIn, wizard>>

\* The session runs out, or another tab signs out.
Expire ==
  /\ cookie /\ expiries < MaxExpiries
  /\ cookie' = FALSE /\ expiries' = expiries + 1
  /\ UNCHANGED <<ready, done, auth, tab, query, wizard>>
------------------------------------------------------------------------------
(* SetupPage.                                                              *)
OnStep(s) == screen = "setup" /\ busy = "no" /\ step = s /\ ~latch
EngineReady == status \in {"ready", "done"}

MayGoOnUnsecured == EngineReady

\* databaseStepBlocksNext, databaseBlocksNonDbSteps and securityStepBlocksNext.
MayGoOn ==
  /\ EngineReady
  /\ step = SecurityStep => secure \in {"strong", "noauth"}

NextStep ==
  /\ \E s \in 0 .. LastStep - 1 : OnStep(s)
  /\ MayGoOn
  /\ step' = step + 1
  /\ UNCHANGED <<server, tab, query, secure, wantSync, busy>>

Back ==
  /\ \E s \in 1 .. LastStep : OnStep(s)
  /\ step' = step - 1
  /\ UNCHANGED <<server, tab, query, secure, wantSync, busy>>

ChooseSecurity ==
  /\ OnStep(SecurityStep)
  /\ secure' \in {"empty", "weak", "strong", "noauth"}
  /\ UNCHANGED <<server, tab, query, step, wantSync, busy>>

ChooseSync ==
  /\ OnStep(5)
  /\ wantSync' = ~wantSync
  /\ UNCHANGED <<server, tab, query, step, secure, busy>>

\* The three buttons that send something.
Begin(stage) ==
  /\ busy' = stage
  /\ UNCHANGED <<server, tab, query, step, secure, wantSync>>

InitializePostgres == OnStep(0) /\ ~EngineReady /\ Begin("postgres")
CompleteSetup == OnStep(LastStep) /\ EngineReady /\ Begin("wizard")
SkipSetup == (\E s \in 0 .. LastStep : OnStep(s)) /\ EngineReady /\ Begin("skip")

\* The handler goes on to await stage, also when its screen is gone; "stay" and
\* "home" await the refetch of the query, if anyone shows it.
Awaits(stage) ==
  /\ busy' = stage
  /\ IF stage \in {"stay", "home"} /\ screen # "login"
     THEN req' = Asked(TRUE) /\ failed' = Fetching(failed)
     ELSE UNCHANGED <<req, failed>>
  /\ UNCHANGED <<status, form>>

AfterSignIn == IF wantSync THEN "sync" ELSE "home"

PostgresReady ==
  /\ busy = "postgres" /\ Awaits("stay")
  /\ ready' = TRUE
  /\ UNCHANGED <<done, auth, cookie, expiries, tab>>

\* POST /api/setup/wizard stores the password and completes the setup.
WizardStored ==
  /\ busy = "wizard" /\ Allowed /\ ready
  /\ done' = TRUE
  /\ auth' = (auth \/ secure \in {"weak", "strong"})
  /\ Awaits(IF secure \in {"weak", "strong"} THEN "login" ELSE AfterSignIn)
  /\ UNCHANGED <<ready, cookie, expiries, tab>>

\* Signed in with the password just set, so that the redirect lands in the app.
WizardSignedIn ==
  /\ busy = "login" /\ Awaits(AfterSignIn)
  /\ cookie' = TRUE
  /\ UNCHANGED <<ready, done, auth, expiries, tab>>

SyncQueued ==
  /\ busy = "sync" /\ Allowed /\ Awaits("home")
  /\ UNCHANGED <<server, tab>>

SkipStored ==
  /\ busy = "skip" /\ Allowed /\ ready /\ Awaits("home")
  /\ done' = TRUE
  /\ UNCHANGED <<ready, auth, cookie, expiries, tab>>

\* Any of the calls fails: the error is shown and the button is free again.  A
\* refusal raises the prompt.
WizardFails ==
  /\ busy \in {"postgres", "wizard", "login", "sync", "skip"}
  /\ busy' = "no"
  /\ latch' = (latch \/ (~Allowed /\ busy # "login"))
  /\ UNCHANGED <<server, screen, next, denied, signIn, authSeen, query, step, secure, wantSync>>

\* The refetch has settled, well or not.
WizardDone ==
  /\ busy \in {"stay", "home"} /\ (req = "idle" \/ screen = "login")
  /\ busy' = "no"
  /\ IF busy = "home" THEN Enter("app", TRUE) ELSE UNCHANGED <<screen, query, form>>
  /\ latch' = (latch /\ screen' # "login")
  /\ UNCHANGED <<server, next, denied, signIn, authSeen>>
------------------------------------------------------------------------------
GateNext ==
  \/ Refetch \/ StatusAnswered \/ StatusRetried \/ StatusLands \/ StatusFails
  \/ RequestDenied \/ DenialHandled \/ AuthStatusLands
  \/ GoToLogin \/ NothingToSignInto \/ Submit \/ LoginGranted \/ LoginRefused \/ SignedIn
  \/ SignOut \/ Expire

WizardNext ==
  \/ NextStep \/ Back \/ ChooseSecurity \/ ChooseSync
  \/ InitializePostgres \/ CompleteSetup \/ SkipSetup
  \/ PostgresReady \/ WizardStored \/ WizardSignedIn \/ SyncQueued \/ SkipStored
  \/ WizardFails \/ WizardDone

Next == GateNext \/ WizardNext

\* Answers come and are rendered, intervals of the app ask again, and someone
\* at the login page signs in, with the right password some time.  Who sees the
\* prompt follows it.
Spec ==
  /\ Init /\ [][Next]_vars
  /\ WF_vars(StatusAnswered \/ StatusRetried) /\ SF_vars(StatusLands)
  /\ WF_vars(AuthStatusLands)
  /\ WF_vars(GoToLogin) /\ WF_vars(Submit) /\ WF_vars(SignedIn) /\ SF_vars(LoginGranted)
------------------------------------------------------------------------------
(* The wizard never posts a form without a choice about the password, also *)
(* when the user has gone back to the Security step or the form was made   *)
(* anew in between.  (SetupPage: securityStepBlocksNext.)                  *)
SubmitsOnlySecured ==
  [][busy' = "wizard" /\ busy = "no" => secure \in {"strong", "noauth"}]_vars

(* Whoever keeps signing in gets off the login page and into the           *)
(* application, whatever the query remembers of refusals; or into a wizard *)
(* the tab holds to be unfinished, or the status cannot be fetched.        *)
(* (LoginPage, RequireSetup.)                                              *)
SignInGetsInside ==
  screen = "login" /\ done ~> Inside \/ screen = "setup" \/ failed = "other"

==============================================================================
