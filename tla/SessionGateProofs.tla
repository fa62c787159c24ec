--------------------------- MODULE SessionGateProofs ---------------------------
(***************************************************************************)
(* What the wizard sends and what the tab keeps, for any number of lost    *)
(* sessions and refusals: the wizard's steps and its security choice are   *)
(* made anew together, whatever screens come between them; and the gate    *)
(* shows the pages to no tab that should not see them.                     *)
(***************************************************************************)
EXTENDS SessionGate, TLAPS

\* Beyond the Security step there is a choice about the password.
SecuredInv ==
  /\ step \in 0 .. LastStep
  /\ step > SecurityStep => secure \in {"strong", "noauth"}

\* A step of the gate leaves the wizard alone, or renders it (Wizard).
LEMMA WizardKeeps ==
  ASSUME SecuredInv, NEW s, Wizard(s)
  PROVE  SecuredInv'
BY DEF SecuredInv, Wizard, LastStep, SecurityStep

LEMMA SecuredStutters == SecuredInv /\ UNCHANGED <<step, secure>> => SecuredInv'
BY DEF SecuredInv

LEMMA GateKeepsSecured ==
  ASSUME SecuredInv, GateNext
  PROVE  SecuredInv' /\ busy' = busy
<1>1. CASE Refetch \/ StatusAnswered \/ StatusRetried \/ StatusFails \/ RequestDenied
           \/ DenialHandled \/ AuthStatusLands \/ Submit \/ LoginGranted \/ LoginRefused
           \/ SignOut \/ Expire
  BY <1>1, SecuredStutters
     DEF Refetch, StatusAnswered, StatusRetried, StatusFails, RequestDenied, DenialHandled,
         AuthStatusLands, Submit, LoginGranted, LoginRefused, SignOut, Expire, wizard, form
<1>2. CASE StatusLands BY <1>2, WizardKeeps DEF StatusLands
<1>3. CASE GoToLogin \/ NothingToSignInto \/ SignedIn
  BY <1>3, WizardKeeps DEF GoToLogin, NothingToSignInto, SignedIn, Enter
<1> QED BY <1>1, <1>2, <1>3 DEF GateNext

LEMMA WizardKeepsSecured ==
  ASSUME SecuredInv, WizardNext
  PROVE  /\ SecuredInv'
         /\ busy = "no" /\ busy' = "wizard" => secure \in {"strong", "noauth"}
<1> DEFINE Good == /\ SecuredInv'
                   /\ busy = "no" /\ busy' = "wizard" => secure \in {"strong", "noauth"}
<1>1. CASE NextStep
  BY <1>1 DEF NextStep, MayGoOn, OnStep, SecuredInv, LastStep, SecurityStep
<1>2. CASE Back BY <1>2 DEF Back, OnStep, SecuredInv, LastStep, SecurityStep
<1>3. CASE ChooseSecurity
  BY <1>3 DEF ChooseSecurity, OnStep, SecuredInv, LastStep, SecurityStep
<1>4. CASE ChooseSync BY <1>4, SecuredStutters DEF ChooseSync
<1>5. CASE InitializePostgres \/ SkipSetup
  BY <1>5, SecuredStutters DEF InitializePostgres, SkipSetup, Begin
<1>6. CASE CompleteSetup
  BY <1>6, SecuredStutters
     DEF CompleteSetup, Begin, OnStep, SecuredInv, LastStep, SecurityStep
<1>7. CASE PostgresReady \/ WizardStored \/ WizardSignedIn \/ SyncQueued \/ SkipStored
  BY <1>7, SecuredStutters
     DEF PostgresReady, WizardStored, WizardSignedIn, SyncQueued, SkipStored, Awaits, form,
         AfterSignIn
<1>8. CASE WizardFails BY <1>8, SecuredStutters DEF WizardFails
<1>9. CASE WizardDone
  <2>1. busy' = "no" BY <1>9 DEF WizardDone
  <2>2. CASE busy = "home" BY <1>9, <2>1, <2>2, WizardKeeps DEF WizardDone, Enter
  <2>3. CASE busy # "home" BY <1>9, <2>1, <2>3, SecuredStutters DEF WizardDone, form
  <2> QED BY <2>2, <2>3
<1> QED BY <1>1, <1>2, <1>3, <1>4, <1>5, <1>6, <1>7, <1>8, <1>9 DEF WizardNext

\* The form is posted only with a choice about the password (SetupPage:
\* securityStepBlocksNext), through every reset of the wizard.
THEOREM OnlySecuredIsSubmitted == Spec => SubmitsOnlySecured
<1>1. Init => SecuredInv BY DEF Init, SecuredInv, LastStep, SecurityStep
<1>2. SecuredInv /\ [Next]_vars => SecuredInv'
  BY GateKeepsSecured, WizardKeepsSecured, SecuredStutters DEF Next, vars, wizard, form
<1>3. SecuredInv /\ [Next]_vars =>
        [busy' = "wizard" /\ busy = "no" => secure \in {"strong", "noauth"}]_vars
  BY GateKeepsSecured, WizardKeepsSecured DEF Next
<1> QED BY <1>1, <1>2, <1>3, PTL DEF Spec, SubmitsOnlySecured

-----------------------------------------------------------------------------
(* Types.                                                                  *)

Screens == {"app", "login", "setup"}
ScreenTyped == screen \in Screens /\ status \in Answers \cup {"none"} /\ failed \in {"no", "denied", "other"}
RequestStates == {"idle", "asked", "again", "denied"} \cup Answers

LEMMA RouteTypes == \A to \in Screens : \A s, f : Route(to, s, f) \in Screens
BY DEF Route, Screens

LEMMA WizardTypes ==
  ASSUME TypeOK, NEW s, Wizard(s)
  PROVE  /\ step' \in 0 .. LastStep /\ secure' \in {"empty", "weak", "strong", "noauth"}
         /\ wantSync' \in BOOLEAN
<1>1. CASE screen' = "setup" /\ screen # "setup" /\ busy = "no"
  <2>1. step' = 0 /\ secure' = "empty" /\ wantSync' = FALSE BY <1>1 DEF Wizard
  <2>2. step' \in 0 .. LastStep BY <2>1 DEF LastStep
  <2>3. secure' \in {"empty", "weak", "strong", "noauth"} /\ wantSync' \in BOOLEAN BY <2>1
  <2> QED BY <2>2, <2>3
<1>2. CASE ~(screen' = "setup" /\ screen # "setup" /\ busy = "no")
  <2>1. step' \in {0, step} /\ secure' = secure /\ wantSync' = wantSync BY <1>2 DEF Wizard
  <2>2. 0 \in 0 .. LastStep BY DEF LastStep
  <2> QED BY <2>1, <2>2 DEF TypeOK
<1> QED BY <1>1, <1>2

LEMMA EnterTypes ==
  ASSUME TypeOK, NEW to \in Screens, NEW fresh, Enter(to, fresh)
  PROVE  /\ ScreenTyped' /\ req' \in RequestStates
         /\ step' \in 0 .. LastStep /\ secure' \in {"empty", "weak", "strong", "noauth"}
         /\ wantSync' \in BOOLEAN
<1>1. PICK f : Show(to, status, f) BY DEF Enter
<1>2. screen' \in Screens BY <1>1, RouteTypes DEF Show
<1>3. failed' \in {"no", "denied", "other"} /\ req' \in RequestStates
  BY DEF Enter, Fetching, Asked, TypeOK, RequestStates
<1>4. status' = status /\ Wizard(status) BY DEF Enter
<1> QED BY <1>2, <1>3, <1>4, WizardTypes DEF ScreenTyped, TypeOK

LEMMA GateStepTypes ==
  ASSUME TypeOK, GateNext
  PROVE  TypeOK'
<1> USE DEF TypeOK
<1>1. CASE Refetch
  BY <1>1 DEF Refetch, Asked, Fetching, server, tab, wizard, form
<1>2. CASE StatusAnswered \/ StatusRetried \/ StatusFails
  BY <1>2 DEF StatusAnswered, StatusRetried, StatusFails, Status, Answers, Allowed,
              server, tab, wizard, form
<1>3. CASE StatusLands
  <2>1. Wizard(status') BY <1>3 DEF StatusLands
  <2>2. screen' \in Screens BY <1>3, RouteTypes DEF StatusLands, Show, Screens
  <2> QED BY <1>3, <2>1, <2>2, WizardTypes DEF StatusLands, Screens, server
<1>4. CASE RequestDenied \/ DenialHandled
  <2>1. denied' \in 0 .. MaxDenied BY <1>4, GateAssumption DEF RequestDenied, DenialHandled
  <2>2. latch' \in BOOLEAN BY <1>4 DEF RequestDenied, DenialHandled
  <2>3. UNCHANGED <<server, screen, next, signIn, authSeen, query, wizard>>
    BY <1>4 DEF RequestDenied, DenialHandled
  <2> QED BY <2>1, <2>2, <2>3 DEF server, query, wizard, form
<1>5. CASE AuthStatusLands \/ Submit \/ LoginGranted \/ LoginRefused
  BY <1>5 DEF AuthStatusLands, Submit, LoginGranted, LoginRefused, server, query, wizard, form
<1>6. CASE GoToLogin
  <2>1. Enter("login", FALSE) /\ "login" \in Screens BY <1>6 DEF GoToLogin, Screens
  <2>2. ScreenTyped' /\ req' \in RequestStates /\ step' \in 0 .. LastStep
        /\ secure' \in {"empty", "weak", "strong", "noauth"} /\ wantSync' \in BOOLEAN
    BY <2>1, EnterTypes
  <2>3. UNCHANGED <<ready, done, auth, cookie, expiries, denied, signIn, authSeen, busy>>
    BY <1>6 DEF GoToLogin, server
  <2>4. latch' \in BOOLEAN /\ next' \in {"app", "setup"} BY <1>6 DEF GoToLogin
  <2> QED BY <2>2, <2>3, <2>4 DEF ScreenTyped, Screens, RequestStates
<1>7. CASE NothingToSignInto
  <2>1. Enter("app", TRUE) /\ "app" \in Screens BY <1>7 DEF NothingToSignInto, Screens
  <2>2. ScreenTyped' /\ req' \in RequestStates /\ step' \in 0 .. LastStep
        /\ secure' \in {"empty", "weak", "strong", "noauth"} /\ wantSync' \in BOOLEAN
    BY <2>1, EnterTypes
  <2>3. UNCHANGED <<ready, done, auth, cookie, expiries, next, latch, denied, signIn,
                    authSeen, busy>>
    BY <1>7 DEF NothingToSignInto, server
  <2> QED BY <2>2, <2>3 DEF ScreenTyped, Screens, RequestStates
<1>8. CASE SignedIn
  <2>1. Enter(next, FALSE) /\ next \in Screens BY <1>8 DEF SignedIn, Screens
  <2>2. ScreenTyped' /\ req' \in RequestStates /\ step' \in 0 .. LastStep
        /\ secure' \in {"empty", "weak", "strong", "noauth"} /\ wantSync' \in BOOLEAN
    BY <2>1, EnterTypes
  <2>3. UNCHANGED <<ready, done, auth, cookie, expiries, denied, busy>>
    BY <1>8 DEF SignedIn, server
  <2>4. /\ latch' \in BOOLEAN /\ next' = "app" /\ signIn' = "idle"
        /\ authSeen' \in {"none", "off", "on"}
    BY <1>8 DEF SignedIn
  <2> QED BY <2>2, <2>3, <2>4 DEF ScreenTyped, Screens, RequestStates
<1>9. CASE SignOut
  <2>1. UNCHANGED <<ready, done, auth, expiries, denied, signIn, step, secure, wantSync, busy>>
    BY <1>9 DEF SignOut, wizard, form
  <2>2. cookie' \in BOOLEAN BY <1>9 DEF SignOut
  <2>3. /\ status' = "none" /\ failed' = "no" /\ req' = "idle"
        /\ authSeen' = "none" /\ screen' = "login" /\ next' = "app"
    BY <1>9 DEF SignOut
  <2>4. latch' \in BOOLEAN BY <1>9 DEF SignOut
  <2> QED BY <2>1, <2>2, <2>3, <2>4
<1>10. CASE Expire
  <2>1. expiries' \in 0 .. MaxExpiries BY <1>10, GateAssumption DEF Expire
  <2>2. cookie' \in BOOLEAN BY <1>10 DEF Expire
  <2>3. UNCHANGED <<ready, done, auth, tab, query, wizard>> BY <1>10 DEF Expire
  <2> QED BY <2>1, <2>2, <2>3 DEF tab, query, wizard, form
<1> QED BY <1>1, <1>2, <1>3, <1>4, <1>5, <1>6, <1>7, <1>8, <1>9, <1>10 DEF GateNext

LEMMA AwaitsTypes ==
  ASSUME TypeOK, NEW stage, Awaits(stage)
  PROVE  busy' = stage /\ UNCHANGED <<status, form>> /\ req' \in RequestStates
         /\ failed' \in {"no", "denied", "other"}
BY DEF TypeOK, Awaits, Asked, Fetching, RequestStates

LEMMA SetupStepTypes ==
  ASSUME TypeOK, WizardNext
  PROVE  TypeOK'
<1> USE DEF TypeOK
<1>1. CASE NextStep BY <1>1 DEF NextStep, OnStep, LastStep, server, tab, query
<1>2. CASE Back BY <1>2 DEF Back, OnStep, LastStep, server, tab, query
<1>3. CASE ChooseSecurity \/ ChooseSync
  <2>1. UNCHANGED <<ready, done, auth, cookie, expiries, screen, next, latch, denied, signIn,
                    authSeen, status, failed, req, step, busy>>
    BY <1>3 DEF ChooseSecurity, ChooseSync, server, tab, query
  <2>2. secure' \in {"empty", "weak", "strong", "noauth"} /\ wantSync' \in BOOLEAN
    BY <1>3 DEF ChooseSecurity, ChooseSync
  <2> QED BY <2>1, <2>2
<1>4. CASE InitializePostgres \/ CompleteSetup \/ SkipSetup
  BY <1>4 DEF InitializePostgres, CompleteSetup, SkipSetup, Begin, server, tab, query
<1> DEFINE Stages == {"login", "sync", "home", "stay"}
<1>5. CASE PostgresReady \/ WizardStored \/ WizardSignedIn \/ SyncQueued \/ SkipStored
  <2>1. \E stage \in Stages : Awaits(stage)
    BY <1>5 DEF PostgresReady, WizardStored, WizardSignedIn, SyncQueued, SkipStored, AfterSignIn
  <2>2. /\ ready' \in BOOLEAN /\ done' \in BOOLEAN /\ auth' \in BOOLEAN /\ cookie' \in BOOLEAN
        /\ expiries' = expiries /\ UNCHANGED tab
    BY <1>5 DEF PostgresReady, WizardStored, WizardSignedIn, SyncQueued, SkipStored, server
  <2> QED BY <2>1, <2>2, AwaitsTypes DEF RequestStates, tab, form
<1>6. CASE WizardFails BY <1>6 DEF WizardFails, server, query
<1>7. CASE WizardDone
  <2>1. /\ ScreenTyped' /\ req' \in RequestStates /\ step' \in 0 .. LastStep
        /\ secure' \in {"empty", "weak", "strong", "noauth"} /\ wantSync' \in BOOLEAN
    <3>1. CASE busy = "home" BY <1>7, <3>1, EnterTypes DEF WizardDone, Screens
    <3>2. CASE busy # "home"
      BY <1>7, <3>2 DEF WizardDone, ScreenTyped, Screens, RequestStates, query, form
    <3> QED BY <3>1, <3>2
  <2> QED BY <1>7, <2>1 DEF WizardDone, ScreenTyped, Screens, RequestStates, server
<1> QED BY <1>1, <1>2, <1>3, <1>4, <1>5, <1>6, <1>7 DEF WizardNext

LEMMA InitTypes == Init => TypeOK
<1> SUFFICES ASSUME Init PROVE TypeOK OBVIOUS
<1>1. /\ ready \in BOOLEAN /\ done \in BOOLEAN /\ auth \in BOOLEAN /\ cookie \in BOOLEAN
      /\ latch \in BOOLEAN /\ wantSync \in BOOLEAN
  BY DEF Init
<1>2. expiries \in 0 .. MaxExpiries /\ denied \in 0 .. MaxDenied /\ step \in 0 .. LastStep
  BY GateAssumption DEF Init, LastStep
<1> QED BY <1>1, <1>2 DEF Init, TypeOK, Answers

LEMMA TypesStutter == TypeOK /\ UNCHANGED vars => TypeOK'
BY DEF TypeOK, vars, server, tab, query, wizard, form

\* What the tab, the setup-status query and the wizard keep stays of its type:
\* every redirect ends on a screen, and the wizard's step is one it has, whatever
\* comes and goes under its handlers (RequireSetup, SetupPage, LoginPage).
THEOREM GateTypes == Spec => []TypeOK
<1>1. TypeOK /\ [Next]_vars => TypeOK'
  BY TypesStutter, GateStepTypes, SetupStepTypes DEF Next
<1> QED BY <1>1, InitTypes, PTL DEF Spec

-----------------------------------------------------------------------------
(* The gate.                                                               *)

(* The pages are shown only on an installation whose setup the server has  *)
(* completed, a tab that knows this does not show the wizard, and one that *)
(* was refused shows no page: however the gate, the prompt, the sign-in,   *)
(* the sign-out and a handler of the wizard redirect, and whatever failed  *)
(* in between.  (RequireSetup, SetupPage.)                                 *)
GateStands ==
  /\ screen = "app" /\ failed = "no" => status = "none" \/ (status = "done" /\ done /\ ready)
  /\ screen = "setup" => status # "done"
  /\ failed = "denied" => screen # "app"

\* The screen is the one the gate would render; what the tab knows, or is being
\* told, of the setup is no more than the server has.
AtRest == screen = Route(screen, status, failed)
Known(s) == (s = "done" => done) /\ (s \in {"ready", "done"} => ready)

\* A sign-in that returns to a wizard whose setup has completed since finds no
\* refusal there, or the way back would end before the gate.
ReturnsUnrefused ==
  screen = "login" /\ next = "setup" /\ status = "done" => failed # "denied" /\ req = "idle"

\* The strengthening of GateStands that is inductive.
GateInv ==
  /\ TypeOK /\ AtRest /\ ReturnsUnrefused
  /\ done => ready
  /\ Known(status) /\ Known(req)

\* A redirect leads to where there is none, unless it leaves a completed wizard
\* with a refusal.
LEMMA RouteRests ==
  ASSUME NEW to \in Screens, NEW s, NEW f, ~(to = "setup" /\ s = "done" /\ f = "denied")
  PROVE  Route(to, s, f) = Route(Route(to, s, f), s, f)
<1>1. CASE to = "setup" BY <1>1 DEF Route
<1>2. CASE to = "login" BY <1>2 DEF Route
<1>3. CASE to = "app" BY <1>3 DEF Route
<1> QED BY <1>1, <1>2, <1>3 DEF Screens

\* Where the tab may be, by what it holds of the setup.
LEMMA RestMeans ==
  ASSUME AtRest
  PROVE  /\ screen = "app" => failed # "denied"
         /\ screen = "app" /\ failed = "no" => status \notin {"nodb", "ready"}
         /\ screen = "setup" => status # "done"
BY DEF AtRest, Route

LEMMA EnterKeepsQuery ==
  ASSUME NEW to, NEW fresh, Enter(to, fresh)
  PROVE  /\ screen' = Route(to, status, failed') /\ status' = status
         /\ failed' \in {failed, Fetching(failed)} /\ req' \in {req, "asked"}
<1>1. screen' = Route(to, status, failed') /\ status' = status BY DEF Enter, Show
<1>2. failed' \in {failed, Fetching(failed)} BY DEF Enter
<1>3. req' \in {req, "asked"} BY DEF Enter, Asked
<1> QED BY <1>1, <1>2, <1>3

LEMMA EnterRests ==
  ASSUME NEW to \in Screens, NEW fresh, Enter(to, fresh),
         to = "setup" /\ status = "done" => failed # "denied"
  PROVE  AtRest'
<1>1. /\ screen' = Route(to, status, failed') /\ status' = status
      /\ failed' \in {failed, Fetching(failed)}
  BY EnterKeepsQuery
<1>2. ~(to = "setup" /\ status = "done" /\ failed' = "denied") BY <1>1 DEF Fetching
<1>3. Route(to, status, failed') = Route(Route(to, status, failed'), status, failed')
  BY <1>2, RouteRests
<1> QED BY <1>1, <1>3 DEF AtRest

\* On the way to the pages a refusal leads to the sign-in, and it is not new.
LEMMA AppKeepsReturn ==
  ASSUME AtRest, ReturnsUnrefused, screen \in Screens, NEW fresh, Enter("app", fresh), next' = next
  PROVE  ReturnsUnrefused'
<1> SUFFICES ASSUME screen' = "login", next' = "setup", status' = "done" PROVE FALSE
  BY DEF ReturnsUnrefused
<1>1. /\ screen' = Route("app", status, failed') /\ status' = status
      /\ failed' \in {failed, Fetching(failed)}
  BY EnterKeepsQuery
<1>2. failed' = "denied" BY <1>1 DEF Route
<1>3. failed = "denied" /\ status = "done" BY <1>1, <1>2 DEF Fetching
<1>4. screen # "app" /\ screen # "setup" BY <1>3, RestMeans
<1> QED BY <1>3, <1>4 DEF ReturnsUnrefused, Screens

\* A request that is made forgets an error only where there is no data, and then
\* there is nothing to redirect for.
LEMMA FetchRests ==
  ASSUME AtRest, screen \in Screens, UNCHANGED <<screen, status>>,
         failed' \in {failed, Fetching(failed), "other"}
  PROVE  AtRest'
<1>1. CASE screen = "app"
  <2>1. failed # "denied" /\ (failed = "no" => status \notin {"nodb", "ready"})
    BY <1>1, RestMeans
  <2>2. failed' # "denied" BY <2>1 DEF Fetching
  <2>3. failed' = "no" => status \notin {"nodb", "ready"} BY <2>1 DEF Fetching
  <2> QED BY <1>1, <2>2, <2>3 DEF AtRest, Route
<1>2. CASE screen = "setup" BY <1>2 DEF AtRest, Route
<1>3. CASE screen = "login" BY <1>3 DEF AtRest, Route
<1> QED BY <1>1, <1>2, <1>3 DEF Screens

\* What the tab and the request know of the setup.
Learnt == (done => ready) /\ Known(status) /\ Known(req)

LEMMA NothingKnown == \A s \in {"none", "idle", "asked", "again", "denied", "nodb"} : Known(s)
BY DEF Known

\* A step that asks or forgets to, and learns nothing.
LEMMA NothingLearnt ==
  ASSUME Learnt, status' \in {status, "none"}, req' \in {req, "asked", "again", "denied", "idle"},
         done => done', ready => ready', done' => ready'
  PROVE  Learnt'
<1>1. \A s : Known(s) => Known(s)' BY DEF Known
<1>2. Known(status) /\ Known(req) /\ Known("none") /\ Known("asked") /\ Known("again")
      /\ Known("denied") /\ Known("idle")
  BY NothingKnown DEF Learnt
<1>3. Known(status)' BY <1>1, <1>2 DEF Known
<1>4. Known(req)' BY <1>1, <1>2 DEF Known
<1> QED BY <1>3, <1>4 DEF Learnt

LEMMA GateStepStands ==
  ASSUME GateInv, GateNext
  PROVE  GateInv'
<1> DEFINE Good == AtRest' /\ ReturnsUnrefused' /\ Learnt'
<1>t. TypeOK /\ AtRest /\ ReturnsUnrefused /\ Learnt /\ screen \in Screens
  BY DEF GateInv, Learnt, TypeOK, Screens
<1>u. TypeOK' BY <1>t, GateStepTypes
<1> SUFFICES Good BY <1>u DEF GateInv, Learnt
<1>1. CASE Refetch
  <2>1. UNCHANGED <<screen, status, done, ready>> /\ screen # "login"
    BY <1>1 DEF Refetch, tab, server
  <2>2. req' \in {req, "asked"} /\ failed' = Fetching(failed) BY <1>1 DEF Refetch, Asked
  <2>3. AtRest' BY <1>t, <2>1, <2>2, FetchRests
  <2>4. Learnt' BY <1>t, <2>1, <2>2, NothingLearnt DEF Learnt
  <2> QED BY <2>1, <2>3, <2>4 DEF ReturnsUnrefused
<1>2. CASE StatusAnswered \/ StatusRetried
  <2>1. UNCHANGED <<screen, next, status, failed, done, ready>> /\ req # "idle"
    BY <1>2 DEF StatusAnswered, StatusRetried, tab, server
  <2>2. req' \in {Status, "denied", "again"} BY <1>2 DEF StatusAnswered, StatusRetried
  <2>3. Known(Status) BY <1>t DEF Known, Status, Learnt
  <2>4. Known(req') BY <2>2, <2>3, NothingKnown
  <2>5. Known(req)' /\ Known(status)' BY <1>t, <2>1, <2>4 DEF Known, Learnt
  <2> QED BY <1>t, <2>1, <2>5 DEF Learnt, AtRest, ReturnsUnrefused
<1>3. CASE StatusLands
  <2>1. /\ status' = IF req = "denied" THEN status ELSE req
        /\ failed' = IF req = "denied" THEN "denied" ELSE "no"
        /\ screen' = Route(screen, status', failed') /\ req' = "idle"
        /\ next' = IF screen' = "login" /\ screen # "login" THEN "app" ELSE next
        /\ UNCHANGED <<done, ready>> /\ req # "idle"
    BY <1>3 DEF StatusLands, Show, server, Answers
  <2>2. ~(screen = "setup" /\ status' = "done" /\ failed' = "denied") BY <1>t, <2>1, RestMeans
  <2>3. AtRest' BY <1>t, <2>1, <2>2, RouteRests DEF AtRest
  <2>4. Known(status') /\ Known(req')
    <3>1. CASE req = "denied" BY <1>t, <2>1, <3>1, NothingKnown DEF Learnt
    <3>2. CASE req # "denied" BY <1>t, <2>1, <3>2, NothingKnown DEF Learnt
    <3> QED BY <3>1, <3>2
  <2>5. Learnt' BY <1>t, <2>1, <2>4 DEF Learnt, Known
  <2>6. ReturnsUnrefused'
    <3> SUFFICES ASSUME screen' = "login", next' = "setup", status' = "done"
                 PROVE  failed' # "denied"
      BY <2>1 DEF ReturnsUnrefused
    <3>1. screen = "login" /\ next = "setup" BY <2>1
    <3>2. req # "denied" BY <1>t, <2>1, <3>1 DEF ReturnsUnrefused
    <3> QED BY <2>1, <3>2
  <2> QED BY <2>3, <2>5, <2>6
<1>4. CASE StatusFails
  <2>1. UNCHANGED <<screen, next, status, done, ready>> /\ req # "idle" /\ req' = "idle"
        /\ failed' = "other"
    BY <1>4 DEF StatusFails, tab, server
  <2>2. AtRest' BY <1>t, <2>1, FetchRests
  <2>3. Learnt' BY <1>t, <2>1, NothingLearnt DEF Learnt
  <2> QED BY <2>1, <2>2, <2>3 DEF ReturnsUnrefused
<1>5. CASE RequestDenied \/ DenialHandled \/ AuthStatusLands \/ Submit \/ LoginGranted
           \/ LoginRefused \/ Expire
  <2>1. UNCHANGED <<screen, next, status, failed, req, done, ready>>
    BY <1>5 DEF RequestDenied, DenialHandled, AuthStatusLands, Submit, LoginGranted, LoginRefused,
                Expire, server, tab, query
  <2> QED BY <1>t, <2>1 DEF Learnt, Known, AtRest, ReturnsUnrefused
<1>6. CASE GoToLogin
  <2>1. Enter("login", FALSE) /\ next' = screen /\ UNCHANGED <<done, ready>>
    BY <1>6 DEF GoToLogin, server
  <2>2. AtRest' BY <2>1, EnterRests DEF Screens
  <2>3. status' = status /\ req' \in {req, "asked"} BY <2>1, EnterKeepsQuery
  <2>4. Learnt' BY <1>t, <2>1, <2>3, NothingLearnt DEF Learnt
  <2>5. next' = "setup" => status' # "done" BY <1>t, <2>1, <2>3, RestMeans
  <2> QED BY <2>2, <2>4, <2>5 DEF ReturnsUnrefused
<1>7. CASE NothingToSignInto
  <2>1. Enter("app", TRUE) /\ next' = next /\ UNCHANGED <<done, ready>>
    BY <1>7 DEF NothingToSignInto, server
  <2>2. AtRest' BY <2>1, EnterRests DEF Screens
  <2>3. status' = status /\ req' \in {req, "asked"} BY <2>1, EnterKeepsQuery
  <2>4. Learnt' BY <1>t, <2>1, <2>3, NothingLearnt DEF Learnt
  <2>5. ReturnsUnrefused' BY <1>t, <2>1, AppKeepsReturn
  <2> QED BY <2>2, <2>4, <2>5
<1>8. CASE SignedIn
  <2>1. Enter(next, FALSE) /\ next' = "app" /\ UNCHANGED <<done, ready>>
    BY <1>8 DEF SignedIn, server
  <2>2. next \in Screens BY <1>t DEF TypeOK, Screens
  <2>3. next = "setup" /\ status = "done" => failed # "denied"
    <3>1. CASE screen = "login" BY <1>t, <3>1 DEF ReturnsUnrefused
    <3>2. CASE screen # "login" BY <1>t, <3>2, RestMeans DEF Screens
    <3> QED BY <3>1, <3>2
  <2>4. AtRest' BY <2>1, <2>2, <2>3, EnterRests
  <2>5. status' = status /\ req' \in {req, "asked"} BY <2>1, EnterKeepsQuery
  <2>6. Learnt' BY <1>t, <2>1, <2>5, NothingLearnt DEF Learnt
  <2> QED BY <2>1, <2>4, <2>6 DEF ReturnsUnrefused
<1>9. CASE SignOut
  <2>1. /\ screen' = "login" /\ next' = "app" /\ status' = "none" /\ req' = "idle"
        /\ UNCHANGED <<done, ready>>
    BY <1>9 DEF SignOut
  <2>2. AtRest' BY <2>1 DEF AtRest, Route
  <2>3. Learnt' BY <1>t, <2>1, NothingLearnt DEF Learnt
  <2> QED BY <2>1, <2>2, <2>3 DEF ReturnsUnrefused
<1> QED BY <1>1, <1>2, <1>3, <1>4, <1>5, <1>6, <1>7, <1>8, <1>9 DEF GateNext

LEMMA SetupStepStands ==
  ASSUME GateInv, WizardNext
  PROVE  GateInv'
<1> DEFINE Good == AtRest' /\ ReturnsUnrefused' /\ Learnt'
<1>t. TypeOK /\ AtRest /\ ReturnsUnrefused /\ Learnt /\ screen \in Screens
  BY DEF GateInv, Learnt, TypeOK, Screens
<1>u. TypeOK' BY <1>t, SetupStepTypes
<1> SUFFICES Good BY <1>u DEF GateInv, Learnt
<1>1. CASE NextStep \/ Back \/ ChooseSecurity \/ ChooseSync \/ InitializePostgres
           \/ CompleteSetup \/ SkipSetup \/ WizardFails
  <2>1. UNCHANGED <<screen, next, status, failed, req, done, ready>>
    BY <1>1 DEF NextStep, Back, ChooseSecurity, ChooseSync, InitializePostgres, CompleteSetup,
                SkipSetup, WizardFails, Begin, server, tab, query
  <2> QED BY <1>t, <2>1 DEF Learnt, Known, AtRest, ReturnsUnrefused
<1>2. CASE PostgresReady \/ WizardStored \/ WizardSignedIn \/ SyncQueued \/ SkipStored
  <2>1. PICK stage : Awaits(stage)
    BY <1>2 DEF PostgresReady, WizardStored, WizardSignedIn, SyncQueued, SkipStored
  <2>2. UNCHANGED <<screen, next>>
    BY <1>2 DEF PostgresReady, WizardStored, WizardSignedIn, SyncQueued, SkipStored, tab
  <2>3. (done => done') /\ (ready => ready') /\ (done' => ready')
    BY <1>t, <1>2
       DEF PostgresReady, WizardStored, WizardSignedIn, SyncQueued, SkipStored, server, Learnt
  <2>4. /\ status' = status /\ failed' \in {failed, Fetching(failed)} /\ req' \in {req, "asked"}
        /\ screen = "login" => UNCHANGED <<req, failed>>
    BY <2>1 DEF Awaits, Asked
  <2>5. AtRest' BY <1>t, <2>2, <2>4, FetchRests
  <2>6. ReturnsUnrefused' BY <1>t, <2>2, <2>4 DEF ReturnsUnrefused
  <2>7. Learnt' BY <1>t, <2>3, <2>4, NothingLearnt
  <2> QED BY <2>5, <2>6, <2>7
<1>3. CASE WizardDone
  <2>1. UNCHANGED <<next, done, ready>> BY <1>3 DEF WizardDone, server
  <2>2. CASE busy = "home"
    <3>1. Enter("app", TRUE) BY <1>3, <2>2 DEF WizardDone
    <3>2. AtRest' BY <3>1, EnterRests DEF Screens
    <3>3. status' = status /\ req' \in {req, "asked"} BY <3>1, EnterKeepsQuery
    <3>4. Learnt' BY <1>t, <2>1, <3>3, NothingLearnt DEF Learnt
    <3>5. ReturnsUnrefused' BY <1>t, <2>1, <3>1, AppKeepsReturn
    <3> QED BY <3>2, <3>4, <3>5
  <2>3. CASE busy # "home"
    <3>1. UNCHANGED <<screen, status, failed, req>> BY <1>3, <2>3 DEF WizardDone, query
    <3> QED BY <1>t, <2>1, <3>1 DEF Learnt, Known, AtRest, ReturnsUnrefused
  <2> QED BY <2>2, <2>3
<1> QED BY <1>1, <1>2, <1>3 DEF WizardNext

\* The inductive invariant of the gate.
THEOREM GateInvariance == Spec => []GateInv
<1>1. Init => GateInv
  <2> SUFFICES ASSUME Init PROVE GateInv OBVIOUS
  <2>1. TypeOK BY InitTypes
  <2>2. AtRest /\ ReturnsUnrefused BY DEF Init, AtRest, Route, ReturnsUnrefused
  <2>3. done => ready BY DEF Init
  <2>4. Known(status) /\ Known(req) BY NothingKnown DEF Init
  <2> QED BY <2>1, <2>2, <2>3, <2>4 DEF GateInv
<1>2. GateInv /\ [Next]_vars => GateInv'
  <2>1. GateInv /\ UNCHANGED vars => GateInv'
    <3> SUFFICES ASSUME GateInv, UNCHANGED vars PROVE GateInv' OBVIOUS
    <3>1. TypeOK' BY TypesStutter DEF GateInv
    <3>2. UNCHANGED <<screen, next, status, failed, req, done, ready>>
      BY DEF vars, server, tab, query
    <3> QED BY <3>1, <3>2 DEF GateInv, AtRest, ReturnsUnrefused, Known
  <2> QED BY <2>1, GateStepStands, SetupStepStands DEF Next
<1> QED BY <1>1, <1>2, PTL DEF Spec

\* The pages are shown only where the setup is completed, and the wizard only to a tab
\* that does not know it is (RequireSetup, SetupPage), through every redirect.
THEOREM GateStandsAlways == Spec => []GateStands
<1>1. GateInv => GateStands
  <2> SUFFICES ASSUME GateInv PROVE GateStands OBVIOUS
  <2>1. status \in {"nodb", "ready", "done", "none"} /\ AtRest /\ Known(status)
    BY DEF GateInv, TypeOK, Answers
  <2>2. screen = "app" /\ failed = "no" => status \in {"none", "done"} BY <2>1, RestMeans
  <2>3. status = "done" => done /\ ready BY <2>1 DEF Known
  <2> QED BY <2>1, <2>2, <2>3, RestMeans DEF GateStands
<1> QED BY <1>1, GateInvariance, PTL
=============================================================================
