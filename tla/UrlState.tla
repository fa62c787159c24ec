-------------------------------- MODULE UrlState --------------------------------
(***************************************************************************)
(* Pages whose view is in the address: the library and the reports         *)
(* (LibraryPage, ReportingPage).  One effect writes the view's canonical   *)
(* address when the view changes; another applies an address that came     *)
(* from outside, and knows the page's own by a ref with the last one       *)
(* written.  The router renders an address after the views that were set   *)
(* before it, and skips those that were replaced meanwhile.                *)
(*                                                                         *)
(* A view is its own canonical address, but the default one's is empty.    *)
(***************************************************************************)
CONSTANTS
  Views,
  Default,   \* the view without filters
  Bare,      \* the empty address
  Sentinel,  \* "reset=1", for a saved default view
  NoAddress

ASSUME ViewsAssumption == Default \in Views /\ {Bare, Sentinel, NoAddress} \cap Views = {}

VARIABLES
  view,     \* the page's state, kept in the browser's storage as well
  address,  \* searchParams of the last render
  landing,  \* the address to be rendered: [url, own], or NoAddress
  written   \* lastWrittenSearch

urlVars == <<view, address, landing, written>>

Addresses == Views \cup {Bare, Sentinel}

UrlTypeOK ==
  /\ view \in Views /\ address \in Addresses
  /\ landing \in [url : Addresses, own : BOOLEAN] \cup {NoAddress}
  /\ written \in Addresses \cup {NoAddress}

\* serializeLibraryState, and the same lines of ReportingPage.
Canonical(v) == IF v = Default THEN Bare ELSE v

\* What the second effect reads from an address; absent fields are defaults.
Parse(url) == IF url = Sentinel THEN Default ELSE url

\* The first effect, in a render with view v at address url.
Write(v, url) ==
  IF Canonical(v) = url THEN UNCHANGED <<written, landing>>
  ELSE /\ written' = Canonical(v)
       /\ landing' = [url |-> Canonical(v), own |-> TRUE]

AppliesAny(url, last) == url # Bare

\* The second effect lets an address be that is empty or the last one written.
Applies(url, last) == url \notin {Bare, last}

-----------------------------------------------------------------------------

\* The page opens at address url with view v from the storage: the first effect
\* has written v's address when the second one applies url.
Opens(v, url) ==
  LET first == Canonical(v) # url
      last == IF first THEN Canonical(v) ELSE NoAddress
      applied == Applies(url, last)
      again == applied /\ Canonical(Parse(url)) # url
  IN <<IF applied THEN Parse(url) ELSE v,
       IF again THEN Canonical(Parse(url)) ELSE last>>

UrlInit ==
  /\ \E v \in Views :
       /\ address \in Addresses
       /\ view = Opens(v, address)[1] /\ written = Opens(v, address)[2]
  /\ landing = IF written = NoAddress THEN NoAddress ELSE [url |-> written, own |-> TRUE]

\* Any control of the page.
ChangeView(v) ==
  /\ v # view /\ view' = v
  /\ Write(v, address) /\ UNCHANGED address

\* Back and forward, a saved view, the search in the header, a link.
GoTo(url) ==
  /\ landing' = [url |-> url, own |-> FALSE]
  /\ UNCHANGED <<view, address, written>>

\* The address is rendered; applying it is followed by the first effect again.
Land ==
  /\ landing # NoAddress /\ address' = landing.url
  /\ IF landing.url # address /\ Applies(landing.url, written)
     THEN /\ view' = Parse(landing.url)
          /\ IF Canonical(view') = landing.url
             THEN landing' = NoAddress /\ UNCHANGED written
             ELSE Write(view', landing.url)
     ELSE landing' = NoAddress /\ UNCHANGED <<view, written>>

UrlNext ==
  \/ \E v \in Views : ChangeView(v)
  \/ \E url \in Addresses : GoTo(url)
  \/ Land

UrlSpec == UrlInit /\ [][UrlNext]_urlVars

-----------------------------------------------------------------------------
(* Properties.                                                             *)

\* What the page wrote itself never comes back as a view, also when it lands
\* late, over what was typed since: this is what lastWrittenSearch is for.
OwnWritesNeverRevert ==
  [][landing # NoAddress /\ landing.own /\ Land => UNCHANGED view]_urlVars
=============================================================================
