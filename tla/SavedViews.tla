------------------------------ MODULE SavedViews ------------------------------
(***************************************************************************)
(* A page's saved views (SavedViews): a save or a deletion shows its       *)
(* result at once, sends the whole list, takes the result back when that   *)
(* fails and refetches in any case.  Nothing orders two of them.  Views of *)
(* an old version, or kept after a failure, lie in the browser's storage   *)
(* and are migrated when the server has none.  A list is a set of names.   *)
(***************************************************************************)
EXTENDS FiniteSets, Naturals

CONSTANTS
  Names,
  MaxSending,          \* bound: lists under way
  NoViews, ViewsAsked, NoRequest

ASSUME ListsAssumption ==
  /\ \A l \in (SUBSET Names) \cup {NoViews} : l # ViewsAsked /\ l # NoRequest
  /\ ViewsAsked # NoRequest

VARIABLES
  server,    \* the server's list, NoViews before the first
  cache,     \* the query's data: a list, or NoViews
  loaded,    \* the query has data
  viewReq,   \* its request: NoRequest, ViewsAsked, or the list in the answer
  sending,   \* lists under way: [next, before, had]
  local,     \* the list in the browser's storage
  migrated,  \* migratedRef
  changed,   \* the data changed and the migration effect has not run yet
  behind     \* ghost: the server changed elsewhere, or a refetch failed

viewVars == <<server, cache, loaded, viewReq, sending, local, migrated, changed, behind>>

Lists == SUBSET Names
Known == Lists \cup {NoViews}

SavedViewsTypeOK ==
  /\ server \in Known /\ cache \in Known /\ loaded \in BOOLEAN
  /\ viewReq \in Known \cup {NoRequest, ViewsAsked}
  /\ sending \in SUBSET [next : Lists, before : Known, had : BOOLEAN]
  /\ local \in Lists /\ migrated \in BOOLEAN /\ changed \in BOOLEAN /\ behind \in BOOLEAN

SavedViewsInit ==
  /\ server \in {NoViews, {}} /\ local \in Lists
  /\ cache = NoViews /\ loaded = FALSE /\ viewReq = ViewsAsked
  /\ sending = {} /\ migrated = FALSE
  /\ changed = FALSE /\ behind = FALSE

\* currentViews: the live cache, or the browser's list.
Current == IF cache = NoViews THEN local ELSE cache

\* The query's data are replaced.
SetCache(views) ==
  /\ cache' = views /\ loaded' = TRUE
  /\ changed' = (changed \/ cache # views \/ ~loaded)

\* persist.mutate up to the request: the refetch under way is cancelled, the
\* list is shown.
Mutate(next) ==
  /\ Cardinality(sending) < MaxSending
  /\ sending' = sending \cup {[next |-> next, before |-> cache, had |-> loaded]}
  /\ cache' = next /\ loaded' = TRUE /\ changed' = TRUE /\ viewReq' = NoRequest
  /\ UNCHANGED <<server, local, behind>>

SaveView(n) == Mutate(Current \cup {n}) /\ UNCHANGED migrated
DeleteView(n) == n \in Current /\ Mutate(Current \ {n}) /\ UNCHANGED migrated

\* The effect on new data: a page without views gets those of the browser,
\* which stay there.
Migrate ==
  /\ changed
  /\ IF ~migrated /\ cache \in {NoViews, {}} /\ local # {}
     THEN migrated' = TRUE /\ Mutate(local)
     ELSE changed' = FALSE
          /\ UNCHANGED <<server, cache, loaded, viewReq, sending, local, migrated, behind>>

ViewsStoredUnread(p) ==
  /\ server' = p.next /\ sending' = sending \ {p}
  /\ UNCHANGED <<cache, loaded, viewReq, local, migrated, changed, behind>>

\* onSettled: invalidated, and asked for again.
ViewsStored(p) ==
  /\ server' = p.next /\ sending' = sending \ {p} /\ viewReq' = ViewsAsked
  /\ UNCHANGED <<cache, loaded, local, migrated, changed, behind>>

\* The list, or its answer, is lost: the cache is rolled back to what it was
\* when the list was sent, and the list is kept in the browser.
ViewsLost(p) ==
  /\ server' \in {server, p.next}
  /\ sending' = sending \ {p} /\ viewReq' = ViewsAsked
  /\ SetCache(IF p.had THEN p.before ELSE cache)
  /\ local' = p.next
  /\ UNCHANGED <<migrated, behind>>

ViewsAnswered ==
  /\ viewReq = ViewsAsked /\ viewReq' = server
  /\ UNCHANGED <<server, cache, loaded, sending, local, migrated, changed, behind>>

ViewsLand ==
  /\ viewReq \notin {NoRequest, ViewsAsked}
  /\ SetCache(viewReq) /\ viewReq' = NoRequest
  /\ behind' = (behind /\ viewReq # server)
  /\ UNCHANGED <<server, sending, local, migrated>>

ViewsFail ==
  /\ viewReq # NoRequest /\ viewReq' = NoRequest /\ behind' = TRUE
  /\ UNCHANGED <<server, cache, loaded, sending, local, migrated, changed>>

\* Another tab stores its list.
ViewsElsewhere(l) ==
  /\ server' = l /\ behind' = TRUE
  /\ UNCHANGED <<cache, loaded, viewReq, sending, local, migrated, changed>>

\* The page is opened again, by a reload.
Reopen ==
  /\ migrated' = FALSE /\ changed' = FALSE
  /\ cache' = NoViews /\ loaded' = FALSE /\ sending' = {}
  /\ viewReq' = ViewsAsked
  /\ server' \in {server} \cup {p.next : p \in sending}
  /\ UNCHANGED <<local, behind>>

SavedViewsNext ==
  \/ \E n \in Names : SaveView(n) \/ DeleteView(n)
  \/ Migrate \/ ViewsAnswered \/ ViewsLand \/ ViewsFail \/ Reopen
  \/ \E p \in sending : ViewsStored(p) \/ ViewsLost(p)
  \/ \E l \in Lists : ViewsElsewhere(l)

SavedViewsSpec == SavedViewsInit /\ [][SavedViewsNext]_viewVars

-----------------------------------------------------------------------------
(* Properties.                                                             *)

\* Whatever was shown ahead of the server, rolled back, reordered or lost, the
\* list settles on the server's, unless that changed elsewhere or could not be
\* read since.
SettlesOnServer ==
  loaded /\ sending = {} /\ viewReq = NoRequest /\ ~behind => cache = server
=============================================================================
