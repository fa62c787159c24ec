----------------------------- MODULE ArtworkSettings -----------------------------
(***************************************************************************)
(* The artwork page (ArtworkPage): a switch sends one field, the answer    *)
(* replaces the query's data at once, and the query is polled all the      *)
(* while.  An answer that was read before a change may land after it, and  *)
(* two switches may be answered in either order.  Loading artwork live,    *)
(* which deletes the cache, and clearing the cache ask first.              *)
(***************************************************************************)
EXTENDS FiniteSets, Naturals

CONSTANTS
  MaxArtChanges,  \* bound: switches made, caches cleared and fetches begun
  MaxArtFails,    \* bound: requests that fail
  NotRead, AskedArt, NoArt

ASSUME ArtAssumption == MaxArtChanges \in Nat /\ MaxArtFails \in Nat

VARIABLES
  art,       \* the server's: [live, rest, files, fetching]
  shownArt,  \* the query's data, or NotRead
  artReq,    \* its request: NoArt, AskedArt, or the answer
  patches,   \* calls under way: [what, to, answer], answer NoArt before it is made
  artAsk,    \* the open question: "none", "live" or "clear"
  artFailed, \* config.isError: a notice is shown instead of the page
  changes, fails

artVars == <<art, shownArt, artReq, patches, artAsk, artFailed, changes, fails>>

\* `rest` stands for the fields whose switches do not ask: artwork shown at all,
\* other sources, the size of the cache.
Config == [live : BOOLEAN, rest : BOOLEAN, files : BOOLEAN, fetching : BOOLEAN]

ArtTypeOK ==
  /\ art \in Config
  /\ shownArt \in Config \cup {NotRead}
  /\ artReq \in Config \cup {NoArt, AskedArt}
  /\ patches \in SUBSET [what : {"live", "rest", "clear", "fetch"}, to : BOOLEAN,
                         answer : Config \cup {NoArt}]
  /\ artAsk \in {"none", "live", "clear"} /\ artFailed \in BOOLEAN
  /\ changes \in 0 .. MaxArtChanges /\ fails \in 0 .. MaxArtFails

ArtInit ==
  /\ art \in {c \in Config : ~c.fetching}
  /\ shownArt = NotRead /\ artReq = AskedArt /\ patches = {}
  /\ artAsk = "none" /\ artFailed = FALSE /\ changes = 0 /\ fails = 0

-----------------------------------------------------------------------------
(* The page.                                                               *)

Usable == shownArt # NotRead /\ ~artFailed /\ artAsk = "none"

Send(what, to) ==
  /\ changes < MaxArtChanges /\ changes' = changes + 1
  /\ patches' = patches \cup {[what |-> what, to |-> to, answer |-> NoArt]}
  /\ UNCHANGED <<art, shownArt, artReq, artFailed, fails>>

SwitchRest == Usable /\ Send("rest", ~shownArt.rest) /\ UNCHANGED artAsk

\* setMode: back to the cache, or live when there is nothing to delete.
SwitchLive ==
  /\ Usable /\ (shownArt.live \/ ~shownArt.files)
  /\ Send("live", ~shownArt.live) /\ UNCHANGED artAsk

FetchNow == Usable /\ ~shownArt.fetching /\ Send("fetch", TRUE) /\ UNCHANGED artAsk

Question(what) ==
  /\ Usable /\ shownArt.files
  /\ what = "live" => ~shownArt.live
  /\ what = "clear" => ~shownArt.fetching
  /\ artAsk' = what
  /\ UNCHANGED <<art, shownArt, artReq, patches, artFailed, changes, fails>>

\* The question waits behind an error notice.
AnswerQuestion(yes) ==
  /\ artAsk # "none" /\ ~artFailed /\ artAsk' = "none"
  /\ IF yes THEN Send(artAsk, TRUE)
     ELSE UNCHANGED <<art, shownArt, artReq, patches, artFailed, changes, fails>>

-----------------------------------------------------------------------------
(* The calls.                                                              *)

\* The server does it, and answers with what it has then.
Apply(p) ==
  CASE p.what = "rest"  -> [art EXCEPT !.rest = p.to]
    [] p.what = "live"  -> [art EXCEPT !.live = p.to, !.files = @ /\ ~p.to]
    [] p.what = "clear" -> [art EXCEPT !.files = FALSE]
    [] p.what = "fetch" -> [art EXCEPT !.fetching = TRUE]

PatchStored(p) ==
  /\ p.answer = NoArt /\ art' = Apply(p)
  /\ patches' = (patches \ {p}) \cup {[p EXCEPT !.answer = art']}
  /\ UNCHANGED <<shownArt, artReq, artAsk, artFailed, changes, fails>>

\* setQueryData; a fetch that was begun invalidates the query instead.
PatchAnswered(p) ==
  /\ p.answer # NoArt /\ patches' = patches \ {p}
  /\ IF p.what = "fetch" THEN artReq' = AskedArt /\ UNCHANGED <<shownArt, artFailed>>
     ELSE shownArt' = p.answer /\ artFailed' = FALSE /\ UNCHANGED artReq
  /\ UNCHANGED <<art, artAsk, changes, fails>>

\* Refused, or the answer is lost.
PatchFails(p) ==
  /\ fails < MaxArtFails /\ fails' = fails + 1
  /\ patches' = patches \ {p}
  /\ UNCHANGED <<art, shownArt, artReq, artAsk, artFailed, changes>>

\* The background fetch ends, with or without files; it runs by itself as well.
FetchEnds ==
  /\ art.fetching
  /\ \E some \in BOOLEAN :
       art' = [art EXCEPT !.fetching = FALSE, !.files = @ \/ some]
  /\ UNCHANGED <<shownArt, artReq, patches, artAsk, artFailed, changes, fails>>

PollArtFetching ==
  /\ artReq = NoArt /\ artReq' = AskedArt
  /\ shownArt # NotRead /\ shownArt.fetching
  /\ UNCHANGED <<art, shownArt, patches, artAsk, artFailed, changes, fails>>

\* The interval: shorter while files are being fetched, but there in any case.
PollArt ==
  /\ artReq = NoArt /\ artReq' = AskedArt
  /\ UNCHANGED <<art, shownArt, patches, artAsk, artFailed, changes, fails>>

ArtAnswered ==
  /\ artReq = AskedArt /\ artReq' = art
  /\ UNCHANGED <<art, shownArt, patches, artAsk, artFailed, changes, fails>>

ArtLands ==
  /\ artReq \notin {NoArt, AskedArt}
  /\ shownArt' = artReq /\ artFailed' = FALSE /\ artReq' = NoArt
  /\ UNCHANGED <<art, patches, artAsk, changes, fails>>

ArtFails ==
  /\ artReq # NoArt /\ fails < MaxArtFails /\ fails' = fails + 1
  /\ artReq' = NoArt /\ artFailed' = TRUE
  /\ UNCHANGED <<art, shownArt, patches, artAsk, changes>>

ArtNext ==
  \/ SwitchRest \/ SwitchLive \/ FetchNow
  \/ \E what \in {"live", "clear"} : Question(what)
  \/ \E yes \in BOOLEAN : AnswerQuestion(yes)
  \/ \E p \in patches : PatchStored(p) \/ PatchAnswered(p) \/ PatchFails(p)
  \/ FetchEnds \/ PollArt \/ ArtAnswered \/ ArtLands \/ ArtFails

ArtSpec == ArtInit /\ [][ArtNext]_artVars

-----------------------------------------------------------------------------
(* Properties.                                                             *)

\* Whatever order the answers of switches and polls came in, the page comes to
\* show what the server has, and is not left with its error notice.
ShowsTheServer == <>[](shownArt = art /\ ~artFailed)
=============================================================================
