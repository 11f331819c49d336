--------------------------- MODULE ShotHistoryPage ---------------------------
(***************************************************************************)
(* The history list in the browser: ui-history.js asks the "http" task for *)
(* pages of the list that ShotHistoryRoutes.cpp reads from the store while *)
(* the main task saves, evicts and restarts (ShotStore.tla).               *)
(*                                                                         *)
(* Each time the handler takes the store's mutex is a step of its own; a   *)
(* save holds it from the scan to the end of retention.  A page of the     *)
(* list is named by its "before" cursor, 0 for the first.  The tokens of   *)
(* ui-history.js only tell whether a later fetch was started, which is     *)
(* kept as the flag "superseded".                                          *)
(***************************************************************************)
EXTENDS ShotStore, Integers, Sequences

CONSTANTS
  Limit,       \* SHOTS_LIMIT
  MaxClicks    \* bound: what the user does in the browser, connections lost, and
               \* pages and rows whose flash reads fail

ASSUME PageAssumption == Limit \in Nat \ {0} /\ MaxClicks \in Nat

VARIABLES
  fetch,       \* the request in flight of each kind, or NoFetch
  view,        \* "list", or "other"
  shots,       \* the ids displayed, newest first, or Null
  hasMore,     \* shotsHasMore
  etags,       \* shotsEtags: for each cursor a tag or NoTag
  seen,        \* state: savedSeq, and whether the storage is ready
  lastSaved,   \* lastShotsSavedSeq, Never (-1) before the first refresh
  pending,     \* shotsRefreshPending: "no", "yes", or "force"
  served,      \* the records handed out, by boot and id (properties only)
  left,        \* a save of this boot could not remove its file (properties only)
  misread,     \* the first page's answer was cut by a failed read (properties only)
  clicks

listVars == <<view, shots, hasMore, etags, seen, lastSaved>>
pageVars == <<fetch, listVars, pending, served, left, misread, clicks>>

Null    == <<0>>
NoTag   == <<>>
Never   == -1
NoFetch == [stage |-> "none"]
Kinds   == {"refresh", "more"}
Cursors == 0..MaxId

PageInit ==
  /\ fetch = [k \in Kinds |-> NoFetch]
  /\ view = "other" /\ shots = Null /\ hasMore = FALSE
  /\ etags = [c \in Cursors |-> NoTag]
  /\ seen = [seq |-> Never, ready |-> TRUE] /\ lastSaved = Never /\ pending = "no"
  /\ served = {} /\ left = FALSE /\ misread = FALSE /\ clicks = MaxClicks

-----------------------------------------------------------------------------
(* ShotStore, as the handlers see it. *)

\* The network is up: not before setup() is done, nor while all data is erased.
Saving   == pc \in {"reserve", "open", "close", "verify", "retain"}
Up       == \/ Saving \/ pc \in {"idle", "mark"}
            \/ pc \in {"format", "erased"} /\ erasing = "shots"
            \/ pc = "restarting" /\ erasing # "all"
Unlocked == ~Saving

\* isValidShotHeader()
Listed == {i \in Ids : files[i].body # "headless"}

\* page(): newest first, below the cursor, at most Limit, when every read works.
Below(cursor) == {i \in Listed : cursor = 0 \/ i < cursor}
Nth(s, n)     == CHOOSE i \in s : Cardinality({j \in s : j >= i}) = n
AtMost(n)     == IF n < Limit THEN n ELSE Limit
Newest(s)     == [n \in 1..AtMost(Cardinality(s)) |-> Nth(s, n)]
Page(cursor)  == Newest(Below(cursor))
FirstOf(seq)  == SubSeq(seq, 1, AtMost(Len(seq)))

\* The list's ETag.
Tag == <<boot, revision>>

-----------------------------------------------------------------------------
(* ui-history.js *)

Displayed(seq) == {seq[i] : i \in DOMAIN seq}

\* fetchShotsPage(); starting it supersedes a fetch of the other kind.
Started(fs, k, cursor) ==
  [j \in Kinds |->
     IF j = k THEN [stage |-> "sent", cursor |-> cursor, tag |-> etags'[cursor],
                    seq |-> seen'.seq, superseded |-> FALSE]
     ELSE IF fs[j] = NoFetch THEN NoFetch ELSE [fs[j] EXCEPT !.superseded = TRUE]]

\* shotsRefreshPending and shotsRefreshPendingForce
Deferred(force, before) == IF force \/ before = "force" THEN "force" ELSE "yes"

Wanted(force) == force \/ shots' = Null \/ seen'.seq # lastSaved'

\* maybeRefreshShots(): `fs` are the fetches in flight, `before` what is pending.
MaybeRefresh(force, fs, before) ==
  IF ~(view' = "list" /\ seen'.ready /\ Wanted(force))
  THEN fetch' = fs /\ pending' = before
  ELSE IF fs["refresh"] # NoFetch
  THEN fetch' = fs /\ pending' = Deferred(force, before)
  ELSE fetch' = Started(fs, "refresh", 0) /\ pending' = before

Click == clicks > 0 /\ clicks' = clicks - 1

\* A STATE packet: handleStatePacket().
StateArrives ==
  /\ Up
  /\ seen' = [seq |-> savedSeq, ready |-> mounted]
  /\ UNCHANGED <<view, shots, hasMore, etags, lastSaved, served, clicks>>
  /\ MaybeRefresh(FALSE, fetch, pending)
  /\ UNCHANGED <<left, misread, vars>>

\* switchView()
SwitchView ==
  /\ Click
  /\ view' = IF view = "list" THEN "other" ELSE "list"
  /\ UNCHANGED <<shots, hasMore, etags, seen, lastSaved, served>>
  /\ MaybeRefresh(TRUE, fetch, pending)
  /\ UNCHANGED <<left, misread, vars>>

\* loadMoreShots()
LoadMore ==
  /\ Click
  /\ view = "list" /\ hasMore /\ shots # Null /\ shots # <<>>
  /\ fetch["more"] = NoFetch
  /\ UNCHANGED <<listVars, pending, served>>
  /\ fetch' = Started(fetch, "more", shots[Len(shots)])
  /\ UNCHANGED <<left, misread, vars>>

\* Mutant: the validator is kept also when the answer is thrown away.
Committed_Always(f) == f.status = 200

Committed(f) == f.status = 200 /\ ~f.superseded

\* Mutant: the savedSeq of the latest STATE is noted, not the one that was known
\* when the list was asked for.
RefreshedSeq_Latest(f) == seen.seq

RefreshedSeq(f) == f.seq

\* The answer of a refresh arrives, or the fetch fails.
RefreshEnds ==
  LET f == fetch["refresh"]
  IN /\ f.stage \in {"answered", "failed"}
     /\ lastSaved' = IF f.stage = "answered" /\ f.status # 503 /\ ~f.superseded
                     THEN RefreshedSeq(f) ELSE lastSaved
     /\ IF f.stage = "answered" /\ f.status = 200 /\ ~f.superseded
        THEN shots' = f.rows /\ hasMore' = f.more
        ELSE UNCHANGED <<shots, hasMore>>
     /\ IF f.stage = "answered" /\ Committed(f)
        THEN etags' = [etags EXCEPT ![0] = f.etag] /\ misread' = ~f.whole
        ELSE UNCHANGED <<etags, misread>>
     /\ UNCHANGED <<view, seen, served, clicks>>
     /\ LET idle == [fetch EXCEPT !["refresh"] = NoFetch]
        IN IF pending = "no"
           THEN fetch' = idle /\ pending' = "no"
           ELSE MaybeRefresh(pending = "force", idle, "no")
     /\ UNCHANGED <<left, vars>>

\* Mutant: older rows are appended whatever has happened since they were asked for.
Appends_Always(f) == f.status = 200

Appends(f) == f.status = 200 /\ ~f.superseded

\* The answer of a "load more" arrives, or the fetch fails.
MoreEnds ==
  LET f == fetch["more"]
  IN /\ f.stage \in {"answered", "failed"}
     /\ IF f.stage = "answered" /\ Appends(f)
        THEN /\ shots' = shots \o f.rows /\ hasMore' = f.more
             /\ etags' = [etags EXCEPT ![f.cursor] = f.etag]
        ELSE UNCHANGED <<shots, hasMore, etags>>
     /\ fetch' = [fetch EXCEPT !["more"] = NoFetch]
     /\ UNCHANGED <<view, seen, lastSaved, pending, served, clicks>>
     /\ UNCHANGED <<left, misread, vars>>

-----------------------------------------------------------------------------
(* handleShotList() and handleShotDetail(); one request is handled at a time.*)

HandlerKeeps == UNCHANGED <<listVars, pending, served, left, misread, vars>>

InHandler(k) == fetch[k].stage \in {"page", "rows"}

\* The mount check and the validator.
Validate(k) ==
  /\ fetch[k].stage = "sent" /\ \A j \in Kinds : ~InHandler(j)
  /\ Up /\ Unlocked
  /\ fetch' = [fetch EXCEPT ![k] =
       IF ~mounted THEN [stage |-> "answered", status |-> 503, superseded |-> @.superseded]
       ELSE IF @.tag = Tag
       THEN [stage |-> "answered", status |-> 304, superseded |-> @.superseded, seq |-> @.seq]
       ELSE [@ EXCEPT !.stage = "page"]]
  /\ UNCHANGED clicks
  /\ HandlerKeeps

\* The reads of a step all work, or some fail: the answer is 200 all the same.
Reads(whole) == IF whole THEN UNCHANGED clicks ELSE Click

\* page(): without the directory the page is empty, without its header an entry is
\* passed over.
Snapshot(k) ==
  /\ fetch[k].stage = "page" /\ Up /\ Unlocked
  /\ \E found \in SUBSET Below(fetch[k].cursor), whole \in BOOLEAN :
       /\ whole => found = Below(fetch[k].cursor)
       /\ Reads(whole)
       /\ fetch' = [fetch EXCEPT ![k] =
            [stage |-> "rows", cursor |-> @.cursor, seq |-> @.seq, superseded |-> @.superseded,
             etag |-> Tag, ids |-> Newest(found), rows |-> <<>>,
             more |-> Cardinality(found) > Limit, whole |-> whole]]
  /\ HandlerKeeps

\* readMeta() of the next row: "evicted between snapshot & read", or unreadable.
ReadRow(k) ==
  LET f == fetch[k]
  IN /\ f.stage = "rows" /\ f.ids # <<>> /\ Up /\ Unlocked
     /\ \E whole \in BOOLEAN :
          /\ Reads(whole)
          /\ fetch' = [fetch EXCEPT ![k] =
               [f EXCEPT !.ids = Tail(@), !.whole = @ /\ whole,
                         !.rows = IF Head(f.ids) \in Listed /\ whole
                                  THEN Append(@, Head(f.ids)) ELSE @]]
     /\ HandlerKeeps

\* The end of the body.
Answer(k) ==
  LET f == fetch[k]
  IN /\ f.stage = "rows" /\ f.ids = <<>> /\ Up
     /\ fetch' = [fetch EXCEPT ![k] =
          [stage |-> "answered", status |-> 200, cursor |-> f.cursor, seq |-> f.seq,
           superseded |-> f.superseded, etag |-> f.etag, rows |-> f.rows, more |-> f.more,
           whole |-> f.whole]]
     /\ UNCHANGED clicks
     /\ HandlerKeeps

\* The connection is lost or the fetch times out.
Lost(k) ==
  /\ fetch[k].stage \in {"sent", "page", "rows", "answered"}
  /\ Click
  /\ fetch' = [fetch EXCEPT ![k] = [stage |-> "failed", superseded |-> @.superseded]]
  /\ HandlerKeeps

\* GET /shots?id=...
ServeDetail(i) ==
  /\ Up /\ Unlocked /\ mounted
  /\ i \in Listed
  /\ Click
  /\ served' = served \cup {[boot |-> boot, id |-> i, record |-> files[i]]}
  /\ UNCHANGED <<listVars, fetch, pending, left, misread, vars>>

\* A step of the device; a restart breaks the connections it serves.
DeviceStep ==
  /\ Next
  /\ fetch' = IF boot' = boot THEN fetch
              ELSE [k \in Kinds |->
                      IF fetch[k].stage \in {"sent", "page", "rows"}
                      THEN [stage |-> "failed", superseded |-> fetch[k].superseded]
                      ELSE fetch[k]]
  /\ left' = (boot' = boot /\ (left \/ (pc = "verify" /\ pc' = "idle" /\ id \in DOMAIN files')))
  /\ UNCHANGED <<listVars, pending, served, misread, clicks>>

PageStep ==
  \/ StateArrives \/ SwitchView \/ LoadMore \/ RefreshEnds \/ MoreEnds
  \/ \E k \in Kinds : Validate(k) \/ Snapshot(k) \/ ReadRow(k) \/ Answer(k) \/ Lost(k)
  \/ \E i \in Ids : ServeDetail(i)

PageSpecInit == Init /\ PageInit
PageNext == DeviceStep \/ PageStep
PageSpec == PageSpecInit /\ [][PageNext]_<<vars, pageVars>>

-----------------------------------------------------------------------------
(* Properties. *)

AtRest == Up /\ Unlocked /\ mounted

Covers(u) == shots # Null /\ Displayed(Page(u)) \subseteq Displayed(shots)

\* ShotStore.h, "Mutations advance the O(1) revision without requiring a
\* directory scan", and ui-history.js, "a future 304 against it then correctly
\* means 'what you have is current'", for the first page: whenever its validator
\* would be confirmed, the list begins with what the device would send.
FirstPageValidator ==
  AtRest /\ etags[0] = Tag => shots # Null /\ FirstOf(shots) = Page(0)

\* The same of an answer whose reads all worked, and while no save has left a
\* file behind: each of the two is a way of its own to break it.
WholeAnswerIsCurrent == ~misread => FirstPageValidator
CutAnswerIsCurrent == ~left => FirstPageValidator

\* Apart from both - a file left behind is listed under the revision of before
\* (_writeRecordUnlocked), and an answer cut by a failed read has the validator of
\* a whole one (page(), readMeta()): whatever saves, evictions, erasures and
\* restarts happen between the handler's looks at the store, and in whichever order
\* the answers of the two fetches arrive.
ConfirmedPageIsCurrent == ~left /\ ~misread => FirstPageValidator

\* "Pages are disjoint id ranges, so no dedupe": whatever the order in which
\* refreshes, older pages, evictions and new records meet, the list is newest
\* first, without a repetition and without a hole.
ListHasNoHole ==
  shots # Null =>
    /\ \A i, j \in DOMAIN shots : i < j => shots[i] > shots[j]
    /\ \A i \in Listed : AtRest /\ (\E j \in Displayed(shots) : j < i)
                          /\ (\E j \in Displayed(shots) : i < j) => i \in Displayed(shots)

\* "the savedSeq check skips the request unless a new shot was saved": when the
\* latest STATE would be skipped, there is nothing new on the device.
Skips == view = "list" /\ shots # Null /\ seen.seq = lastSaved /\ seen.seq = savedSeq
NothingNew == \A i \in Listed : \E j \in Displayed(shots) : j >= i
SkipMeansCurrentInBoot ==
  pc = "idle" /\ mounted /\ Skips /\ boot = 0 => NothingNew

\* The same over restarts of the device, while the page stays open.
SkipMeansCurrent == pc = "idle" /\ mounted /\ Skips => NothingNew

\* The same 304 for the older pages.
OlderPageValidator ==
  \A u \in Cursors \ {0} : AtRest /\ etags[u] = Tag => Covers(u)

\* "The boot nonce prevents a browser from reusing shot #N after the on-device
\* erase resets the NVS id counter": under one ETag one record is ever served.
DetailTagNamesOneShot ==
  \A x, y \in served : x.boot = y.boot /\ x.id = y.id => x.record = y.record

=============================================================================
