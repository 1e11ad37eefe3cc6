------------------------------ MODULE LiveConnector ------------------------------
(***************************************************************************)
(* Polling one connector (backend/verine/providers/live/, poll_connector   *)
(* and patch_connector of api/live_service.py, evidence/archive.py): the   *)
(* configuration, the conditional request, the archive of what was         *)
(* fetched, the adapter's choice of entries, the delta and the cursor.     *)
(*                                                                         *)
(* A poll is a coroutine that gives up the event loop while it fetches.    *)
(* Configurations are patched in the thread pool, where a patch reads the  *)
(* document, changes it and writes all of it back.                         *)
(***************************************************************************)
EXTENDS DeltaEngine, FiniteSets

CONSTANTS
    Polls,      \* coroutines that poll the connector
    Workers,    \* threads that patch its configuration
    Types,      \* adapters
    Matching,   \* events that match the terms, or the forms, of a configuration
    Window,     \* entries an adapter that reads only the first ones reads
    MaxRequests,  \* bound on the polls and patches
    None

ASSUME ConnectorAssumption ==
    /\ Types \subseteq {"statuspage", "nws", "nvd", "cisa_kev", "sec_edgar", "rss"}
    /\ Matching \subseteq Events
    /\ Window \in Nat /\ MaxRequests \in Nat

Entries == [event : Events, version : 1 .. MaxVersion]
Listings == Seq(Entries)

Cursors == [seen : Seq(Signals), etag : Listings \cup {None}, picky : BOOLEAN]

PollRecords ==
    [step   : {"asking", "answered", "unmodified", "storing"},
     picky  : BOOLEAN,
     cursor : Cursors,
     reply  : Listings \cup {None},
     fresh  : SUBSET Signals]

Configs == [enabled : BOOLEAN, picky : BOOLEAN]
Changes == [enabled : BOOLEAN] \cup [picky : BOOLEAN]

ASSUME NoneAssumption == None \notin Listings \cup PollRecords

VARIABLES
    type,       \* the adapter
    tagged,     \* does the source send entity tags?
    visible,    \* do its revisions touch the fields the content hash covers?
    config,     \* the stored configuration: enabled, picky
    held,       \* patch between its read and its write -> copy and change
    cursor,     \* the stored cursor: seen, etag, and the filter it was saved under
    polls,      \* what a running poll holds
    archive,    \* the payloads archived
    signals,    \* signal -> the payload its stored signal names
    noticed,    \* signals ever found new or updated
    lost,       \* signals a crash kept from being stored
    asked,      \* the last answered request to enable or disable
    blurred,    \* did two polls overlap, two patches overlap, a filter change?
    requests    \* polls and patches so far

adapterVars == <<type, tagged, visible>>
connectorVars ==
    <<adapterVars, config, held, cursor, polls, archive, signals, noticed, lost,
      asked, blurred, requests>>
vars == <<sourceVars, connectorVars>>

\* The tag of a payload identifies it.
Tag(listing) == IF tagged THEN listing ELSE None
Created == [enabled |-> TRUE, picky |-> FALSE]
NewCursor == [seen |-> << >>, etag |-> None, picky |-> FALSE]

Init ==
    /\ SourceInit
    /\ type \in Types /\ tagged \in BOOLEAN /\ visible \in BOOLEAN
    /\ config = Created
    /\ held = [w \in Workers |-> None]
    /\ cursor = NewCursor
    /\ polls = [p \in Polls |-> None]
    /\ archive = {}
    /\ signals = [s \in Signals |-> None]
    /\ noticed = {} /\ lost = {}
    /\ asked = TRUE
    /\ blurred = [polls |-> FALSE, patches |-> FALSE, filter |-> FALSE]
    /\ requests = 0
-------------------------------------------------------------------------------
(* normalize: which entries of a payload an adapter makes signals of, and  *)
(* the hash over the fields it deems significant                           *)

SignalOf(entry) ==
    [event |-> entry.event, hash |-> IF visible THEN entry.version ELSE 1]
SignalsOf(listing) == [k \in DOMAIN listing |-> SignalOf(listing[k])]

First(listing) == SubSeq(listing, 1, IF Len(listing) < Window THEN Len(listing) ELSE Window)
Picked(listing, picky) ==
    FoldLeft(LAMBDA kept, entry : IF picky => entry.event \in Matching
                                  THEN Append(kept, entry) ELSE kept,
             << >>, listing)

Statuspage(listing) == SignalsOf(listing)
Nws(listing) == SignalsOf(listing)
Nvd(listing) == SignalsOf(listing)
Cisa(listing, picky) == SignalsOf(Picked(listing, picky))
Sec(listing, picky) == SignalsOf(Picked(First(listing), picky))
Rss(listing) == SignalsOf(First(listing))

Normalize(listing, picky) ==
    CASE type = "statuspage" -> Statuspage(listing)
      [] type = "nws" -> Nws(listing)
      [] type = "nvd" -> Nvd(listing)
      [] type = "cisa_kev" -> Cisa(listing, picky)
      [] type = "sec_edgar" -> Sec(listing, picky)
      [] type = "rss" -> Rss(listing)
-------------------------------------------------------------------------------
(* poll_connector *)

Storing(p) == polls[p] # None /\ polls[p].step = "storing"
LoopFree == \A p \in Polls : ~ Storing(p)
Waiting(p, step) == polls[p] # None /\ polls[p].step = step

\* Configuration and cursor are read, and the request is sent.  A connector that is
\* not enabled raises.  In fixture mode a file is the source: it sends no tags, and
\* the connector need not be enabled.
PollBegins(p) ==
    /\ LoopFree /\ polls[p] = None
    /\ config.enabled
    /\ requests' = requests + 1 /\ requests' <= MaxRequests
    /\ polls' = [polls EXCEPT ![p] =
                   [step |-> "asking", picky |-> config.picky, cursor |-> cursor,
                    reply |-> None, fresh |-> {}]]
    /\ blurred' = [blurred EXCEPT !.polls = @ \/ \E q \in Polls : polls[q] # None]
    /\ UNCHANGED <<sourceVars, adapterVars, config, held, cursor, archive, signals,
                   noticed, lost, asked>>

\* The source answers; a tag that still fits is answered with 304.
SourceAnswers(p) ==
    /\ Waiting(p, "asking")
    /\ polls' = [polls EXCEPT
                   ![p].step = IF tagged /\ polls[p].cursor.etag = Listing
                               THEN "unmodified" ELSE "answered",
                   ![p].reply = Listing]
    /\ UNCHANGED <<sourceVars, adapterVars, config, held, cursor, archive, signals,
                   noticed, lost, asked, blurred, requests>>

\* 304: the cursor is written back as it was read.
NotModified(p) ==
    /\ LoopFree /\ Waiting(p, "unmodified")
    /\ cursor' = polls[p].cursor
    /\ polls' = [polls EXCEPT ![p] = None]
    /\ UNCHANGED <<sourceVars, adapterVars, config, held, archive, signals, noticed,
                   lost, asked, blurred, requests>>

\* No answer, a status of 400 or more, an oversized payload: nothing is written.
FetchFails(p) ==
    /\ LoopFree /\ polls[p] # None
    /\ polls' = [polls EXCEPT ![p] = None]
    /\ UNCHANGED <<sourceVars, adapterVars, config, held, cursor, archive, signals,
                   noticed, lost, asked, blurred, requests>>

\* The tag is kept although the payload was not understood.
DriftKeepsTag(p) ==
    /\ LoopFree /\ Waiting(p, "answered")
    /\ archive' = archive \cup {polls[p].reply}
    /\ cursor' = [polls[p].cursor EXCEPT !.etag = Tag(polls[p].reply)]
    /\ polls' = [polls EXCEPT ![p] = None]
    /\ UNCHANGED <<sourceVars, adapterVars, config, held, signals, noticed, lost,
                   asked, blurred, requests>>

\* The payload is archived; a payload the adapter does not understand raises then.
SchemaDrifts(p) ==
    /\ LoopFree /\ Waiting(p, "answered")
    /\ archive' = archive \cup {polls[p].reply}
    /\ polls' = [polls EXCEPT ![p] = None]
    /\ UNCHANGED <<sourceVars, adapterVars, config, held, cursor, signals, noticed,
                   lost, asked, blurred, requests>>

\* The payload is archived, its entries are compared with the cursor the poll read,
\* and the cursor is saved before any signal is.
FetchedFrom(p, artifacts) ==
    LET poll  == polls[p]
        delta == ApplyDelta(Normalize(poll.reply, poll.picky), poll.cursor.seen) IN
    /\ LoopFree /\ Waiting(p, "answered")
    /\ archive' = archive \cup artifacts
    /\ cursor' = [seen |-> delta.seen,
                  etag |-> IF tagged THEN Tag(poll.reply) ELSE poll.cursor.etag,
                  picky |-> poll.picky]
    /\ noticed' = noticed \cup delta.fresh
    /\ polls' = [polls EXCEPT ![p].step = "storing", ![p].fresh = delta.fresh]
    /\ UNCHANGED <<sourceVars, adapterVars, config, held, signals, lost, asked,
                   blurred, requests>>

FetchedUnarchived(p) == FetchedFrom(p, {})

Fetched(p) == FetchedFrom(p, {polls[p].reply})

\* Signals are keyed by event and content: a signal found again is written again.
StoreSignals(p) ==
    /\ Storing(p)
    /\ signals' = [s \in Signals |->
                     IF s \in polls[p].fresh THEN polls[p].reply ELSE signals[s]]
    /\ polls' = [polls EXCEPT ![p] = None]
    /\ UNCHANGED <<sourceVars, adapterVars, config, held, cursor, archive, noticed,
                   lost, asked, blurred, requests>>

\* The process ends and starts again.
Crash ==
    /\ polls' = [p \in Polls |-> None]
    /\ held' = [w \in Workers |-> None]
    /\ lost' = lost \cup UNION {polls[p].fresh : p \in {q \in Polls : Storing(q)}}
    /\ UNCHANGED <<sourceVars, adapterVars, config, cursor, archive, signals, noticed,
                   asked, blurred, requests>>
-------------------------------------------------------------------------------
(* patch_connector, also behind enable and disable *)

\* A patch that starts from what it remembers.
PatchReadsCache(w, change) ==
    /\ held[w] = None
    /\ requests' = requests + 1 /\ requests' <= MaxRequests
    /\ held' = [held EXCEPT ![w] = [copy |-> Created, change |-> change]]
    /\ blurred' = [blurred EXCEPT !.patches = @ \/ \E v \in Workers : held[v] # None]
    /\ UNCHANGED <<sourceVars, adapterVars, config, cursor, polls, archive, signals,
                   noticed, lost, asked>>

PatchReads(w, change) ==
    /\ held[w] = None
    /\ requests' = requests + 1 /\ requests' <= MaxRequests
    /\ held' = [held EXCEPT ![w] = [copy |-> config, change |-> change]]
    /\ blurred' = [blurred EXCEPT !.patches = @ \/ \E v \in Workers : held[v] # None]
    /\ UNCHANGED <<sourceVars, adapterVars, config, cursor, polls, archive, signals,
                   noticed, lost, asked>>

\* Neither the tag nor what was seen is forgotten when the filter changes.
PatchWrites(w) ==
    LET change  == held[w].change
        patched == [field \in DOMAIN config |->
                      IF field \in DOMAIN change THEN change[field] ELSE held[w].copy[field]] IN
    /\ held[w] # None
    /\ config' = patched
    /\ asked' = IF "enabled" \in DOMAIN change THEN change.enabled ELSE asked
    /\ blurred' = [blurred EXCEPT !.filter = @ \/ patched.picky # config.picky]
    /\ held' = [held EXCEPT ![w] = None]
    /\ UNCHANGED <<sourceVars, adapterVars, cursor, polls, archive, signals, noticed, lost,
                   requests>>

\* Creating a connector under an id that exists replaces its configuration.
CreateConnector(enabled) ==
    /\ requests' = requests + 1 /\ requests' <= MaxRequests
    /\ config' = [Created EXCEPT !.enabled = enabled]
    /\ asked' = enabled
    /\ blurred' = [blurred EXCEPT !.patches = @ \/ \E w \in Workers : held[w] # None,
                                 !.filter = @ \/ config.picky]
    /\ UNCHANGED <<sourceVars, adapterVars, held, cursor, polls, archive, signals, noticed,
                   lost>>

Next ==
    \/ \E p \in Polls :
          \/ PollBegins(p) \/ SourceAnswers(p)
          \/ NotModified(p) \/ FetchFails(p) \/ SchemaDrifts(p)
          \/ Fetched(p) \/ StoreSignals(p)
    \/ \E w \in Workers :
          \/ \E change \in Changes : PatchReads(w, change)
          \/ PatchWrites(w)
    \/ \E enabled \in BOOLEAN : CreateConnector(enabled)
    \/ Crash
    \/ Publish /\ UNCHANGED connectorVars
    \/ \E k \in DOMAIN feed : Revise(k) /\ UNCHANGED connectorVars

Spec == Init /\ [][Next]_vars
-------------------------------------------------------------------------------
(* Properties *)

\* Every variable keeps its type, what the polls and the patches in flight hold included.
TypeOK ==
    /\ newestFirst \in BOOLEAN /\ feed \in Listings /\ published \in 0 .. MaxEvents
    /\ type \in Types /\ tagged \in BOOLEAN /\ visible \in BOOLEAN
    /\ config \in Configs
    /\ held \in [Workers -> [copy : Configs, change : Changes] \cup {None}]
    /\ cursor \in Cursors
    /\ polls \in [Polls -> PollRecords \cup {None}]
    /\ archive \in SUBSET Listings
    /\ signals \in [Signals -> Listings \cup {None}]
    /\ noticed \in SUBSET Signals /\ lost \in SUBSET Signals
    /\ asked \in BOOLEAN
    /\ blurred \in [polls : BOOLEAN, patches : BOOLEAN, filter : BOOLEAN]
    /\ requests \in 0 .. MaxRequests

Kept(s) ==
    \/ signals[s] # None
    \/ \E p \in Polls : Storing(p) /\ s \in polls[p].fresh
    \/ s \in lost

\* Suppression hides nothing: whatever the stored cursor suppresses, one by one or,
\* by its tag, a whole payload at a time, is stored, being stored, or was lost by a
\* crash between the cursor and the signals.  The tag vouches only for what passed
\* the filter of the poll that saved it.
CursorIsCovered ==
    \A s \in ToSet(cursor.seen) \cup
             (IF cursor.etag = None THEN {}
              ELSE ToSet(Normalize(cursor.etag, cursor.picky))) : Kept(s)

\* Nothing is repeated as long as polls do not overlap (delta.py:3-4): what a poll
\* finds new or updated no earlier poll did.  The bound can evict what is still
\* listed once more was published than the cursor keeps, if the source lists its
\* newest event first or more than the cursor keeps, or the filter was changed: the
\* promise ends there.
NothingRepeated ==
    [][\A p \in Polls :
          /\ Storing(p)' /\ ~ Storing(p) /\ ~ blurred.polls
          /\ newestFirst \/ FeedLength > Bound \/ blurred.filter => published <= Bound
          => polls[p]'.fresh \cap noticed = {}]_vars

\* A connector that was disabled is not asked again until it is enabled, unless
\* patches overlapped: no copy of the configuration outlives the request it serves.
DisabledStaysSilent ==
    [][(\E p \in Polls : polls[p] = None /\ polls[p]' # None) =>
          asked \/ blurred.patches]_vars

\* Every stored signal names a payload that is archived and lists it, whichever poll
\* stored it last and wherever a crash fell.
SignalsHaveSource ==
    \A s \in Signals :
        signals[s] # None => signals[s] \in archive /\ s \in ToSet(SignalsOf(signals[s]))
=============================================================================
