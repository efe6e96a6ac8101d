------------------------------ MODULE WebClient ------------------------------
(* Browser tabs that show one document and change its record: DocumentPage   *)
(* with the react-query cache of the root layout, which outlives the page    *)
(* when its user goes to other pages of the application and comes back.  The *)
(* document and its list of holds are two queries, fetched apart.  A change  *)
(* names the revision in the cache when it is submitted, and each call, also *)
(* a second attempt, has a new Idempotency-Key, so the ledger passes all of  *)
(* them.  The server, with its variable record, is RecordServer.             *)
EXTENDS RecordServer

CONSTANTS Pages,         \* browser tabs
          Calls,         \* slots for calls under way
          NoPage,
          Initially,     \* statuses the document may start with
          Wanted,        \* statuses the users choose
          MaxChanges,   \* bound: changes explored
          MaxFetches     \* bound: reasons to fetch or to leave a shown page

ASSUME StatusAssumption == Initially \cup Wanted \subseteq Statuses

VARIABLES mounted,  \* tabs that are at the document's page
          cache,    \* what each tab holds of the document, per query
          loaded,   \* the queries of each tab that have data
          marked,   \* those whose data was invalidated, or not fetched again
          fetch,    \* the fetch under way of each tab, per query
          hidden,   \* tabs whose page is an error, or "loading", and no forms
          call,     \* the calls under way
          acked,    \* history: the newest change a tab was told succeeded
          outrun,   \* history: tabs in which that left an older answer alone
          last,     \* history: the last change, as asked for and as found
          fetches   \* number of reasons to fetch or to leave

queryVars == <<cache, loaded, marked, fetch, hidden>>
pageVars == <<record, mounted, queryVars, call, acked, outrun, last, fetches>>

-----------------------------------------------------------------------------

Queries == {"document", "holds"}

Blank == [status |-> "DRAFT", revision |-> 0, holds |-> <<>>]

\* A response carries one part of the document: status and revision, or the
\* holds.
Part(q, d) == IF q = "document" THEN [d EXCEPT !.holds = <<>>]
                                ELSE [Blank EXCEPT !.holds = d.holds]

NoFetch == [phase |-> "idle", found |-> Blank]

\* "page" is the tab that waits for the answer, if there is any; the page that
\* sent the call watches it as long as its user stays.
NoCall == [phase |-> "idle", op |-> "none", page |-> NoPage, watched |-> FALSE,
           expected |-> 0, to |-> "DRAFT", hold |-> 0, shown |-> "DRAFT"]

\* The request may still be on its way when nobody waits for the answer.
Unawaited(m) ==
    IF m.phase = "sent" THEN [m EXCEPT !.page = NoPage, !.watched = FALSE]
                        ELSE NoCall

-----------------------------------------------------------------------------
(* Queries.  One fetch of a query is under way at a time.                    *)

\* A query has an observer that is enabled; holds needs a shown document.
Active(p, q) == p \in mounted /\ (q = "holds" => p \notin hidden)

Stale(p, q) == q \notin loaded[p] \/ q \in marked[p]

Asked == [NoFetch EXCEPT !.phase = "asked"]

Unfetched(p) == {q \in Queries : fetch[p][q].phase = "idle"}

\* Cancels the fetches of the queries qs that are under way and asks again.
Ask(p, qs) ==
    fetch' = [fetch EXCEPT ![p] = [q \in Queries |->
                IF q \in qs THEN Asked ELSE @[q]]]

\* What is read of the document from now on is no longer outrun.
CaughtUp(p, qs) == IF "document" \in qs THEN outrun \ {p} ELSE outrun

\* Bound: a page that shows an error may always try again.
Counted == fetches < MaxFetches /\ fetches' = fetches + 1

\* The window gets the focus, or the network returns, after staleTime.
Refetch(p, q) ==
    /\ Active(p, q) /\ fetch[p][q].phase = "idle"
    /\ IF p \in hidden THEN UNCHANGED fetches ELSE Counted
    /\ Ask(p, {q})
    /\ outrun' = CaughtUp(p, {q})
    /\ UNCHANGED <<record, mounted, cache, loaded, marked, hidden, call, acked,
                   last>>

Read(p, q) ==
    /\ fetch[p][q].phase = "asked"
    /\ fetch' = [fetch EXCEPT ![p][q] = [phase |-> "read", found |-> Part(q, record)]]
    /\ UNCHANGED <<record, mounted, cache, loaded, marked, hidden, call, acked,
                   outrun, last, fetches>>

\* The answer counts as current, whatever was invalidated while it was on its
\* way.  A page that has its document back enables the query of the holds.
Show(p, q) ==
    LET wakes == q = "document" /\ p \in hidden /\ p \in mounted
                 /\ Stale(p, "holds") /\ fetch[p]["holds"].phase = "idle"
    IN
    /\ fetch[p][q].phase = "read"
    /\ cache' = [cache EXCEPT ![p][q] = fetch[p][q].found]
    /\ loaded' = [loaded EXCEPT ![p] = @ \cup {q}]
    /\ marked' = [marked EXCEPT ![p] = @ \ {q}]
    /\ fetch' = [fetch EXCEPT ![p] = [r \in Queries |->
                    IF r = q THEN NoFetch
                    ELSE IF wakes THEN Asked ELSE @[r]]]
    /\ hidden' = IF q = "document" THEN hidden \ {p} ELSE hidden
    /\ UNCHANGED <<record, mounted, call, acked, outrun, last, fetches>>

\* A failed query keeps its data; without the document the page shows nothing.
FetchFails(p, q) ==
    /\ fetch[p][q].phase # "idle"
    /\ fetch' = [fetch EXCEPT ![p][q] = NoFetch]
    /\ marked' = [marked EXCEPT ![p] = @ \cup ({q} \cap loaded[p])]
    /\ hidden' = IF q = "document" THEN hidden \cup {p} ELSE hidden
    /\ UNCHANGED <<record, mounted, cache, loaded, call, acked, outrun, last,
                   fetches>>

-----------------------------------------------------------------------------
(* Navigation. *)

\* A link to another page of the application: DocumentPage is unmounted; the
\* cache, its fetches and its calls live on.
Leave(p) ==
    /\ p \in mounted
    /\ Counted
    /\ mounted' = mounted \ {p}
    /\ call' = [c \in Calls |-> IF call[c].page = p
                                  THEN [call[c] EXCEPT !.watched = FALSE]
                                  ELSE call[c]]
    /\ UNCHANGED <<record, queryVars, acked, outrun, last>>

\* A mounted query is fetched when it has no data or was invalidated, or is
\* older than staleTime, as every other may be.  A fetch under way is joined.
Return(p) ==
    /\ p \notin mounted
    /\ mounted' = mounted \cup {p}
    /\ \E old \in SUBSET loaded[p] :
          LET due == {q \in Unfetched(p) : /\ Stale(p, q) \/ q \in old
                                           /\ q = "holds" => p \notin hidden}
          IN Ask(p, due) /\ outrun' = CaughtUp(p, due)
    /\ UNCHANGED <<record, cache, loaded, marked, hidden, call, acked, last,
                   fetches>>

\* gcTime after its page was left, what is not being fetched is forgotten.
Forget(p, q) ==
    /\ p \notin mounted /\ q \in loaded[p] /\ fetch[p][q].phase = "idle"
    /\ cache' = [cache EXCEPT ![p][q] = Blank]
    /\ loaded' = [loaded EXCEPT ![p] = @ \ {q}]
    /\ marked' = [marked EXCEPT ![p] = @ \ {q}]
    /\ hidden' = IF q = "document" THEN hidden \cup {p} ELSE hidden
    /\ UNCHANGED <<record, mounted, fetch, call, acked, outrun, last, fetches>>

\* Mutant of Reload: there is no state for what is not loaded yet.
ReloadUndefined(p) ==
    /\ Counted
    /\ cache' = [cache EXCEPT ![p] = <<>>]
    /\ hidden' = hidden \cup {p}
    /\ UNCHANGED <<record, mounted, loaded, marked, fetch, call, acked, outrun,
                   last>>

\* The browser loads the document's page: nothing is cached, nothing awaited.
Reload(p) ==
    /\ Counted
    /\ mounted' = mounted \cup {p}
    /\ cache' = [cache EXCEPT ![p] = [q \in Queries |-> Blank]]
    /\ loaded' = [loaded EXCEPT ![p] = {}]
    /\ marked' = [marked EXCEPT ![p] = {}]
    /\ fetch' = [fetch EXCEPT ![p] = [q \in Queries |->
                    IF q = "document" THEN Asked ELSE NoFetch]]
    /\ hidden' = hidden \cup {p}
    /\ acked' = [acked EXCEPT ![p] = 0]
    /\ outrun' = outrun \ {p}
    /\ call' = [c \in Calls |-> IF call[c].page = p
                                  THEN Unawaited(call[c]) ELSE call[c]]
    /\ UNCHANGED <<record, last>>

-----------------------------------------------------------------------------
(* Changes. *)

Pending(p, op) ==
    \E c \in Calls : call[c].page = p /\ call[c].watched /\ call[c].op = op

Submit(c, p, op, to, hold) ==
    /\ call[c].phase = "idle"
    /\ p \in mounted /\ p \notin hidden
    /\ call' = [call EXCEPT ![c] =
         [phase |-> "sent", op |-> op, page |-> p, watched |-> TRUE,
          expected |-> cache[p]["document"].revision, to |-> to, hold |-> hold,
          shown |-> cache[p]["document"].status]]
    /\ UNCHANGED <<record, mounted, queryVars, acked, outrun, last, fetches>>

Shown(p) == cache[p]["holds"].holds

\* The button is disabled while a call is pending or an active hold is shown.
SubmitHold(c, p) ==
    /\ ~Pending(p, "placeHold")
    /\ \A h \in DOMAIN Shown(p) : Shown(p)[h] # "ACTIVE"
    /\ Submit(c, p, "placeHold", "DRAFT", 0)

\* The button of a shown hold is never disabled: it may be pressed twice.
SubmitRelease(c, p) ==
    \E h \in DOMAIN Shown(p) :
        /\ Shown(p)[h] = "ACTIVE"
        /\ Submit(c, p, "releaseHold", "DRAFT", h)

\* The form offers every status, whatever the document's status is.
SubmitStatus(c, p) ==
    /\ ~Pending(p, "changeStatus")
    /\ \E to \in Wanted : Submit(c, p, "changeStatus", to, 0)

Apply(c) ==
    /\ call[c].phase = "sent"
    /\ record.revision < MaxChanges
    /\ Serve(call[c].op, call[c].expected, call[c].hold, call[c].to)
    /\ last' = [shown |-> call[c].shown, found |-> record.status]
    /\ call' = [call EXCEPT ![c] =
         IF call[c].page = NoPage THEN NoCall
                                  ELSE [call[c] EXCEPT !.phase = "done"]]
    /\ UNCHANGED <<mounted, queryVars, acked, outrun, fetches>>

\* A conflict, a denial, a failure: nothing is changed, the page shows the
\* error, and nothing is fetched again.
Reject(c) ==
    /\ call[c].phase = "sent"
    /\ call' = [call EXCEPT ![c] = NoCall]
    /\ UNCHANGED <<record, mounted, queryVars, acked, outrun, last, fetches>>

\* The connection is lost: the page is told of an error, and the request may
\* be on its way to the server nevertheless, or have been handled.
LoseAnswer(c) ==
    /\ call[c].page # NoPage
    /\ call' = [call EXCEPT ![c] = Unawaited(@)]
    /\ UNCHANGED <<record, mounted, queryVars, acked, outrun, last, fetches>>

\* Mutant of Invalidated: after a release only the holds are fetched again.
InvalidatedHoldsOnly(op) ==
    IF op = "releaseHold" THEN {"holds"}
    ELSE IF op = "changeStatus" THEN {"document"} ELSE Queries

Invalidated(op) == IF op = "changeStatus" THEN {"document"} ELSE Queries

\* onSuccess runs also when the page is gone.  The queries are marked, and
\* those of a page that is there are fetched again; a fetch under way is
\* cancelled only when its query has data, and joined otherwise.
Succeed(c) ==
    LET p == call[c].page
        qs == Invalidated(call[c].op)
        again == {q \in qs \cap (loaded[p] \cup Unfetched(p)) : Active(p, q)}
    IN
    /\ call[c].phase = "done"
    /\ marked' = [marked EXCEPT ![p] = @ \cup (qs \cap loaded[p])]
    /\ Ask(p, again)
    /\ outrun' = IF fetch'[p]["document"].phase = "read" THEN outrun \cup {p}
                                                        ELSE CaughtUp(p, again)
    /\ acked' = [acked EXCEPT ![p] = IF @ > call[c].expected
                                       THEN @ ELSE call[c].expected + 1]
    /\ call' = [call EXCEPT ![c] = NoCall]
    /\ UNCHANGED <<record, mounted, cache, loaded, hidden, last, fetches>>

-----------------------------------------------------------------------------

PagesInit ==
    /\ record \in [status : Initially, revision : {0}, holds : {<<>>}]
    /\ mounted = Pages
    /\ cache = [p \in Pages |-> [q \in Queries |-> Part(q, record)]]
    /\ loaded = [p \in Pages |-> Queries]
    /\ marked = [p \in Pages |-> {}]
    /\ fetch = [p \in Pages |-> [q \in Queries |-> NoFetch]]
    /\ hidden = {}
    /\ call = [c \in Calls |-> NoCall]
    /\ acked = [p \in Pages |-> 0]
    /\ outrun = {}
    /\ last = [shown |-> "DRAFT", found |-> "DRAFT"]
    /\ fetches = 0

PageStep(p) ==
    \/ Leave(p) \/ Return(p) \/ Reload(p)
    \/ \E q \in Queries : \/ Refetch(p, q) \/ Read(p, q) \/ Show(p, q)
                          \/ FetchFails(p, q) \/ Forget(p, q)
    \/ \E c \in Calls :
          SubmitHold(c, p) \/ SubmitRelease(c, p) \/ SubmitStatus(c, p)

CallStep(c) ==
    Apply(c) \/ Reject(c) \/ LoseAnswer(c) \/ Succeed(c)

PagesNext == (\E p \in Pages : PageStep(p)) \/ (\E c \in Calls : CallStep(c))

PagesSpec == PagesInit /\ [][PagesNext]_pageVars

-----------------------------------------------------------------------------
(* Properties. *)

PagesTypeOK ==
    /\ record \in Documents
    /\ mounted \subseteq Pages
    /\ cache \in [Pages -> [Queries -> Documents]]
    /\ loaded \in [Pages -> SUBSET Queries]
    /\ marked \in [Pages -> SUBSET Queries]
    /\ fetch \in [Pages -> [Queries ->
                    [phase : {"idle", "asked", "read"}, found : Documents]]]
    /\ hidden \subseteq Pages
    /\ call \in [Calls ->
          [phase : {"idle", "sent", "done"}, op : Operations,
           page : Pages \cup {NoPage}, watched : BOOLEAN, expected : Nat, to : Statuses,
           hold : Nat, shown : Statuses]]
    /\ acked \in [Pages -> Nat]
    /\ outrun \subseteq Pages
    /\ last \in [shown : Statuses, found : Statuses]
    /\ fetches \in Nat

\* A change is made to the very document its user looked at when the button
\* was pressed.  Calls may arrive late, after their page gave them up and the
\* user tried again with a new key, and a release may be pressed twice.  The
\* second part is what RecordLifecycle assumes of its clients: no call names
\* a revision that the document has not had yet.
ActsOnWhatWasShown ==
    /\ last.shown = last.found
    /\ \A c \in Calls :
          call[c].phase # "idle" => call[c].expected <= record.revision

\* A page that was told its change succeeded goes on to show a document that
\* has it, also if older responses were on their way at the time, and after its
\* user went away and came back.  There is one way out: a response that no
\* invalidation can cancel, because its page was left or had no data yet,
\* arrives after the success and passes for current until the next fetch.
OwnChangesAreShown ==
    \A p \in mounted \ (hidden \cup outrun) :
        fetch[p]["document"].phase = "idle" =>
            cache[p]["document"].revision >= acked[p]

=============================================================================
