------------------------------- MODULE Router -------------------------------
(***************************************************************************)
(* The client router (krab_client/src/router.rs): one tab, its session     *)
(* history, the document it shows and the navigations in flight.           *)
(*                                                                         *)
(* JavaScript runs to completion, so a step is what a handler does between *)
(* two awaits: an event together with navigate_to up to its fetch, or the  *)
(* arrival of a fetch together with the rest of navigate_to.               *)
(*                                                                         *)
(* A URL is a page and whether it carries a fragment.  `response.url` has  *)
(* none.  The browser (session history, document loads, popstate between   *)
(* entries of one document) is external and modelled from how router.rs    *)
(* uses it; a hard navigation always loads the document.                   *)
(*                                                                         *)
(* Scroll positions, focus and the live region are left out.               *)
(*                                                                         *)
(* `asked` and `drift` are history variables: the destination asked for    *)
(* last, and what has happened that excuses a property.                    *)
(***************************************************************************)
EXTENDS Integers, Sequences, FiniteSets

CONSTANTS
    Pages,      \* pages of the site
    Outlets,    \* ... whose document has a router outlet
    Redirects,  \* the pages the server may answer with, for each page
    Links,      \* destinations of the links on screen
    FirstPage,  \* the page the tab is opened on
    MaxEvents   \* bound: events (clicks, traversals, reloads, calls...) in a behaviour

Urls == [page : Pages, frag : BOOLEAN]
NoPage == "no page"
NoUrl == [page |-> NoPage, frag |-> FALSE]

ASSUME RouterAssumption ==
    /\ Outlets \subseteq Pages
    /\ Redirects \in [Pages -> SUBSET Pages]
    /\ Links \subseteq Urls
    /\ FirstPage \in Redirects[FirstPage]
    /\ FirstPage \in Pages
    /\ MaxEvents \in Nat
    /\ NoPage \notin Pages

VARIABLES
    history,     \* session history: the URL and the document of every entry
    pos,         \* the entry in the address bar
    shown,       \* the page whose content is on screen
    rendered,    \* RENDERED_URL
    generation,  \* NAVIGATION
    docs,        \* documents loaded so far
    tasks,       \* navigations awaiting their fetch
    leaving,     \* where location.assign is taking the tab
    asked,       \* the destination asked for last
    drift,       \* what excuses a property
    events       \* events so far

routerVars == <<history, pos, shown, rendered, generation, docs, tasks,
                leaving, asked, drift, events>>

Entries == [url : Urls, doc : Nat]
Tasks == [gen : Nat, href : Urls, push : BOOLEAN]
Drifts == {"jump", "redirected", "reloaded", "overtaken"}

RouterTypeOK ==
    /\ history \in Seq(Entries)
    /\ pos \in 1..Len(history)
    /\ shown \in Pages
    /\ rendered \in Urls \cup {NoUrl}
    /\ generation \in Nat
    /\ docs \in Nat
    /\ tasks \subseteq Tasks
    /\ leaving \in Urls \cup {NoUrl}
    /\ asked \in Urls
    /\ drift \subseteq Drifts
    /\ events \in Nat

Plain(p) == [page |-> p, frag |-> FALSE]
Entry(u, d) == [url |-> u, doc |-> d]

RouterInit ==
    /\ history = <<Entry(Plain(FirstPage), 0)>>
    /\ pos = 1
    /\ shown = FirstPage
    /\ rendered = NoUrl
    /\ generation = 0
    /\ docs = 0
    /\ tasks = {}
    /\ leaving = NoUrl
    /\ asked = Plain(FirstPage)
    /\ drift = {}
    /\ events = 0

-----------------------------------------------------------------------------
Address == history[pos].url

\* `next` has a `#` and is otherwise the same URL.
is_same_document_fragment(current, next) == current.page = next.page /\ next.frag

\* What the outlet's content came from: the address bar before the first
\* client navigation.
rendered_url(address) == IF rendered = NoUrl THEN address ELSE rendered

\* No navigation is ever superseded.
always_current(g) == TRUE

is_current(g) == g = generation

\* A new entry of the same document; the entries ahead are lost.  Pages are of
\* one origin, so that the fallback for a URL that pushState refuses is left out.
push_history(u) ==
    /\ history' = Append(SubSeq(history, 1, pos), Entry(u, history[pos].doc))
    /\ pos' = pos + 1

Excused(what, happened) == drift \cup (IF happened THEN {what} ELSE {})

\* Back or Forward is being fetched.
Returning == \E t \in tasks : is_current(t.gen) /\ ~t.push

Event == events < MaxEvents /\ events' = events + 1

-----------------------------------------------------------------------------
(* navigate_to, as far as its first await.                                 *)

\* A navigation to another page of a document that has an outlet claims a
\* generation and fetches; without an outlet the browser is sent there.
Depart(href, push) ==
    /\ asked' = href
    /\ \/ /\ shown \in Outlets
          /\ drift' = Excused("overtaken", leaving # NoUrl)
          /\ generation' = generation + 1
          /\ tasks' = tasks \cup {[gen |-> generation + 1, href |-> href, push |-> push]}
          /\ UNCHANGED leaving
       \/ /\ shown \notin Outlets
          /\ leaving' = href
          /\ UNCHANGED <<generation, tasks, drift>>

\* A click on a link to a place in the page on screen: no fetch, no generation.
ClickFragment(href) ==
    /\ Event
    /\ is_same_document_fragment(rendered_url(Address), href)
    /\ rendered' = href
    /\ push_history(href)
    /\ drift' = Excused("jump", Returning)
    /\ UNCHANGED <<shown, generation, docs, tasks, leaving, asked>>

ClickAway(href) ==
    /\ Event
    /\ ~is_same_document_fragment(rendered_url(Address), href)
    /\ Depart(href, TRUE)
    /\ UNCHANGED <<history, pos, shown, rendered, docs>>

\* Back and Forward within the document: the address bar has moved before
\* the popstate listener runs.
TraverseFragment(i) ==
    /\ Event
    /\ i # pos
    /\ history[i].doc = history[pos].doc
    /\ is_same_document_fragment(rendered_url(history[i].url), history[i].url)
    /\ pos' = i
    /\ rendered' = history[i].url
    /\ drift' = Excused("jump", Returning) \cup Excused("reloaded", rendered = NoUrl)
    /\ UNCHANGED <<history, shown, generation, docs, tasks, leaving, asked>>

TraverseAway(i) ==
    /\ Event
    /\ i # pos
    /\ history[i].doc = history[pos].doc
    /\ ~is_same_document_fragment(rendered_url(history[i].url), history[i].url)
    /\ pos' = i
    /\ Depart(history[i].url, FALSE)
    /\ UNCHANGED <<history, shown, rendered, docs>>

-----------------------------------------------------------------------------
(* navigate_to, from the arrival of the fetched document.                  *)

Finish(t) == tasks' = tasks \ {t}

\* A failed fetch, or a destination without an outlet: the browser goes there.
HardNavigate(t) ==
    /\ is_current(t.gen)
    /\ Finish(t)
    /\ leaving' = t.href
    /\ UNCHANGED <<history, pos, shown, rendered, generation, docs, asked, drift, events>>

\* A newer navigation has started: this one gives up.
Abandon(t) ==
    /\ ~is_current(t.gen)
    /\ Finish(t)
    /\ UNCHANGED <<history, pos, shown, rendered, generation, docs, leaving, asked, drift,
                   events>>

\* RENDERED_URL is not brought up to date.
SwapUnrecorded(t, final) ==
    /\ is_current(t.gen)
    /\ final \in Redirects[t.href.page] \cap Outlets
    /\ shown \in Outlets
    /\ Finish(t)
    /\ shown' = final
    /\ \/ t.push /\ push_history(Plain(final)) /\ UNCHANGED drift
       \/ /\ ~t.push
          /\ UNCHANGED <<history, pos>>
          /\ drift' = Excused("redirected", final # t.href.page)
    /\ UNCHANGED <<rendered, generation, docs, leaving, asked, events>>

\* The outlet takes the content that the server answered with.
Swap(t, final) ==
    /\ is_current(t.gen)
    /\ final \in Redirects[t.href.page] \cap Outlets
    /\ shown \in Outlets
    /\ Finish(t)
    /\ shown' = final
    /\ rendered' = Plain(final)
    /\ \/ /\ t.push
          /\ push_history(Plain(final))
          /\ UNCHANGED drift
       \/ /\ ~t.push
          /\ UNCHANGED <<history, pos>>
          /\ drift' = Excused("redirected", final # t.href.page)
    /\ UNCHANGED <<generation, docs, leaving, asked, events>>

-----------------------------------------------------------------------------
(* The browser loads a document: the program starts afresh.                *)

Fresh(final) ==
    /\ shown' = final
    /\ rendered' = NoUrl
    /\ generation' = 0
    /\ tasks' = {}
    /\ leaving' = NoUrl

\* location.assign commits: the entry is replaced when it names the same URL.
Load(final) ==
    /\ leaving # NoUrl
    /\ final \in Redirects[leaving.page]
    /\ Fresh(final)
    /\ LET e == Entry([leaving EXCEPT !.page = final], docs + 1)
       IN  IF leaving = Address
           THEN history' = [history EXCEPT ![pos] = e] /\ pos' = pos
           ELSE history' = Append(SubSeq(history, 1, pos), e) /\ pos' = pos + 1
    /\ docs' = docs + 1
    /\ UNCHANGED <<asked, drift, events>>

\* The user reloads, or goes Back or Forward to an entry of another document.
Reload(i, final) ==
    /\ Event
    /\ i = pos \/ history[i].doc # history[pos].doc
    /\ final \in Redirects[history[i].url.page]
    /\ Fresh(final)
    /\ history' = [history EXCEPT ![i].url.page = final]
    /\ pos' = i
    /\ asked' = history[i].url
    /\ UNCHANGED <<docs, drift>>

-----------------------------------------------------------------------------
\* No navigation is going to change what is on screen.
Settled == leaving = NoUrl /\ \A t \in tasks : ~is_current(t.gen)

\* Once the navigations have settled, the address bar names the page on
\* screen - unless a fragment was jumped to while Back was being fetched,
\* Back was answered with a redirect, or a traversal right after a reload
\* led to a URL with a fragment (router.rs, RENDERED_URL).
AddressAgrees ==
    Settled => \/ Address.page = shown
               \/ drift \cap {"jump", "redirected", "reloaded"} # {}

\* However the fetches overlap, fail or are redirected, the page left on
\* screen answers the navigation asked for last - unless it was asked for
\* while the browser was already leaving the document (router.rs,
\* NAVIGATION: two fast clicks leave the second one's page on screen).
LatestWins ==
    Settled => shown \in Redirects[asked.page] \/ "overtaken" \in drift
=============================================================================
