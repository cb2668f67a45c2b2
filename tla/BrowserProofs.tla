--------------------------- MODULE BrowserProofs ----------------------------
(***************************************************************************)
(* Safety of the browser client for any pages, links, redirects and        *)
(* inputs, however navigations and calls overlap.                          *)
(*                                                                         *)
(* Each component's variables are changed by its own actions alone, so its *)
(* invariant is preserved by RouterNext or GuardedNext, which every step   *)
(* of the client implements.                                               *)
(***************************************************************************)
EXTENDS Browser, TLAPS

\* What a step does to the router's variables ...
RouterNext ==
    \/ \E u \in Links : ClickFragment(u) \/ ClickAway(u)
    \/ \E i \in DOMAIN history : TraverseFragment(i) \/ TraverseAway(i)
    \/ \E t \in tasks : HardNavigate(t) \/ Abandon(t)
    \/ \E t \in tasks, final \in Pages : Swap(t, final)
    \/ \E final \in Pages : Load(final)
    \/ \E i \in DOMAIN history, final \in Pages : Reload(i, final)
    \/ /\ UNCHANGED <<history, pos, shown, rendered, generation, docs, tasks, leaving,
                      asked, drift>>
       /\ Event \/ UNCHANGED events

\* ... and to those of the call that the island holds.
GuardedNext ==
    \/ CreateAction
    \/ CreateResource
    \/ CreateSeeded
    \/ \E x \in Inputs : Ask(x) \/ FactoryPanics(x)
    \/ \E r \in runs, ok \in BOOLEAN : Complete(r, ok)
    \/ \E r \in runs : PollTraps(r)
    \/ UNCHANGED guardedVars

-----------------------------------------------------------------------------
(* Guarded                                                                 *)

\* Generations number the runs, and the run of the latest one has the input
\* asked for last.
RunsNumbered ==
    /\ runGen \in Nat
    /\ \A r \in runs :
        /\ r.gen \in Nat
        /\ r.gen <= runGen
        /\ r.gen = runGen => r.input = wanted
    /\ \A r, s \in runs : r.gen = s.gen => r = s

GuardedInv == GuardedTypeOK /\ RunsNumbered /\ ShowsLatest

-----------------------------------------------------------------------------
(* Router                                                                  *)

Numbered ==
    /\ \A t \in tasks : t.gen <= generation
    /\ \A t, s \in tasks : t.gen = s.gen => t = s
    /\ tasks # {} => shown \in Outlets

\* The address is the one that Back asked for, and what was rendered is on
\* screen once nothing is in flight.
AddressKept ==
    \/ drift \cap {"jump", "redirected", "reloaded"} # {}
    \/ /\ \A t \in tasks : is_current(t.gen) /\ ~t.push => t.href.page = Address.page
       /\ Settled => Address.page = shown /\ (rendered # NoUrl => rendered.page = shown)

\* What is in flight is what was asked for last.
AskedKept ==
    \/ "overtaken" \in drift
    \/ /\ \A t \in tasks : is_current(t.gen) => t.href = asked
       /\ leaving # NoUrl => leaving = asked
       /\ Settled => shown \in Redirects[asked.page]

RouterInv == RouterTypeOK /\ Numbered /\ AddressKept /\ AskedKept

-----------------------------------------------------------------------------
(* Hydration                                                               *)

OneMounted ==
    /\ hydrations \in Nat
    /\ mounted \in 0..hydrations
    /\ owners \subseteq 1..hydrations
    /\ adrift \subseteq 1..hydrations
    /\ mounted # 0 => boundary = "ok"

IslandInv == OneMounted /\ NoOrphans

IInv == RouterInv /\ GuardedInv /\ IslandInv

-----------------------------------------------------------------------------

\* Every step of the client is one of the components' steps.
LEMMA StepsAreComponents == [Next]_vars => RouterNext /\ GuardedNext
<1> SUFFICES ASSUME [Next]_vars PROVE RouterNext /\ GuardedNext
    OBVIOUS
<1>1. ASSUME NEW u \in Links, (ClickFragment(u) \/ ClickAway(u)) /\ Alone
      PROVE  RouterNext /\ GuardedNext
    BY <1>1 DEF RouterNext, GuardedNext, Alone
<1>2. ASSUME NEW i \in DOMAIN history, (TraverseFragment(i) \/ TraverseAway(i)) /\ Alone
      PROVE  RouterNext /\ GuardedNext
    BY <1>2 DEF RouterNext, GuardedNext, Alone
<1>3. ASSUME NEW page, CreateIsland(page) \/ NoIsland
      PROVE  GuardedNext
    BY <1>3 DEF GuardedNext, CreateIsland, NoIsland
<1>4. ASSUME NEW page, NEW n, NEW kept, NEW gone, NEW left,
             HydrateBoundary(page, n, kept, gone, left)
      PROVE  GuardedNext
    BY <1>3, <1>4 DEF HydrateBoundary
<1>5. ASSUME NEW t \in tasks, Arrive(t)
      PROVE  RouterNext /\ GuardedNext
    <2>1. CASE (HardNavigate(t) \/ Abandon(t)) /\ Alone
        BY <2>1 DEF RouterNext, GuardedNext, Alone
    <2>2. ASSUME NEW final \in Pages, SwapOutlet(t, final)
          PROVE  RouterNext /\ GuardedNext
        <3>1. RouterNext
            BY <2>2 DEF SwapOutlet, RouterNext
        <3>2. GuardedNext
            BY <1>4, <2>2 DEF SwapOutlet
        <3> QED
            BY <3>1, <3>2
    <2> QED
        BY <1>5, <2>1, <2>2 DEF Arrive
<1>6. ASSUME NEW final \in Pages, Load(final) /\ NewDocument
      PROVE  RouterNext /\ GuardedNext
    BY <1>3, <1>6 DEF RouterNext, NewDocument
<1>7. ASSUME NEW i \in DOMAIN history, NEW final \in Pages, Reload(i, final) /\ NewDocument
      PROVE  RouterNext /\ GuardedNext
    BY <1>3, <1>7 DEF RouterNext, NewDocument
<1>8. CASE Hydrate
    BY <1>4, <1>8 DEF Hydrate, RouterNext, routerVars
<1>9. CASE Unmount
    BY <1>3, <1>9 DEF Unmount, RouterNext
<1>10. ASSUME NEW x \in Inputs, Call(x)
       PROVE  RouterNext /\ GuardedNext
    BY <1>10 DEF Call, RouterNext, GuardedNext, routerVars
<1>11. ASSUME NEW r \in runs, Return(r)
       PROVE  RouterNext /\ GuardedNext
    BY <1>11 DEF Return, RouterNext, GuardedNext, routerVars
<1>12. ASSUME NEW n \in adrift, LateAnswer(n)
       PROVE  RouterNext /\ GuardedNext
    BY <1>12 DEF LateAnswer, RouterNext, GuardedNext, routerVars
<1>13. ASSUME NEW a \in DOMAIN region.inner, NEW m \in NestedRuns, NestedRenders(a, m)
       PROVE  RouterNext /\ GuardedNext
    BY <1>13 DEF NestedRenders, RouterNext, GuardedNext
<1>14. CASE UNCHANGED vars
    BY <1>14 DEF vars, RouterNext, GuardedNext, routerVars
<1> QED
    BY <1>1, <1>2, <1>5, <1>6, <1>7, <1>8, <1>9, <1>10, <1>11, <1>12, <1>13, <1>14 DEF Next

-----------------------------------------------------------------------------

\* Answers of superseded runs change nothing; the run of the latest call is the
\* one that the spinner stands for.
LEMMA GuardedStep == GuardedInv /\ GuardedNext => GuardedInv'
<1> SUFFICES ASSUME GuardedInv, GuardedNext PROVE GuardedInv'
    OBVIOUS
<1> USE GuardedAssumption DEF GuardedTypeOK
<1>0. GuardedTypeOK /\ RunsNumbered /\ ShowsLatest
    BY DEF GuardedInv
<1>1. CASE CreateAction \/ CreateSeeded
    <2>1. GuardedTypeOK'
        <3>1. runs' = {} /\ pending' = FALSE /\ failed' = FALSE /\ lost' = FALSE
            BY <1>1 DEF CreateAction, CreateSeeded
        <3>2. pending' \in BOOLEAN /\ failed' \in BOOLEAN /\ lost' \in BOOLEAN
            BY <3>1
        <3>3. runGen' \in Nat /\ value' \in Inputs \cup {NoInput}
              /\ wanted' \in Inputs \cup {NoInput}
            BY <1>1 DEF CreateAction, CreateSeeded
        <3> QED
            BY <3>1, <3>2, <3>3
    <2>2. RunsNumbered' /\ ShowsLatest'
        BY <1>1 DEF RunsNumbered, ShowsLatest, CreateAction, CreateSeeded
    <2> QED
        BY <2>1, <2>2 DEF GuardedInv
<1>2. CASE CreateResource
    <2>1. runs' = {[gen |-> 1, input |-> FirstInput]} /\ runGen' = 1 /\ wanted' = FirstInput
        BY <1>2 DEF CreateResource
    <2>2. GuardedTypeOK'
        <3>1. pending' = TRUE /\ failed' = FALSE /\ lost' = FALSE /\ value' = NoInput
            BY <1>2 DEF CreateResource
        <3>2. pending' \in BOOLEAN /\ failed' \in BOOLEAN /\ lost' \in BOOLEAN
            BY <3>1
        <3>3. runGen' \in Nat /\ runs' \subseteq [gen : Nat, input : Inputs]
            BY <2>1
        <3> QED
            BY <2>1, <3>1, <3>2, <3>3
    <2>3. RunsNumbered'
        BY <2>1 DEF RunsNumbered
    <2>4. ShowsLatest'
        <3>1. [gen |-> 1, input |-> FirstInput].gen = runGen' /\ pending'
            BY <1>2, <2>1 DEF CreateResource
        <3> QED
            BY <2>1, <3>1 DEF ShowsLatest
    <2> QED
        BY <2>2, <2>3, <2>4 DEF GuardedInv
<1>3. ASSUME NEW x \in Inputs, Ask(x)
      PROVE  GuardedInv'
    <2> DEFINE new == [gen |-> runGen + 1, input |-> x]
    <2>1. GuardedTypeOK'
        <3>1. runs' \subseteq [gen : Nat, input : Inputs]
            BY <1>0, <1>3 DEF Ask
        <3> QED
            BY <1>0, <1>3, <3>1 DEF Ask
    <2>2. RunsNumbered'
        BY <1>0, <1>3 DEF Ask, RunsNumbered
    <2>3. ShowsLatest'
        <3>1. new \in runs' /\ new.gen = runGen'
            BY <1>3 DEF Ask
        <3> QED
            BY <1>3, <3>1 DEF Ask, ShowsLatest
    <2> QED
        BY <2>1, <2>2, <2>3 DEF GuardedInv
<1>4. ASSUME NEW x \in Inputs, FactoryPanics(x)
      PROVE  GuardedInv'
    <2>1. GuardedTypeOK' /\ RunsNumbered'
        BY <1>0, <1>4 DEF FactoryPanics, RunsNumbered
    <2>2. ShowsLatest'
        BY <1>0, <1>4 DEF FactoryPanics, RunsNumbered, ShowsLatest
    <2> QED
        BY <2>1, <2>2 DEF GuardedInv
<1>5. ASSUME NEW r \in runs, NEW ok \in BOOLEAN, Complete(r, ok)
      PROVE  GuardedInv'
    <2>1. GuardedTypeOK' /\ RunsNumbered'
        <3>1. CASE r.gen # runGen
            BY <1>0, <1>5, <3>1 DEF Complete, RunsNumbered
        <3>2. CASE r.gen = runGen
            BY <1>0, <1>5, <3>2 DEF Complete, RunsNumbered
        <3> QED
            BY <3>1, <3>2
    <2>2. CASE r.gen # runGen
        <3>1. \A s \in runs : s.gen = runGen => s \in runs'
            BY <1>5, <2>2 DEF Complete
        <3> QED
            BY <1>0, <1>5, <2>1, <2>2, <3>1 DEF Complete, ShowsLatest, GuardedInv
    <2>3. CASE r.gen = runGen
        <3>1. \A s \in runs' : s.gen # runGen'
            BY <1>0, <1>5, <2>3 DEF Complete, RunsNumbered
        <3>2. ok \/ failed'
            BY <1>5, <2>3 DEF Complete
        <3>3. ok => value' = wanted'
            BY <1>0, <1>5, <2>3 DEF Complete, RunsNumbered
        <3>4. ~pending'
            BY <1>5, <2>3 DEF Complete
        <3> QED
            BY <2>1, <3>1, <3>2, <3>3, <3>4 DEF ShowsLatest, GuardedInv
    <2> QED
        BY <2>2, <2>3
<1>6. ASSUME NEW r \in runs, PollTraps(r)
      PROVE  GuardedInv'
    <2>1. GuardedTypeOK' /\ RunsNumbered'
        BY <1>0, <1>6 DEF PollTraps, RunsNumbered
    <2>2. CASE r.gen = runGen
        <3>1. lost'
            BY <1>6, <2>2 DEF PollTraps
        <3>2. \A s \in runs' : s.gen # runGen'
            BY <1>0, <1>6, <2>2 DEF PollTraps, RunsNumbered
        <3> QED
            BY <2>1, <3>1, <3>2 DEF ShowsLatest, GuardedInv
    <2>3. CASE r.gen # runGen
        <3>1. \A s \in runs : s.gen = runGen => s \in runs'
            BY <1>6, <2>3 DEF PollTraps
        <3>2. lost' = lost
            BY <1>0, <1>6, <2>3 DEF PollTraps
        <3> QED
            BY <1>0, <1>6, <2>1, <3>1, <3>2 DEF PollTraps, ShowsLatest, GuardedInv
    <2> QED
        BY <2>2, <2>3
<1>7. CASE UNCHANGED guardedVars
    BY <1>0, <1>7 DEF guardedVars, GuardedInv, RunsNumbered, ShowsLatest
<1> QED
    BY <1>1, <1>2, <1>3, <1>4, <1>5, <1>6, <1>7 DEF GuardedNext

-----------------------------------------------------------------------------

\* A hydration registers under its own number, over what is still registered.
LEMMA HydrateStep ==
    ASSUME IslandInv, NEW page, NEW kept, NEW gone, NEW left,
           HydrateBoundary(page, hydrations + 1, kept, gone, left),
           kept \subseteq owners, kept \subseteq trapped \cup late, gone \subseteq 1..hydrations
    PROVE  IslandInv'
<1> DEFINE n == hydrations + 1
<1>1. /\ hydrations' = n /\ late' = late
      /\ n \in Nat /\ n # 0 /\ n \in 1..n
      /\ kept \subseteq 1..n /\ gone \subseteq 1..n
    BY DEF HydrateBoundary, IslandInv, OneMounted
<1> HIDE DEF n
<1>2. adrift' \subseteq 1..n
    BY <1>1 DEF HydrateBoundary, n
<1>3. CASE boundary' = "ok" /\ mounted' = n /\ owners' = kept \cup {n} /\ trapped' = trapped
    BY <1>1, <1>2, <1>3 DEF IslandInv, OneMounted, NoOrphans
<1>4. CASE mounted' = 0 /\ owners' \subseteq kept /\ trapped' = trapped
    BY <1>1, <1>2, <1>4 DEF IslandInv, OneMounted, NoOrphans
<1>5. CASE mounted' = 0 /\ owners' = kept \cup {n} /\ trapped' = trapped \cup {n}
    BY <1>1, <1>2, <1>5 DEF IslandInv, OneMounted, NoOrphans
<1> QED
    BY <1>3, <1>4, <1>5 DEF HydrateBoundary, n

\* Whatever leaves the screen is released, or has an effect that may register
\* it once more.
LEMMA IslandStep == IslandInv /\ [Next]_vars => IslandInv'
<1> SUFFICES ASSUME IslandInv, [Next]_vars PROVE IslandInv'
    OBVIOUS
<1>1. CASE UNCHANGED islandVars
    BY <1>1 DEF islandVars, IslandInv, OneMounted, NoOrphans
<1>2. CASE Hydrate
    <2>1. owners \subseteq trapped \cup late /\ adrift \subseteq 1..hydrations
        BY <1>2 DEF Hydrate, boundary_is_hydrated, IslandInv, OneMounted, NoOrphans
    <2> QED
        BY <1>2, <2>1, HydrateStep DEF Hydrate
<1>3. Surviving \subseteq 1..hydrations
    <2>1. {mounted} \ {0} \subseteq 1..hydrations /\ adrift \subseteq 1..hydrations
        BY DEF IslandInv, OneMounted
    <2> QED
        BY <2>1 DEF Surviving
<1>4. CASE Unmount
    <2>1. /\ owners' = Unmounted /\ mounted' = 0 /\ adrift' = Surviving
          /\ UNCHANGED <<hydrations, trapped, late>>
        BY <1>4 DEF Unmount
    <2>2. owners' \subseteq owners /\ owners' \subseteq trapped \cup late
        BY <2>1 DEF Unmounted, IslandInv, NoOrphans
    <2>3. NoOrphans'
        BY <2>1, <2>2 DEF NoOrphans
    <2>4. hydrations \in Nat /\ owners \subseteq 1..hydrations
        BY DEF IslandInv, OneMounted
    <2>5. OneMounted'
        BY <1>3, <2>1, <2>2, <2>4 DEF OneMounted
    <2> QED
        BY <2>3, <2>5 DEF IslandInv
<1>5. ASSUME NEW t \in tasks, NEW final \in Pages, SwapOutlet(t, final)
      PROVE  IslandInv'
    <2>1. Unmounted \subseteq owners /\ Unmounted \subseteq trapped \cup late
        BY DEF Unmounted, IslandInv, NoOrphans
    <2> QED
        BY <1>3, <1>5, <2>1, HydrateStep DEF SwapOutlet
<1>6. CASE NewDocument
    BY <1>6 DEF NewDocument, IslandInv, OneMounted, NoOrphans
<1>7. ASSUME NEW n \in adrift, LateAnswer(n)
      PROVE  IslandInv'
    BY <1>7 DEF LateAnswer, IslandInv, OneMounted, NoOrphans
<1> QED
    BY <1>1, <1>2, <1>4, <1>5, <1>6, <1>7
    DEF Next, Alone, Arrive, Call, Return, NestedRenders, vars

-----------------------------------------------------------------------------

\* Every entry of the session history has a URL and a document.
LEMMA EntryTyped ==
    ASSUME RouterTypeOK, NEW i \in DOMAIN history
    PROVE  /\ i \in 1..Len(history)
           /\ history[i] \in Entries
           /\ history[i].url \in Urls
           /\ history[i].doc \in Nat
<1>1. i \in 1..Len(history) /\ history[i] \in Entries
    BY DEF RouterTypeOK
<1> QED
    BY <1>1 DEF Entries

\* A pushed entry comes right after the one in the address bar.
LEMMA Pushed ==
    ASSUME RouterTypeOK, NEW u \in Urls, NEW d \in Nat,
           NEW h, h = Append(SubSeq(history, 1, pos), Entry(u, d))
    PROVE  h \in Seq(Entries) /\ Len(h) = pos + 1 /\ h[pos + 1].url = u
<1>1. Entry(u, d) \in Entries /\ Entry(u, d).url = u
    BY DEF Entry, Entries
<1>2. SubSeq(history, 1, pos) \in Seq(Entries) /\ Len(SubSeq(history, 1, pos)) = pos
    BY DEF RouterTypeOK
<1> QED
    BY <1>1, <1>2

\* A load of an entry keeps its place.
LEMMA Replaced ==
    ASSUME RouterTypeOK, NEW i \in 1..Len(history), NEW e \in Entries,
           NEW h, h = [history EXCEPT ![i] = e]
    PROVE  h \in Seq(Entries) /\ Len(h) = Len(history) /\ h[i] = e
BY DEF RouterTypeOK

\* A reload puts the page that the server answered with into its entry.
LEMMA Reloaded ==
    ASSUME RouterTypeOK, NEW i \in DOMAIN history, NEW final \in Pages, Reload(i, final)
    PROVE  /\ history' \in Seq(Entries)
           /\ Len(history') = Len(history)
           /\ history'[i].url.page = final
<1> DEFINE e == [history[i] EXCEPT !.url = [history[i].url EXCEPT !.page = final]]
<1>1. history[i] \in Entries /\ i \in 1..Len(history)
    BY EntryTyped
<1>2. e \in Entries /\ e.url.page = final
    <2> DEFINE u == [history[i].url EXCEPT !.page = final]
    <2>1. u \in Urls /\ u.page = final
        BY <1>1 DEF Entries, Urls
    <2> HIDE DEF u
    <2>2. [history[i] EXCEPT !.url = u] \in Entries /\ [history[i] EXCEPT !.url = u].url = u
        BY <1>1, <2>1 DEF Entries
    <2> QED
        BY <2>1, <2>2 DEF u
<1>3. history' = [history EXCEPT ![i] = e]
    BY DEF Reload
<1> HIDE DEF e
<1>4. history' \in Seq(Entries) /\ Len(history') = Len(history) /\ history'[i] = e
    BY <1>1, <1>2, <1>3, Replaced
<1> QED
    BY <1>2, <1>4

\* Every step of the router keeps its types.
LEMMA RouterTypeStep == RouterTypeOK /\ RouterNext => RouterTypeOK'
<1> SUFFICES ASSUME RouterTypeOK, RouterNext PROVE RouterTypeOK'
    OBVIOUS
<1> USE RouterAssumption
<1>1. ASSUME NEW u \in Urls, push_history(u)
      PROVE  history' \in Seq(Entries) /\ pos' \in 1..Len(history')
    <2>1. history[pos].doc \in Nat
        BY EntryTyped DEF RouterTypeOK
    <2>2. history' \in Seq(Entries) /\ Len(history') = pos + 1
        BY <1>1, <2>1, Pushed DEF push_history
    <2> QED
        BY <1>1, <2>2 DEF push_history, RouterTypeOK
<1>2. ASSUME NEW href \in Urls, NEW push \in BOOLEAN, Depart(href, push)
      PROVE  /\ asked' \in Urls /\ leaving' \in Urls \cup {NoUrl} /\ generation' \in Nat
             /\ tasks' \subseteq Tasks /\ drift' \subseteq Drifts
    <2>1. [gen |-> generation + 1, href |-> href, push |-> push] \in Tasks
        BY DEF RouterTypeOK, Tasks
    <2>2. generation + 1 \in Nat /\ drift \subseteq Drifts /\ tasks \subseteq Tasks
        BY DEF RouterTypeOK
    <2>3. Excused("overtaken", leaving # NoUrl) \subseteq Drifts
        BY <2>2 DEF Excused, Drifts
    <2>4. CASE shown \in Outlets
        BY <1>2, <2>1, <2>2, <2>3, <2>4 DEF Depart, RouterTypeOK
    <2>5. CASE shown \notin Outlets
        BY <1>2, <2>5 DEF Depart, RouterTypeOK
    <2> QED
        BY <2>4, <2>5
<1>3. ASSUME NEW u \in Links, ClickFragment(u) \/ ClickAway(u)
      PROVE  RouterTypeOK'
    <2>1. u \in Urls
        OBVIOUS
    <2>2. CASE ClickFragment(u)
        BY <1>1, <2>1, <2>2 DEF ClickFragment, Event, RouterTypeOK, Excused, Drifts
    <2>3. CASE ClickAway(u)
        <3>1. Depart(u, TRUE)
            BY <2>3 DEF ClickAway
        <3>2. /\ asked' \in Urls /\ leaving' \in Urls \cup {NoUrl} /\ generation' \in Nat
              /\ tasks' \subseteq Tasks /\ drift' \subseteq Drifts
            BY <1>2, <2>1, <3>1
        <3> QED
            BY <2>3, <3>2 DEF ClickAway, Event, RouterTypeOK
    <2> QED
        BY <1>3, <2>2, <2>3
<1>4. ASSUME NEW i \in DOMAIN history, TraverseFragment(i) \/ TraverseAway(i)
      PROVE  RouterTypeOK'
    <2>1. history[i].url \in Urls /\ i \in 1..Len(history)
        BY EntryTyped
    <2>2. CASE TraverseFragment(i)
        BY <2>1, <2>2 DEF TraverseFragment, Event, RouterTypeOK, Excused, Drifts
    <2>3. CASE TraverseAway(i)
        <3>1. Depart(history[i].url, FALSE)
            BY <2>3 DEF TraverseAway
        <3>2. /\ asked' \in Urls /\ leaving' \in Urls \cup {NoUrl} /\ generation' \in Nat
              /\ tasks' \subseteq Tasks /\ drift' \subseteq Drifts
            BY <1>2, <2>1, <3>1
        <3> QED
            BY <2>1, <2>3, <3>2 DEF TraverseAway, Event, RouterTypeOK
    <2> QED
        BY <1>4, <2>2, <2>3
<1>5. ASSUME NEW t \in tasks, HardNavigate(t) \/ Abandon(t)
      PROVE  RouterTypeOK'
    <2>1. t.href \in Urls
        BY DEF RouterTypeOK, Tasks
    <2> QED
        BY <1>5, <2>1 DEF HardNavigate, Abandon, Finish, RouterTypeOK
<1>6. ASSUME NEW t \in tasks, NEW final \in Pages, Swap(t, final)
      PROVE  RouterTypeOK'
    <2>1. Plain(final) \in Urls
        BY DEF Plain, Urls
    <2>2. history' \in Seq(Entries) /\ pos' \in 1..Len(history')
        BY <1>1, <1>6, <2>1 DEF Swap, RouterTypeOK
    <2> QED
        BY <1>6, <2>1, <2>2 DEF Swap, Finish, RouterTypeOK, Excused, Drifts
<1>7. ASSUME NEW final \in Pages, Load(final)
      PROVE  RouterTypeOK'
    <2> DEFINE u == [leaving EXCEPT !.page = final]
    <2>1. u \in Urls
        BY <1>7 DEF Load, RouterTypeOK, Urls
    <2> HIDE DEF u
    <2>2. Entry(u, docs + 1) \in Entries /\ docs + 1 \in Nat
        BY <2>1 DEF Entry, Entries, RouterTypeOK
    <2>3. CASE leaving = Address
        <3>1. history' = [history EXCEPT ![pos] = Entry(u, docs + 1)] /\ pos' = pos
            BY <1>7, <2>3 DEF Load, u
        <3>2. history' \in Seq(Entries) /\ Len(history') = Len(history)
            BY <2>2, <3>1, Replaced DEF RouterTypeOK
        <3> QED
            BY <1>7, <2>2, <3>1, <3>2 DEF Load, Fresh, RouterTypeOK
    <2>4. CASE leaving # Address
        <3>1. history' = Append(SubSeq(history, 1, pos), Entry(u, docs + 1)) /\ pos' = pos + 1
            BY <1>7, <2>4 DEF Load, u
        <3>2. history' \in Seq(Entries) /\ Len(history') = pos + 1
            BY <2>1, <2>2, <3>1, Pushed
        <3> QED
            BY <1>7, <2>2, <3>1, <3>2 DEF Load, Fresh, RouterTypeOK
    <2> QED
        BY <2>3, <2>4
<1>8. ASSUME NEW i \in DOMAIN history, NEW final \in Pages, Reload(i, final)
      PROVE  RouterTypeOK'
    <2>1. history[i].url \in Urls /\ i \in 1..Len(history)
        BY EntryTyped
    <2>2. history' \in Seq(Entries) /\ Len(history') = Len(history)
        BY <1>8, Reloaded
    <2> QED
        BY <1>8, <2>1, <2>2 DEF Reload, Fresh, Event, RouterTypeOK
<1>9. CASE /\ UNCHANGED <<history, pos, shown, rendered, generation, docs, tasks, leaving,
                          asked, drift>>
           /\ Event \/ UNCHANGED events
    BY <1>9 DEF RouterTypeOK, Event
<1> QED
    BY <1>3, <1>4, <1>5, <1>6, <1>7, <1>8, <1>9 DEF RouterNext

\* A departure from a page with an outlet supersedes every other navigation.
LEMMA Departed ==
    ASSUME RouterTypeOK, Numbered, NEW href, NEW push, Depart(href, push), shown' = shown
    PROVE  /\ Numbered'
           /\ asked' = href
           /\ \/ /\ leaving' = href
                 /\ tasks = {} /\ tasks' = {}
                 /\ drift' = drift
              \/ /\ leaving' = leaving
                 /\ drift \subseteq drift'
                 /\ leaving # NoUrl => "overtaken" \in drift'
                 /\ \E t \in tasks' : t.gen = generation'
                 /\ \A t \in tasks' : t.gen = generation' => t.href = href /\ t.push = push
<1> DEFINE new == [gen |-> generation + 1, href |-> href, push |-> push]
<1>1. asked' = href
    BY DEF Depart
<1>2. CASE shown \notin Outlets
    <2>1. tasks = {}
        BY <1>2 DEF Numbered
    <2> QED
        BY <1>1, <1>2, <2>1 DEF Depart, Numbered
<1>3. CASE shown \in Outlets
    <2>1. /\ generation' = generation + 1
          /\ tasks' = tasks \cup {new}
          /\ leaving' = leaving
          /\ drift' = Excused("overtaken", leaving # NoUrl)
        BY <1>3 DEF Depart
    <2>2. generation \in Nat /\ \A t \in tasks : t.gen \in Nat /\ t.gen <= generation
        BY DEF RouterTypeOK, Tasks, Numbered
    <2>3. new.gen = generation' /\ new.href = href /\ new.push = push
        BY <2>1
    <2> HIDE DEF new
    <2>4. \A t \in tasks : t.gen < generation'
        BY <2>1, <2>2
    <2>5. Numbered'
        BY <1>3, <2>1, <2>2, <2>3, <2>4 DEF Numbered
    <2>6. \A t \in tasks' : t.gen = generation' => t = new
        BY <2>1, <2>2, <2>4
    <2>7. new \in tasks' /\ new.gen = generation'
        BY <2>1, <2>3
    <2>8. drift \subseteq drift' /\ (leaving # NoUrl => "overtaken" \in drift')
        BY <2>1 DEF Excused
    <2> QED
        BY <1>1, <2>1, <2>3, <2>5, <2>6, <2>7, <2>8
<1> QED
    BY <1>2, <1>3

\* What has arrived is no longer in flight.
LEMMA Arrived ==
    ASSUME RouterTypeOK, Numbered, NEW t \in tasks, Finish(t), UNCHANGED generation,
           shown' = shown \/ shown' \in Outlets
    PROVE  /\ Numbered'
           /\ \A s \in tasks' : s \in tasks
           /\ is_current(t.gen) => \A s \in tasks' : ~is_current(s.gen)
           /\ \A s \in tasks : s # t => s \in tasks'
BY DEF Finish, Numbered, is_current

\* A fresh document has nothing in flight.
LEMMA Started ==
    ASSUME NEW final, Fresh(final)
    PROVE  Numbered' /\ Settled' /\ tasks' = {} /\ rendered' = NoUrl /\ shown' = final
           /\ leaving' = NoUrl
BY DEF Fresh, Numbered, Settled

\* Generations number the navigations in flight.
LEMMA NumberedStep == RouterInv /\ RouterNext => Numbered'
<1> SUFFICES ASSUME RouterInv, RouterNext PROVE Numbered'
    OBVIOUS
<1>0. RouterTypeOK /\ Numbered
    BY DEF RouterInv
<1>1. ASSUME NEW u \in Links, ClickFragment(u) \/ ClickAway(u)
      PROVE  Numbered'
    <2>1. CASE ClickFragment(u)
        BY <1>0, <2>1 DEF ClickFragment, Numbered
    <2>2. CASE ClickAway(u)
        BY <1>0, <2>2, Departed DEF ClickAway
    <2> QED
        BY <1>1, <2>1, <2>2
<1>2. ASSUME NEW i \in DOMAIN history, TraverseFragment(i) \/ TraverseAway(i)
      PROVE  Numbered'
    <2>1. CASE TraverseFragment(i)
        BY <1>0, <2>1 DEF TraverseFragment, Numbered
    <2>2. CASE TraverseAway(i)
        BY <1>0, <2>2, Departed DEF TraverseAway
    <2> QED
        BY <1>2, <2>1, <2>2
<1>3. ASSUME NEW t \in tasks, HardNavigate(t) \/ Abandon(t)
      PROVE  Numbered'
    BY <1>0, <1>3, Arrived DEF HardNavigate, Abandon
<1>4. ASSUME NEW t \in tasks, NEW final \in Pages, Swap(t, final)
      PROVE  Numbered'
    <2>1. Finish(t) /\ UNCHANGED generation /\ shown' \in Outlets
        BY <1>4 DEF Swap
    <2> QED
        BY <1>0, <2>1, Arrived
<1>5. ASSUME NEW final \in Pages, Load(final)
      PROVE  Numbered'
    BY <1>5, Started DEF Load
<1>6. ASSUME NEW i \in DOMAIN history, NEW final \in Pages, Reload(i, final)
      PROVE  Numbered'
    BY <1>6, Started DEF Reload
<1>7. CASE UNCHANGED <<history, pos, shown, rendered, generation, docs, tasks, leaving,
                       asked, drift>>
    BY <1>0, <1>7 DEF Numbered
<1> QED
    BY <1>1, <1>2, <1>3, <1>4, <1>5, <1>6, <1>7 DEF RouterNext

\* The address follows the navigation that is going to be shown.
LEMMA AddressStep == RouterInv /\ RouterNext => AddressKept'
<1> SUFFICES ASSUME RouterInv, RouterNext,
                    drift' \cap {"jump", "redirected", "reloaded"} = {}
             PROVE  /\ \A t \in tasks' : t.gen = generation' /\ ~t.push
                           => t.href.page = Address'.page
                    /\ Settled' => /\ Address'.page = shown'
                                   /\ rendered' # NoUrl => rendered'.page = shown'
    BY DEF AddressKept, is_current
<1> USE DEF is_current
<1>0. RouterTypeOK /\ Numbered /\ AddressKept
    BY DEF RouterInv
<1>1. ASSUME drift \subseteq drift'
      PROVE  /\ \A t \in tasks : t.gen = generation /\ ~t.push => t.href.page = Address.page
             /\ Settled => Address.page = shown /\ (rendered # NoUrl => rendered.page = shown)
    BY <1>0, <1>1 DEF AddressKept
<1>2. ASSUME NEW u \in Urls, NEW d \in Nat, pos' = pos + 1,
             history' = Append(SubSeq(history, 1, pos), Entry(u, d))
      PROVE  Address' = u
    BY <1>0, <1>2, Pushed DEF Address
<1>3. history[pos].doc \in Nat
    BY <1>0, EntryTyped DEF RouterTypeOK
<1>4. ASSUME NEW u \in Links, ClickFragment(u)
      PROVE  /\ \A t \in tasks' : t.gen = generation' /\ ~t.push
                    => t.href.page = Address'.page
             /\ Settled' => /\ Address'.page = shown'
                            /\ rendered' # NoUrl => rendered'.page = shown'
    <2>1. ~Returning /\ drift \subseteq drift'
        BY <1>4 DEF ClickFragment, Excused
    <2>2. Address' = u /\ rendered' = u
        BY <1>2, <1>3, <1>4, RouterAssumption DEF ClickFragment, push_history
    <2>3. Settled' => Settled
        BY <1>4 DEF ClickFragment, Settled
    <2>4. Settled => u.page = shown
        BY <1>1, <1>4, <2>1 DEF ClickFragment, is_same_document_fragment, rendered_url
    <2> QED
        BY <1>4, <2>1, <2>2, <2>3, <2>4 DEF ClickFragment, Returning
<1>5. ASSUME NEW i \in DOMAIN history, TraverseFragment(i)
      PROVE  /\ \A t \in tasks' : t.gen = generation' /\ ~t.push
                    => t.href.page = Address'.page
             /\ Settled' => /\ Address'.page = shown'
                            /\ rendered' # NoUrl => rendered'.page = shown'
    <2>1. ~Returning /\ rendered # NoUrl /\ drift \subseteq drift'
        BY <1>5 DEF TraverseFragment, Excused
    <2>2. Address' = history[i].url /\ rendered' = history[i].url
        BY <1>5 DEF TraverseFragment, Address
    <2>3. Settled' => Settled
        BY <1>5 DEF TraverseFragment, Settled
    <2>4. Settled => history[i].url.page = shown
        BY <1>1, <1>5, <2>1 DEF TraverseFragment, is_same_document_fragment, rendered_url
    <2> QED
        BY <1>5, <2>1, <2>2, <2>3, <2>4 DEF TraverseFragment, Returning
<1>6. ASSUME NEW href \in Urls, NEW push, Depart(href, push), shown' = shown,
             ~push => Address' = href
      PROVE  /\ \A t \in tasks' : t.gen = generation' /\ ~t.push
                    => t.href.page = Address'.page
             /\ ~Settled'
    <2>1. href # NoUrl
        BY RouterAssumption DEF Urls, NoUrl
    <2> QED
        BY <1>0, <1>6, <2>1, Departed DEF Settled
<1>7. ASSUME NEW u \in Links, ClickAway(u)
      PROVE  /\ \A t \in tasks' : t.gen = generation' /\ ~t.push
                    => t.href.page = Address'.page
             /\ ~Settled'
    BY <1>6, <1>7, RouterAssumption DEF ClickAway
<1>8. ASSUME NEW i \in DOMAIN history, TraverseAway(i)
      PROVE  /\ \A t \in tasks' : t.gen = generation' /\ ~t.push
                    => t.href.page = Address'.page
             /\ ~Settled'
    <2>1. history[i].url \in Urls /\ Address' = history[i].url
        BY <1>0, <1>8, EntryTyped DEF TraverseAway, Address
    <2> QED
        BY <1>6, <1>8, <2>1 DEF TraverseAway
<1>9. ASSUME NEW t \in tasks, HardNavigate(t)
      PROVE  /\ \A s \in tasks' : s.gen # generation'
             /\ ~Settled'
    <2>1. leaving' # NoUrl
        BY <1>0, <1>9, RouterAssumption DEF HardNavigate, RouterTypeOK, Tasks, Urls, NoUrl
    <2> QED
        BY <1>0, <1>9, <2>1, Arrived DEF HardNavigate, Settled
<1>10. ASSUME NEW t \in tasks, Abandon(t)
       PROVE  /\ \A s \in tasks' : s.gen = generation' /\ ~s.push
                     => s.href.page = Address'.page
              /\ Settled' => /\ Address'.page = shown'
                             /\ rendered' # NoUrl => rendered'.page = shown'
    <2>1. Settled' => Settled
        BY <1>0, <1>10, Arrived DEF Abandon, Settled
    <2>2. \A s \in tasks' : s \in tasks
        BY <1>10 DEF Abandon, Finish
    <2>3. Address' = Address /\ UNCHANGED <<shown, rendered, generation, drift>>
        BY <1>10 DEF Abandon, Address
    <2> QED
        BY <1>1, <2>1, <2>2, <2>3
<1>11. ASSUME NEW t \in tasks, NEW final \in Pages, Swap(t, final)
       PROVE  /\ \A s \in tasks' : s.gen # generation'
              /\ Address'.page = shown' /\ rendered'.page = shown'
    <2>1. \A s \in tasks' : s.gen # generation'
        BY <1>0, <1>11, Arrived DEF Swap
    <2>2. rendered'.page = final /\ shown' = final /\ Plain(final) \in Urls
          /\ Plain(final).page = final
        BY <1>11 DEF Swap, Plain, Urls
    <2>3. CASE t.push
        BY <1>2, <1>3, <1>11, <2>1, <2>2, <2>3 DEF Swap, push_history
    <2>4. CASE ~t.push
        <3>1. final = t.href.page /\ drift \subseteq drift' /\ Address' = Address
            BY <1>11, <2>4 DEF Swap, Excused, Address
        <3>2. t.href.page = Address.page
            BY <1>1, <1>11, <2>4, <3>1 DEF Swap
        <3> QED
            BY <2>1, <2>2, <3>1, <3>2
    <2> QED
        BY <2>3, <2>4
<1>12. ASSUME NEW final \in Pages, Load(final)
       PROVE  tasks' = {} /\ Address'.page = shown' /\ rendered' = NoUrl
    <2> DEFINE u == [leaving EXCEPT !.page = final]
    <2>1. u \in Urls /\ u.page = final
        BY <1>0, <1>12 DEF Load, RouterTypeOK, Urls
    <2> HIDE DEF u
    <2>2. Entry(u, docs + 1) \in Entries /\ docs + 1 \in Nat /\ Entry(u, docs + 1).url = u
        BY <1>0, <2>1 DEF Entry, Entries, RouterTypeOK
    <2>3. CASE leaving = Address
        <3>1. history' = [history EXCEPT ![pos] = Entry(u, docs + 1)] /\ pos' = pos
            BY <1>12, <2>3 DEF Load, u
        <3>2. Address' = u
            BY <1>0, <2>2, <3>1, Replaced DEF RouterTypeOK, Address
        <3> QED
            BY <1>12, <2>1, <3>2, Started DEF Load
    <2>4. CASE leaving # Address
        <3>1. history' = Append(SubSeq(history, 1, pos), Entry(u, docs + 1)) /\ pos' = pos + 1
            BY <1>12, <2>4 DEF Load, u
        <3>2. Address' = u
            BY <1>2, <2>1, <2>2, <3>1
        <3> QED
            BY <1>12, <2>1, <3>2, Started DEF Load
    <2> QED
        BY <2>3, <2>4
<1>13. ASSUME NEW i \in DOMAIN history, NEW final \in Pages, Reload(i, final)
       PROVE  tasks' = {} /\ Address'.page = shown' /\ rendered' = NoUrl
    <2>1. history'[i].url.page = final
        BY <1>0, <1>13, Reloaded
    <2> QED
        BY <1>13, <2>1, Started DEF Reload, Address
<1>14. CASE UNCHANGED <<history, pos, shown, rendered, generation, docs, tasks, leaving,
                        asked, drift>>
    BY <1>1, <1>14 DEF Address, Settled
<1> QED
    BY <1>4, <1>5, <1>7, <1>8, <1>9, <1>10, <1>11, <1>12, <1>13, <1>14 DEF RouterNext

\* What is in flight, or on screen once nothing is, answers the latest request.
LEMMA AskedStep == RouterInv /\ RouterNext => AskedKept'
<1> DEFINE Kept ==
        /\ \A t \in tasks : t.gen = generation => t.href = asked
        /\ leaving # NoUrl => leaving = asked
        /\ Settled => shown \in Redirects[asked.page]
<1> SUFFICES ASSUME RouterInv, RouterNext, "overtaken" \notin drift' PROVE Kept'
    BY DEF AskedKept, is_current
<1> USE DEF is_current
<1>0. RouterTypeOK /\ Numbered /\ AskedKept
    BY DEF RouterInv
<1>1. ASSUME drift \subseteq drift' PROVE Kept
    BY <1>0, <1>1 DEF AskedKept
<1>2. CASE \/ \E u \in Links : ClickFragment(u)
           \/ \E i \in DOMAIN history : TraverseFragment(i)
           \/ UNCHANGED <<history, pos, shown, rendered, generation, docs, tasks, leaving,
                          asked, drift>>
    <2>1. /\ drift \subseteq drift'
          /\ UNCHANGED <<shown, generation, tasks, leaving, asked>>
        BY <1>2 DEF ClickFragment, TraverseFragment, Excused
    <2> QED
        BY <1>1, <2>1 DEF Settled
<1>3. ASSUME NEW href \in Urls, NEW push, Depart(href, push), shown' = shown
      PROVE  Kept'
    <2>1. href # NoUrl
        BY RouterAssumption DEF Urls, NoUrl
    <2>2. ~Settled'
        BY <1>0, <1>3, <2>1, Departed DEF Settled
    <2>3. leaving' # NoUrl => leaving' = asked'
        BY <1>0, <1>3, Departed
    <2>4. \A t \in tasks' : t.gen = generation' => t.href = asked'
        BY <1>0, <1>3, Departed
    <2> QED
        BY <2>2, <2>3, <2>4
<1>4. ASSUME NEW u \in Links, ClickAway(u)
      PROVE  Kept'
    BY <1>3, <1>4, RouterAssumption DEF ClickAway
<1>5. ASSUME NEW i \in DOMAIN history, TraverseAway(i)
      PROVE  Kept'
    BY <1>0, <1>3, <1>5, EntryTyped DEF TraverseAway
<1>6. ASSUME NEW t \in tasks, HardNavigate(t)
      PROVE  Kept'
    <2>1. leaving' # NoUrl
        BY <1>0, <1>6, RouterAssumption DEF HardNavigate, RouterTypeOK, Tasks, Urls, NoUrl
    <2>2. leaving' = asked'
        BY <1>1, <1>6 DEF HardNavigate
    <2>3. \A s \in tasks' : s.gen # generation'
        BY <1>0, <1>6, Arrived DEF HardNavigate
    <2> QED
        BY <2>1, <2>2, <2>3 DEF Settled
<1>7. ASSUME NEW t \in tasks, Abandon(t)
      PROVE  Kept'
    <2>1. Settled' => Settled
        BY <1>0, <1>7, Arrived DEF Abandon, Settled
    <2>2. \A s \in tasks' : s \in tasks
        BY <1>7 DEF Abandon, Finish
    <2>3. UNCHANGED <<shown, generation, leaving, asked, drift>>
        BY <1>7 DEF Abandon
    <2> QED
        BY <1>1, <2>1, <2>2, <2>3
<1>8. ASSUME NEW t \in tasks, NEW final \in Pages, Swap(t, final)
      PROVE  Kept'
    <2>1. drift \subseteq drift' /\ UNCHANGED <<leaving, asked>>
        BY <1>8 DEF Swap, Excused
    <2>2. shown' \in Redirects[asked'.page]
        BY <1>1, <1>8, <2>1 DEF Swap
    <2>3. \A s \in tasks' : s.gen # generation'
        BY <1>0, <1>8, Arrived DEF Swap
    <2> QED
        BY <1>1, <2>1, <2>2, <2>3
<1>9. ASSUME NEW final \in Pages, Load(final)
      PROVE  Kept'
    <2>1. final \in Redirects[asked.page] /\ asked' = asked
        BY <1>1, <1>9 DEF Load
    <2> QED
        BY <1>9, <2>1, Started DEF Load
<1>10. ASSUME NEW i \in DOMAIN history, NEW final \in Pages, Reload(i, final)
       PROVE  Kept'
    BY <1>10, Started DEF Reload
<1> QED
    BY <1>2, <1>4, <1>5, <1>6, <1>7, <1>8, <1>9, <1>10 DEF RouterNext

-----------------------------------------------------------------------------

\* A tab that has just been opened satisfies the invariant.
LEMMA InitInvariant == Init => IInv
<1> SUFFICES ASSUME Init PROVE IInv
    OBVIOUS
<1> USE RouterAssumption, GuardedAssumption
<1>1. RouterTypeOK
    <2>1. Plain(FirstPage) \in Urls
        BY DEF Plain, Urls
    <2>2. Entry(Plain(FirstPage), 0) \in Entries
        BY <2>1 DEF Entry, Entries
    <2> QED
        BY <2>1, <2>2 DEF Init, RouterInit, RouterTypeOK
<1>2. Numbered /\ AddressKept /\ AskedKept
    BY DEF Init, RouterInit, Numbered, AddressKept, AskedKept, Settled, Address, Entry, Plain
<1>3. GuardedInv
    BY DEF Init, GuardedInv, GuardedTypeOK, RunsNumbered, ShowsLatest
<1>4. IslandInv
    BY DEF Init, IslandInv, OneMounted, NoOrphans
<1> QED
    BY <1>1, <1>2, <1>3, <1>4 DEF IInv, RouterInv

\* The invariant holds throughout: it is inductive.
THEOREM Invariant == Spec => []IInv
<1>1. Init => IInv
    BY InitInvariant
<1>2. IInv /\ [Next]_vars => IInv'
    <2> SUFFICES ASSUME IInv, [Next]_vars PROVE IInv'
        OBVIOUS
    <2>1. RouterNext /\ GuardedNext
        BY StepsAreComponents
    <2>2. RouterInv'
        BY <2>1, RouterTypeStep, NumberedStep, AddressStep, AskedStep DEF IInv, RouterInv
    <2>3. GuardedInv'
        BY <2>1, GuardedStep DEF IInv
    <2>4. IslandInv'
        BY IslandStep DEF IInv
    <2> QED
        BY <2>2, <2>3, <2>4 DEF IInv
<1> QED
    BY <1>1, <1>2, PTL DEF Spec

\* Once nothing is in flight, the address bar names the page on screen, but for
\* the jumps, redirects and reloads that AddressAgrees names.
THEOREM AddressIsTruthful == Spec => []AddressAgrees
<1>1. IInv => AddressAgrees
    BY DEF IInv, RouterInv, AddressKept, AddressAgrees
<1> QED
    BY <1>1, Invariant, PTL

\* The navigation asked for last is the one that is shown in the end.
THEOREM LatestNavigationWins == Spec => []LatestWins
<1>1. IInv => LatestWins
    BY DEF IInv, RouterInv, AskedKept, LatestWins
<1> QED
    BY <1>1, Invariant, PTL

\* The value of an action or a resource answers the latest call.
THEOREM LatestCallShown == Spec => []ShowsLatest
<1>1. IInv => ShowsLatest
    BY DEF IInv, GuardedInv
<1> QED
    BY <1>1, Invariant, PTL

\* Nothing stays registered for an island that has left the screen, but for one
\* whose release trapped or whose region was never updated before it left and
\* registered when an answer came after all.
THEOREM EverythingReleased == Spec => []NoOrphans
<1>1. IInv => NoOrphans
    BY DEF IInv, IslandInv
<1> QED
    BY <1>1, Invariant, PTL
=============================================================================
