--------------------------- MODULE ApiPageProofs ---------------------------
(***************************************************************************)
(* The two halves of a page, for any members, packages and queries.          *)
(* The members displayed follow the controls: the only text that may be      *)
(* ahead of what is displayed is one whose key is still down in the box of   *)
(* the members, and nothing takes the focus away from that box before the    *)
(* key comes up; and what the tabulator erased is the text of the last       *)
(* filter.  And the results shown belong to one query: the queue of a search *)
(* is, at any time, the rest of one fixed sequence of jobs (JobsLeft).       *)
(***************************************************************************)
EXTENDS ApiPage, FiniteSetTheorems, TLAPS

Texts == MemberQuery \cup {NoQuery}

UpToDate(q) ==
  /\ \/ q = query
     \/ query = NoQuery /\ q = erased
     \/ pressed = "text" /\ focus = "members"
  /\ displayed = Displayed(visibility, in, order, q)

FilterInv ==
  /\ query \in Texts
  /\ \E q \in Texts : UpToDate(q)

\* What filterFunc hides test by test, member by member.
LEMMA DisplayedMember ==
  ASSUME NEW v, NEW i, NEW o, NEW q, NEW m \in Member
  PROVE  m \in Displayed(v, i, o, q) <=>
           /\ m \in Private => v # "public"
           /\ Owner[m] \in Ancestor \ i => o = "inherit"
           /\ o = "inherit" => Owner[m] \in Ancestor \ {Self}
           /\ q # NoQuery => m \in MemberMatches[q]
  BY DEF Displayed, Listed, HiddenAsPrivate, HiddenWithOwner, HiddenByQuery

\* A handler that ends in filter leaves nothing behind.
LEMMA Filtered ==
  ASSUME filter, query' \in Texts
  PROVE  FilterInv'
  BY DEF filter, FilterInv, UpToDate, Displayed, Listed, HiddenAsPrivate,
         HiddenWithOwner, HiddenByQuery

LEMMA InitFilterInv == Init => FilterInv
  BY DEF Init, InitFilter, FilterInv, UpToDate, Texts

\* A step that leaves the controls alone, and the focus if a key is down.
LEMMA ControlsAlone ==
  ASSUME FilterInv, UNCHANGED filterVars,
         pressed = "text" /\ focus = "members" => pressed' = "text" /\ focus' = "members"
  PROVE  FilterInv'
<1>1. PICK q \in Texts : UpToDate(q)
  BY DEF FilterInv
<1>2. UpToDate(q)'
  BY <1>1
  DEF UpToDate, filterVars, Displayed, Listed, HiddenAsPrivate, HiddenWithOwner,
      HiddenByQuery
<1> QED
  BY <1>2 DEF FilterInv, filterVars

LEMMA KeyDownKeeps == ASSUME FilterInv, NEW key \in Key, KeyDown(key) PROVE FilterInv'
<1>1. /\ pressed = None
      /\ pressed # "text"
      /\ pressed' = key
  BY PageAssumption DEF KeyDown, Gesture, Key
<1>2. PICK q \in Texts : /\ q = query \/ (query = NoQuery /\ q = erased)
                         /\ displayed = Displayed(visibility, in, order, q)
  BY <1>1 DEF FilterInv, UpToDate
<1>3. CASE key = "tab" /\ Tab
  <2>1. UpToDate(q)' /\ query' \in Texts
    BY <1>2, <1>3 DEF Tab, TabFilter, UpToDate, Texts,
       Displayed, Listed, HiddenAsPrivate, HiddenWithOwner, HiddenByQuery
  <2> QED
    BY <2>1 DEF FilterInv
<1>4. CASE key = "text" /\ Text
  <2>1. CASE focus = "members" /\ query' \in Texts
                /\ UNCHANGED <<searchVars, visibility, in, all, order, displayed, erased>>
    <3>1. focus' = "members"
      BY <2>1 DEF searchVars
    <3>2. UpToDate(q)'
      BY <1>1, <1>2, <1>4, <2>1, <3>1 DEF UpToDate,
         Displayed, Listed, HiddenAsPrivate, HiddenWithOwner, HiddenByQuery
    <3> QED
      BY <2>1, <3>2 DEF FilterInv
  <2>2. CASE UNCHANGED filterVars
    BY <1>1, <2>2, ControlsAlone
  <2> QED
    BY <1>4, <2>1, <2>2 DEF Text, Texts
<1>5. CASE UNCHANGED filterVars
  BY <1>1, <1>5, ControlsAlone
<1> QED
  BY <1>3, <1>4, <1>5 DEF KeyDown

LEMMA KeyUpKeeps == ASSUME FilterInv, KeyUp PROVE FilterInv'
<1>1. CASE focus = "members" /\ FilterKeyUp(pressed)
  <2>1. query' \in Texts /\ filter
    BY <1>1 DEF FilterKeyUp, FilterInv, Texts
  <2> QED
    BY <2>1, Filtered
<1>2. CASE UNCHANGED filterVars /\ focus # "members"
  BY <1>2, ControlsAlone
<1> QED
  BY <1>1, <1>2 DEF KeyUp

LEMMA ControlKeeps == ASSUME FilterInv, Control PROVE FilterInv'
<1>1. query' \in Texts
  BY DEF Control, FilterInv, Texts, ToggleVisibility, ToggleAncestor, HideAll,
         ShowAll, ClearFilter, Order, ExposeMember
<1>2. filter
  BY DEF Control, ToggleVisibility, ToggleAncestor, HideAll, ShowAll, ClearFilter,
         Order, ExposeMember
<1> QED
  BY <1>1, <1>2, Filtered

\* A job may take the focus away from the search box, and from no other.
LEMMA TimerKeeps == ASSUME FilterInv, TimerFires PROVE FilterInv'
<1>1. focus = "members" => focus' = "members"
  BY DEF TimerFires, Timeout, Idle, InstallHandler, StartNavigation, SearchPackage,
     SearchMembers, HandlePackage
<1>2. UNCHANGED <<filterVars, pressed>>
  BY DEF TimerFires
<1> QED
  BY <1>1, <1>2, ControlsAlone

LEMMA NextFilterInv == FilterInv /\ [Next]_vars => FilterInv'
<1> SUFFICES ASSUME FilterInv, [Next]_vars PROVE FilterInv'
  OBVIOUS
<1>1. CASE \E key \in Key : KeyDown(key)
  BY <1>1, KeyDownKeeps
<1>2. CASE KeyUp
  BY <1>2, KeyUpKeeps
<1>3. CASE \E box \in {"search", "members"} : Focus(box)
  BY <1>3, ControlsAlone, PageAssumption DEF Focus, Gesture, Key
<1>4. CASE CloseResults
  BY <1>4, ControlsAlone, PageAssumption DEF CloseResults, Gesture, Key
<1>5. CASE Control
  BY <1>5, ControlKeeps
<1>6. CASE TimerFires
  BY <1>6, TimerKeeps
<1>7. CASE UNCHANGED vars
  BY <1>7, ControlsAlone DEF vars, searchVars
<1> QED
  BY <1>1, <1>2, <1>3, <1>4, <1>5, <1>6, <1>7 DEF Next

LEMMA VisibilityType == Spec => [](visibility \in {"public", "all"})
<1> DEFINE Vis == visibility \in {"public", "all"}
<1>1. Init => Vis
  BY DEF Init, InitFilter, VisibilityFor
<1>2. Vis /\ [Next]_vars => Vis'
  BY DEF Next, vars, filterVars, KeyDown, Tab, TabFilter, Text, KeyUp, FilterKeyUp,
         Focus, CloseResults, TimerFires, Control, ToggleVisibility, ToggleAncestor,
         HideAll, ShowAll, ClearFilter, Order, ExposeMember, VisibilityFor
<1> QED
  BY <1>1, <1>2, PTL DEF Spec

\* After any sequence of keys, clicks and jobs, the members displayed are those that
\* visibility, ancestors, order and text let through, where the text is that of the box, or
\* the one that the tabulator erased from it (MembersFollowControls), for any page.
THEOREM MembersFollowControlsHolds == Spec => []MembersFollowControls
<1>1. FilterInv /\ visibility \in {"public", "all"} => MembersFollowControls
  <2> SUFFICES ASSUME FilterInv, visibility \in {"public", "all"} PROVE MembersFollowControls
    OBVIOUS
  <2>1. PICK q \in Texts : UpToDate(q)
    BY DEF FilterInv
  <2>2. ASSUME NEW m \in Member
        PROVE  m \in displayed <=>
                 /\ m \in Private => visibility = "all"
                 /\ Owner[m] \in Ancestor \ in => order = "inherit"
                 /\ order = "inherit" => Owner[m] \in Ancestor \ {Self}
                 /\ q # NoQuery => m \in MemberMatches[q]
    <3>1. visibility # "public" <=> visibility = "all"
      OBVIOUS
    <3> QED
      BY <2>1, <3>1, DisplayedMember DEF UpToDate
  <2> QED
    BY <2>1, <2>2 DEF MembersFollowControls, UpToDate, Texts
<1> QED
  BY <1>1, InitFilterInv, NextFilterInv, VisibilityType, PTL DEF Spec

-----------------------------------------------------------------------------
(* The queues of a page: of its four labels, two are used.                   *)

Page(inits, searches) ==
  << [name |-> "init",   priority |-> 1, jobs |-> inits],
     [name |-> "focus",  priority |-> 2, jobs |-> <<>>],
     [name |-> "filter", priority |-> 4, jobs |-> <<>>],
     [name |-> "search", priority |-> 5, jobs |-> searches] >>

\* A label whose priority is no smaller than the others comes last.
LEMMA LabelLast ==
  ASSUME NEW S, NEW qs \in Seq(S), NEW name, NEW priority,
         \A j \in 1 .. Len(qs) : qs[j].priority <= priority
  PROVE  LabelAdded(qs, name, priority)
           = Append(qs, [name |-> name, priority |-> priority, jobs |-> <<>>])
<1> DEFINE before == {k \in DOMAIN qs : \A j \in 1 .. k : qs[j].priority <= priority}
           label  == [name |-> name, priority |-> priority, jobs |-> <<>>]
           n      == Len(qs)
<1>1. before = 1 .. n
  OBVIOUS
<1>2. Cardinality(before) = n
  <2>1. n \in Nat
    OBVIOUS
  <2>2. Cardinality(1 .. n) = IF 1 > n THEN 0 ELSE n - 1 + 1
    BY <2>1, FS_Interval
  <2>3. 1 > n => n = 0
    BY <2>1
  <2> HIDE DEF n, before
  <2>4. Cardinality(1 .. n) = n
    BY <2>1, <2>2, <2>3
  <2> QED
    BY <1>1, <2>4
<1>3. LabelAdded(qs, name, priority) = InsertAt(qs, n + 1, label)
  BY <1>2 DEF LabelAdded
<1>4. InsertAt(qs, n + 1, label) = SubSeq(qs, 1, n) \o <<label>> \o SubSeq(qs, n + 1, n)
  BY DEF InsertAt
<1>5. SubSeq(qs, 1, n) = qs /\ SubSeq(qs, n + 1, n) = <<>>
  OBVIOUS
<1>6. qs \o <<label>> \o <<>> = Append(qs, label)
  OBVIOUS
<1> QED
  BY <1>3, <1>4, <1>5, <1>6

LEMMA NewQueuesAre == NewQueues = Page(<<>>, <<>>)
<1> DEFINE l1 == [name |-> "init",   priority |-> 1, jobs |-> <<>>]
           l2 == [name |-> "focus",  priority |-> 2, jobs |-> <<>>]
           l3 == [name |-> "filter", priority |-> 4, jobs |-> <<>>]
           l4 == [name |-> "search", priority |-> 5, jobs |-> <<>>]
           All == {l1, l2, l3, l4}
<1>1. LabelAdded(<<>>, "init", 1) = <<l1>>
  <2>1. <<>> \in Seq(All) /\ \A j \in 1 .. Len(<<>>) : <<>>[j].priority <= 1
    OBVIOUS
  <2>2. LabelAdded(<<>>, "init", 1) = Append(<<>>, l1)
    BY <2>1, LabelLast
  <2> QED
    BY <2>2
<1>2. LabelAdded(<<l1>>, "focus", 2) = <<l1, l2>>
  <2>1. <<l1>> \in Seq(All) /\ \A j \in 1 .. Len(<<l1>>) : <<l1>>[j].priority <= 2
    OBVIOUS
  <2>2. LabelAdded(<<l1>>, "focus", 2) = Append(<<l1>>, l2)
    BY <2>1, LabelLast
  <2> QED
    BY <2>2
<1>3. LabelAdded(<<l1, l2>>, "filter", 4) = <<l1, l2, l3>>
  <2>1. <<l1, l2>> \in Seq(All) /\ \A j \in 1 .. Len(<<l1, l2>>) : <<l1, l2>>[j].priority <= 4
    OBVIOUS
  <2>2. LabelAdded(<<l1, l2>>, "filter", 4) = Append(<<l1, l2>>, l3)
    BY <2>1, LabelLast
  <2> QED
    BY <2>2
<1>4. LabelAdded(<<l1, l2, l3>>, "search", 5) = <<l1, l2, l3, l4>>
  <2>1. /\ <<l1, l2, l3>> \in Seq(All)
        /\ \A j \in 1 .. Len(<<l1, l2, l3>>) : <<l1, l2, l3>>[j].priority <= 5
    OBVIOUS
  <2>2. LabelAdded(<<l1, l2, l3>>, "search", 5) = Append(<<l1, l2, l3>>, l4)
    BY <2>1, LabelLast
  <2> QED
    BY <2>2
<1> QED
  BY <1>1, <1>2, <1>3, <1>4 DEF NewQueues, Page

LEMMA PageLabels ==
  ASSUME NEW is, NEW ss
  PROVE  indexOf(Page(is, ss), "init") = 1 /\ indexOf(Page(is, ss), "search") = 4
<1> DEFINE I(label) == {i \in 1 .. Len(Page(is, ss)) : Page(is, ss)[i].name = label}
<1>1. I("init") = {1} /\ I("search") = {4}
  BY DEF Page
<1>2. Min({1}) = 1 /\ Min({4}) = 4
  BY DEF Min
<1> QED
  BY <1>1, <1>2 DEF indexOf, SelectInSeq

\* The jobs of the page are executed before those of the search.
LEMMA PageNext ==
  ASSUME NEW is, NEW ss
  PROVE  NextQueue(Page(is, ss)) = IF is # <<>> THEN 1 ELSE IF ss # <<>> THEN 4 ELSE 0
<1> DEFINE I == {i \in 1 .. Len(Page(is, ss)) : Page(is, ss)[i].jobs # <<>>}
<1>1. NextQueue(Page(is, ss)) = IF I # {} THEN Min(I) ELSE 0
  BY DEF NextQueue, SelectInSeq
<1>2. I \subseteq {1, 4} /\ (1 \in I <=> is # <<>>) /\ (4 \in I <=> ss # <<>>)
  BY DEF Page
<1>3. Min({1}) = 1 /\ Min({4}) = 4 /\ Min({1, 4}) = 1
  BY DEF Min
<1>4. I = {} \/ I = {1} \/ I = {4} \/ I = {1, 4}
  BY <1>2
<1> HIDE DEF I
<1> QED
  BY <1>1, <1>2, <1>3, <1>4

\* What the operations of the scheduler do to these queues.
LEMMA PageOperations ==
  ASSUME NEW is, NEW ss
  PROVE  /\ Page(is, ss)[1].jobs = is /\ Page(is, ss)[4].jobs = ss
         /\ Jobs(Page(is, ss), "search") = ss
         /\ Cleared(Page(is, ss), "search") = Page(is, <<>>)
         /\ is # <<>> => /\ NextWork(Page(is, ss)) = Head(is)
                         /\ Shifted(Page(is, ss)) = Page(Tail(is), ss)
         /\ is = <<>> /\ ss # <<>> => /\ NextWork(Page(is, ss)) = Head(ss)
                                      /\ Shifted(Page(is, ss)) = Page(is, Tail(ss))
<1>1. Page(is, ss)[1].jobs = is /\ Page(is, ss)[4].jobs = ss
  BY DEF Page
<1>2. \A js : [Page(is, ss) EXCEPT ![1].jobs = js] = Page(js, ss)
  BY DEF Page
<1>3. \A js : [Page(is, ss) EXCEPT ![4].jobs = js] = Page(is, js)
  BY DEF Page
<1>4. Jobs(Page(is, ss), "search") = ss /\ Cleared(Page(is, ss), "search") = Page(is, <<>>)
  BY <1>1, <1>3, PageLabels DEF Jobs, Cleared
<1>5. is # <<>> => NextWork(Page(is, ss)) = Head(is) /\ Shifted(Page(is, ss)) = Page(Tail(is), ss)
  BY <1>1, <1>2, PageNext DEF NextWork, Shifted
<1>6. is = <<>> /\ ss # <<>> =>
        NextWork(Page(is, ss)) = Head(ss) /\ Shifted(Page(is, ss)) = Page(is, Tail(ss))
  <2> SUFFICES ASSUME is = <<>>, ss # <<>>
               PROVE  /\ NextWork(Page(is, ss)) = Head(ss)
                      /\ Shifted(Page(is, ss)) = Page(is, Tail(ss))
    OBVIOUS
  <2>1. NextQueue(Page(is, ss)) = 4
    BY PageNext
  <2>2. NextWork(Page(is, ss)) = Head(Page(is, ss)[4].jobs)
    BY <2>1 DEF NextWork
  <2>3. Shifted(Page(is, ss)) = [Page(is, ss) EXCEPT ![4].jobs = Tail(Page(is, ss)[4].jobs)]
    BY <2>1 DEF Shifted
  <2> QED
    BY <1>1, <1>3, <2>2, <2>3
<1> QED
  BY <1>1, <1>4, <1>5, <1>6

LEMMA PageAdd ==
  ASSUME NEW is, NEW ss, NEW js
  PROVE  /\ add(Page(is, ss), "search", js) => queues' = Page(is, ss \o js)
         /\ add(Page(is, ss), "init", js) => queues' = Page(is \o js, ss)
<1>1. Page(is, ss)[1].jobs = is /\ Page(is, ss)[4].jobs = ss
  BY DEF Page
<1>2. \A new : [Page(is, ss) EXCEPT ![1].jobs = new] = Page(new, ss)
  BY DEF Page
<1>3. \A new : [Page(is, ss) EXCEPT ![4].jobs = new] = Page(is, new)
  BY DEF Page
<1>4. add(Page(is, ss), "search", js)
        => queues' = [Page(is, ss) EXCEPT ![4].jobs = Page(is, ss)[4].jobs \o js]
  BY PageLabels DEF add
<1>5. add(Page(is, ss), "init", js)
        => queues' = [Page(is, ss) EXCEPT ![1].jobs = Page(is, ss)[1].jobs \o js]
  BY PageLabels DEF add
<1> QED
  BY <1>1, <1>2, <1>3, <1>4, <1>5

-----------------------------------------------------------------------------
(* The search: of K packages, a have been looked up, the members of m are        *)
(* known, and h are shown.                                                   *)

K == Len(PACKAGES)

\* The last job of a package.
ShowJob(k, q) == HandleJob(k, q, MatchedEntities(k, q))

\* All the jobs that a search may have.
SearchJobs(q) ==
  {PackageJob(k, q) : k \in 1 .. K} \cup {MembersJob(k, q) : k \in 1 .. K}
    \cup {ShowJob(k, q) : k \in 1 .. K}

\* The jobs that are left are in this order.
JobsLeft(js, q, a, m, h) ==
  /\ a \in 0 .. K /\ m \in 0 .. K /\ h \in 0 .. K
  /\ h <= m /\ m <= h + 1 /\ (m > 0 => a = K)
  /\ js \in Seq(SearchJobs(q))
  /\ Len(js) = K + a - m - h
  /\ \A k \in a + 1 .. K : js[k - a] = PackageJob(k, q)
  /\ \A k \in m + 1 .. a : js[K - a + 2 * k - 1 - m - h] = MembersJob(k, q)
  /\ \A k \in h + 1 .. a : js[K - a + 2 * k - m - h] = ShowJob(k, q)

LEMMA KIsNumber == K \in Nat /\ DOMAIN PACKAGES = 1 .. K
BY SearchAssumption DEF K

LEMMA JobsAtFirst ==
  ASSUME NEW q
  PROVE  JobsLeft(<<>> \o PackageJobs(q), q, 0, 0, 0)
<1>1. PackageJobs(q) \in Seq(SearchJobs(q)) /\ Len(PackageJobs(q)) = K
  BY KIsNumber DEF PackageJobs, SearchJobs
<1>2. \A k \in 1 .. K : PackageJobs(q)[k] = PackageJob(k, q)
  BY KIsNumber DEF PackageJobs
<1>3. <<>> \o PackageJobs(q) = PackageJobs(q)
  BY <1>1
<1> HIDE DEF PackageJobs
<1> QED
  BY <1>1, <1>2, <1>3, KIsNumber DEF JobsLeft

LEMMA FirstJob ==
  ASSUME NEW js, NEW q, NEW a, NEW m, NEW h, JobsLeft(js, q, a, m, h), js # <<>>
  PROVE  \/ a < K /\ m = 0 /\ h = 0 /\ Head(js) = PackageJob(a + 1, q)
         \/ a = K /\ m = h /\ m < K /\ Head(js) = MembersJob(m + 1, q)
         \/ a = K /\ m = h + 1 /\ Head(js) = ShowJob(h + 1, q)
<1>1. /\ K \in Nat /\ a \in Nat /\ m \in Nat /\ h \in Nat /\ a <= K /\ m <= K /\ h <= m
      /\ m <= h + 1 /\ (m > 0 => a = K) /\ Head(js) = js[1] /\ Len(js) > 0
      /\ Len(js) = K + a - m - h
  BY KIsNumber DEF JobsLeft
<1>2. CASE a < K
  <2>1. js[a + 1 - a] = PackageJob(a + 1, q)
    BY <1>1, <1>2 DEF JobsLeft
  <2> QED
    BY <1>1, <1>2, <2>1
<1>3. CASE a = K /\ m = h
  <2>1. m < K
    BY <1>1, <1>3
  <2>2. js[K - a + 2 * (m + 1) - 1 - m - h] = MembersJob(m + 1, q)
    BY <1>1, <1>3, <2>1 DEF JobsLeft
  <2> QED
    BY <1>1, <1>3, <2>1, <2>2
<1>4. CASE a = K /\ m = h + 1
  <2>1. js[K - a + 2 * (h + 1) - m - h] = ShowJob(h + 1, q)
    BY <1>1, <1>4 DEF JobsLeft
  <2> QED
    BY <1>1, <1>4, <2>1
<1> QED
  BY <1>1, <1>2, <1>3, <1>4

LEMMA NoJobsLeft ==
  ASSUME NEW q, NEW a, NEW m, NEW h, NEW js, JobsLeft(js, q, a, m, h), js = <<>>
  PROVE  m = K /\ h = K
<1>1. Len(js) = 0
  OBVIOUS
<1> QED
  BY <1>1, KIsNumber DEF JobsLeft

\* A package that was looked up leaves two jobs, which come after the other packages.
LEMMA PackageDone ==
  ASSUME NEW js, NEW q, NEW a, JobsLeft(js, q, a, 0, 0), js # <<>>, a < K
  PROVE  JobsLeft(Tail(js) \o <<MembersJob(a + 1, q), ShowJob(a + 1, q)>>, q, a + 1, 0, 0)
<1> DEFINE mj == MembersJob(a + 1, q)
           hj == ShowJob(a + 1, q)
           ts == Tail(js)
           us == ts \o <<mj, hj>>
<1>1. K \in Nat /\ a \in Nat /\ a + 1 \in 0 .. K /\ js \in Seq(SearchJobs(q)) /\ Len(js) = K + a
  BY KIsNumber DEF JobsLeft
<1>2. mj \in SearchJobs(q) /\ hj \in SearchJobs(q)
  BY <1>1 DEF SearchJobs
<1>3. /\ ts \in Seq(SearchJobs(q)) /\ Len(ts) = K + a - 1
      /\ \A i \in 1 .. K + a - 1 : ts[i] = js[i + 1]
  BY <1>1
<1> HIDE DEF mj, hj, ts
<1>4. /\ us \in Seq(SearchJobs(q)) /\ Len(us) = K + a + 1
      /\ \A i \in 1 .. K + a - 1 : us[i] = js[i + 1]
      /\ us[K + a] = mj /\ us[K + a + 1] = hj
  <2>1. <<mj, hj>> \in Seq(SearchJobs(q)) /\ Len(<<mj, hj>>) = 2
    BY <1>2
  <2>2. us \in Seq(SearchJobs(q)) /\ Len(us) = Len(ts) + 2
    BY <1>3, <2>1
  <2>3. \A i \in 1 .. Len(ts) : us[i] = ts[i]
    BY <1>3, <2>1
  <2>4. us[Len(ts) + 1] = mj /\ us[Len(ts) + 2] = hj
    BY <1>3, <2>1
  <2> HIDE DEF us
  <2> QED
    BY <1>1, <1>3, <2>2, <2>3, <2>4
<1> HIDE DEF us
<1>5. \A k \in a + 2 .. K : us[k - (a + 1)] = PackageJob(k, q)
  <2> TAKE k \in a + 2 .. K
  <2>1. js[k - a] = PackageJob(k, q)
    BY <1>1 DEF JobsLeft
  <2>2. us[k - (a + 1)] = js[k - (a + 1) + 1]
    BY <1>1, <1>4
  <2> QED
    BY <1>1, <2>1, <2>2
<1>6. \A k \in 1 .. a + 1 : us[K - (a + 1) + 2 * k - 1] = MembersJob(k, q)
  <2> TAKE k \in 1 .. a + 1
  <2>1. CASE k = a + 1
    BY <1>1, <1>4, <2>1 DEF mj
  <2>2. CASE k \in 1 .. a
    <3>1. js[K - a + 2 * k - 1 - 0 - 0] = MembersJob(k, q)
      BY <1>1, <2>2 DEF JobsLeft
    <3>2. us[K - (a + 1) + 2 * k - 1] = js[K - (a + 1) + 2 * k - 1 + 1]
      BY <1>1, <1>4, <2>2
    <3> QED
      BY <1>1, <2>2, <3>1, <3>2
  <2> QED
    BY <1>1, <2>1, <2>2
<1>7. \A k \in 1 .. a + 1 : us[K - (a + 1) + 2 * k] = ShowJob(k, q)
  <2> TAKE k \in 1 .. a + 1
  <2>1. CASE k = a + 1
    BY <1>1, <1>4, <2>1 DEF hj
  <2>2. CASE k \in 1 .. a
    <3>1. js[K - a + 2 * k - 0 - 0] = ShowJob(k, q)
      BY <1>1, <2>2 DEF JobsLeft
    <3>2. us[K - (a + 1) + 2 * k] = js[K - (a + 1) + 2 * k + 1]
      BY <1>1, <1>4, <2>2
    <3> QED
      BY <1>1, <2>2, <3>1, <3>2
  <2> QED
    BY <1>1, <2>1, <2>2
<1>8. JobsLeft(us, q, a + 1, 0, 0)
  BY <1>1, <1>4, <1>5, <1>6, <1>7 DEF JobsLeft
<1> QED
  BY <1>8 DEF us, ts, mj, hj

LEMMA MembersDone ==
  ASSUME NEW js, NEW q, NEW m, JobsLeft(js, q, K, m, m), js # <<>>, m < K
  PROVE  JobsLeft(Tail(js), q, K, m + 1, m)
<1> DEFINE ts == Tail(js)
<1>1. K \in Nat /\ m \in Nat /\ js \in Seq(SearchJobs(q)) /\ Len(js) = 2 * K - 2 * m
  BY KIsNumber DEF JobsLeft
<1>2. /\ ts \in Seq(SearchJobs(q)) /\ Len(ts) = 2 * K - 2 * m - 1
      /\ \A i \in 1 .. 2 * K - 2 * m - 1 : ts[i] = js[i + 1]
  BY <1>1
<1> HIDE DEF ts
<1>3. \A k \in m + 2 .. K : ts[K - K + 2 * k - 1 - (m + 1) - m] = MembersJob(k, q)
  <2> TAKE k \in m + 2 .. K
  <2>1. js[K - K + 2 * k - 1 - m - m] = MembersJob(k, q)
    BY <1>1 DEF JobsLeft
  <2> QED
    BY <1>1, <1>2, <2>1
<1>4. \A k \in m + 1 .. K : ts[K - K + 2 * k - (m + 1) - m] = ShowJob(k, q)
  <2> TAKE k \in m + 1 .. K
  <2>1. js[K - K + 2 * k - m - m] = ShowJob(k, q)
    BY <1>1 DEF JobsLeft
  <2> QED
    BY <1>1, <1>2, <2>1
<1>5. JobsLeft(ts, q, K, m + 1, m)
  BY <1>1, <1>2, <1>3, <1>4 DEF JobsLeft
<1> QED
  BY <1>5 DEF ts

LEMMA HandleDone ==
  ASSUME NEW js, NEW q, NEW h, JobsLeft(js, q, K, h + 1, h), js # <<>>
  PROVE  JobsLeft(Tail(js), q, K, h + 1, h + 1)
<1> DEFINE ts == Tail(js)
<1>1. /\ K \in Nat /\ h \in Nat /\ h + 1 <= K
      /\ js \in Seq(SearchJobs(q)) /\ Len(js) = 2 * K - 2 * h - 1
  BY KIsNumber DEF JobsLeft
<1>2. /\ ts \in Seq(SearchJobs(q)) /\ Len(ts) = 2 * K - 2 * h - 2
      /\ \A i \in 1 .. 2 * K - 2 * h - 2 : ts[i] = js[i + 1]
  BY <1>1
<1> HIDE DEF ts
<1>3. \A k \in h + 2 .. K : ts[K - K + 2 * k - 1 - (h + 1) - (h + 1)] = MembersJob(k, q)
  <2> TAKE k \in h + 2 .. K
  <2>1. js[K - K + 2 * k - 1 - (h + 1) - h] = MembersJob(k, q)
    BY <1>1 DEF JobsLeft
  <2> QED
    BY <1>1, <1>2, <2>1
<1>4. \A k \in h + 2 .. K : ts[K - K + 2 * k - (h + 1) - (h + 1)] = ShowJob(k, q)
  <2> TAKE k \in h + 2 .. K
  <2>1. js[K - K + 2 * k - (h + 1) - h] = ShowJob(k, q)
    BY <1>1 DEF JobsLeft
  <2> QED
    BY <1>1, <1>2, <2>1
<1>5. JobsLeft(ts, q, K, h + 1, h + 1)
  BY <1>1, <1>2, <1>3, <1>4 DEF JobsLeft
<1> QED
  BY <1>5 DEF ts

-----------------------------------------------------------------------------
(* What is shown is what the search has found so far.                        *)

Searching(js, q, a, m, h) ==
  /\ JobsLeft(js, q, a, m, h)
  /\ entityResults = [k \in 1 .. h |-> FoundEntities(k, q)]
  /\ memberResults = [k \in 1 .. m |-> FoundMembers(k, q)]
  /\ js = <<>> /\ K > 0 => progress.running = 0
  /\ panel => K > 0

\* A search whose pattern is malformed, or that was given up.
Abandoned(js, q) ==
  /\ js = <<>>
  /\ \E m, h \in 0 .. K :
       /\ entityResults = [k \in 1 .. h |-> FoundEntities(k, q)]
       /\ memberResults = [k \in 1 .. m |-> FoundMembers(k, q)]
  /\ panel => K > 0 /\ q \in Malformed

InitJobs == {InitJob(t) : t \in {"keyup", "clear", "close", "navigate"}}

ResultInv ==
  /\ queues = Page(queues[1].jobs, queues[4].jobs)
  /\ queues[1].jobs \in Seq(InitJobs)
  /\ \/ \E a, m, h \in 0 .. K : Searching(queues[4].jobs, shown, a, m, h)
     \/ Abandoned(queues[4].jobs, shown)

LEMMA InitResults == Init => ResultInv
<1> SUFFICES ASSUME Init PROVE ResultInv
  OBVIOUS
<1>1. PICK text \in Query \cup {Empty} : InitSearch(text)
  BY DEF Init
<1> DEFINE js == <<InitJob("keyup"), InitJob("clear"), InitJob("close")>>
<1>2. js \in Seq(InitJobs) /\ <<>> \in Seq(InitJobs)
  BY DEF InitJobs
<1>3. [NewQueues EXCEPT ![indexOf(NewQueues, "init")].jobs = js] = Page(js, <<>>)
  BY NewQueuesAre, PageLabels DEF Page
<1>4. [Page(js, <<>>) EXCEPT ![indexOf(Page(js, <<>>), "search")].jobs = PackageJobs(text)]
        = Page(js, PackageJobs(text))
  <2>1. indexOf(Page(js, <<>>), "search") = 4
    BY PageLabels
  <2>2. \A ss : [Page(js, <<>>) EXCEPT ![4].jobs = ss] = Page(js, ss)
    BY DEF Page
  <2> HIDE DEF js
  <2> QED
    BY <2>1, <2>2
<1>5. queues = IF text \in Query \ Malformed THEN Page(js, PackageJobs(text)) ELSE Page(js, <<>>)
  BY <1>1, <1>3, <1>4 DEF InitSearch
<1>6. entityResults = <<>> /\ memberResults = <<>> /\ ~panel
  BY <1>1 DEF InitSearch
<1> HIDE DEF js
<1>7. CASE text \in Query \ Malformed
  <2>1. queues[1].jobs = js /\ queues[4].jobs = PackageJobs(text)
    BY <1>5, <1>7, PageOperations
  <2>2. shown = text
    BY <1>1, <1>7, SearchAssumption DEF InitSearch
  <2>3. JobsLeft(PackageJobs(text), shown, 0, 0, 0)
    BY <2>2, JobsAtFirst
  <2>4. Searching(PackageJobs(text), shown, 0, 0, 0)
    BY <1>6, <2>3, NoJobsLeft, KIsNumber DEF Searching
  <2>5. \E a, m, h \in 0 .. K : Searching(PackageJobs(text), shown, a, m, h)
    BY <2>4, KIsNumber
  <2>6. queues = Page(js, PackageJobs(text))
    BY <1>5, <1>7
  <2> QED
    BY <1>2, <2>1, <2>5, <2>6 DEF ResultInv
<1>8. CASE text \notin Query \ Malformed
  <2>1. queues[1].jobs = js /\ queues[4].jobs = <<>>
    BY <1>5, <1>8, PageOperations
  <2>2. Abandoned(<<>>, shown)
    <3>1. 0 \in 0 .. K /\ 1 .. 0 = {}
      BY KIsNumber
    <3>2. /\ <<>> = [k \in 1 .. 0 |-> FoundEntities(k, shown)]
          /\ <<>> = [k \in 1 .. 0 |-> FoundMembers(k, shown)]
      OBVIOUS
    <3> QED
      BY <1>6, <3>1, <3>2 DEF Abandoned
  <2> QED
    BY <1>2, <1>5, <1>8, <2>1, <2>2 DEF ResultInv
<1> QED
  BY <1>7, <1>8

\* A step that shows nothing more, and removes no job of the search.
LEMMA ResultsKept ==
  ASSUME ResultInv, UNCHANGED <<resultVars, progress>>, panel' => panel,
         NEW is \in Seq(InitJobs), queues' = Page(is, queues[4].jobs)
  PROVE  ResultInv'
<1>1. queues'[1].jobs = is /\ queues'[4].jobs = queues[4].jobs
  BY PageOperations
<1>2. UNCHANGED <<shown, entityResults, memberResults, progress>>
  BY DEF resultVars
<1>3. ASSUME NEW a, NEW m, NEW h, Searching(queues[4].jobs, shown, a, m, h)
      PROVE  Searching(queues[4].jobs, shown, a, m, h)'
  BY <1>1, <1>2, <1>3 DEF Searching
<1>4. ASSUME Abandoned(queues[4].jobs, shown)
      PROVE  Abandoned(queues[4].jobs, shown)'
  BY <1>1, <1>2, <1>4 DEF Abandoned
<1> QED
  BY <1>1, <1>3, <1>4 DEF ResultInv

LEMMA ResultsAlone ==
  ASSUME ResultInv, UNCHANGED <<queues, resultVars, progress>>, panel' => panel
  PROVE  ResultInv'
BY ResultsKept DEF ResultInv

\* A search that begins, or that is given up.
LEMMA SearchAllKeeps ==
  ASSUME ResultInv, NEW text, SearchAll(text), UNCHANGED progress
  PROVE  ResultInv'
<1> DEFINE is == queues[1].jobs
<1>1. queues = Page(is, queues[4].jobs) /\ is \in Seq(InitJobs)
  BY DEF ResultInv
<1> HIDE DEF is
<1>2. Cleared(queues, "search") = Page(is, <<>>)
  BY <1>1, PageOperations
<1>3. panel => K > 0
  BY DEF ResultInv, Searching, Abandoned
<1>4. CASE text = Empty
  <2>1. queues' = Page(is, <<>>) /\ ~panel' /\ UNCHANGED resultVars
    BY <1>2, <1>4 DEF SearchAll
  <2>2. queues'[1].jobs = is /\ queues'[4].jobs = <<>>
    BY <2>1, PageOperations
  <2>3. PICK m, h \in 0 .. K : /\ entityResults = [k \in 1 .. h |-> FoundEntities(k, shown)]
                               /\ memberResults = [k \in 1 .. m |-> FoundMembers(k, shown)]
    BY DEF ResultInv, Searching, Abandoned
  <2>4. Abandoned(queues[4].jobs, shown)'
    BY <2>1, <2>2, <2>3 DEF Abandoned, resultVars
  <2> QED
    BY <1>1, <2>1, <2>2, <2>4 DEF ResultInv
<1>5. CASE text # Empty /\ text \in Malformed
  <2>1. add(Page(is, <<>>), "search", <<>>) /\ UNCHANGED panel
    BY <1>2, <1>5 DEF SearchAll
  <2>2. queues' = Page(is, <<>>)
    <3>1. queues' = Page(is, <<>> \o <<>>)
      BY <2>1, PageAdd
    <3>2. <<>> \o <<>> = <<>>
      OBVIOUS
    <3> QED
      BY <3>1, <3>2
  <2>3. queues'[1].jobs = is /\ queues'[4].jobs = <<>>
    BY <2>2, PageOperations
  <2>4. shown' = text /\ entityResults' = <<>> /\ memberResults' = <<>>
    BY <1>5 DEF SearchAll
  <2>5. Abandoned(queues[4].jobs, shown)'
    <3>1. 0 \in 0 .. K
      BY KIsNumber
    <3>2. /\ <<>> = [k \in 1 .. 0 |-> FoundEntities(k, text)]
          /\ <<>> = [k \in 1 .. 0 |-> FoundMembers(k, text)]
      OBVIOUS
    <3> QED
      BY <1>3, <1>5, <2>1, <2>3, <2>4, <3>1, <3>2 DEF Abandoned
  <2> QED
    BY <1>1, <2>2, <2>3, <2>5 DEF ResultInv
<1>6. CASE text # Empty /\ text \notin Malformed
  <2>1. add(Page(is, <<>>), "search", PackageJobs(text)) /\ UNCHANGED panel
    BY <1>2, <1>6 DEF SearchAll
  <2>2. queues' = Page(is, <<>> \o PackageJobs(text))
    BY <2>1, PageAdd
  <2>3. queues'[1].jobs = is /\ queues'[4].jobs = <<>> \o PackageJobs(text)
    BY <2>2, PageOperations
  <2>4. shown' = text /\ entityResults' = <<>> /\ memberResults' = <<>>
    BY <1>6 DEF SearchAll
  <2>5. Searching(queues[4].jobs, shown, 0, 0, 0)'
    <3>1. JobsLeft(<<>> \o PackageJobs(text), text, 0, 0, 0)
      BY JobsAtFirst
    <3>2. <<>> \o PackageJobs(text) = <<>> => ~(K > 0)
      BY <3>1, NoJobsLeft, KIsNumber
    <3>3. /\ <<>> = [k \in 1 .. 0 |-> FoundEntities(k, text)]
          /\ <<>> = [k \in 1 .. 0 |-> FoundMembers(k, text)]
      OBVIOUS
    <3> HIDE DEF PackageJobs
    <3> QED
      BY <1>3, <2>1, <2>3, <2>4, <3>1, <3>2, <3>3 DEF Searching
  <2> QED
    <3>1. \E a, m, h \in 0 .. K : Searching(queues[4].jobs, shown, a, m, h)'
      BY <2>5, KIsNumber
    <3> QED
      BY <1>1, <2>2, <2>3, <3>1 DEF ResultInv
<1> QED
  BY <1>4, <1>5, <1>6

\* The three jobs of a search.
LEMMA SearchPackageKeeps ==
  ASSUME ResultInv, NEW a, Searching(queues[4].jobs, shown, a, 0, 0), a < K,
         NEW is \in Seq(InitJobs),
         queues' = Page(is, Tail(queues[4].jobs)
                              \o <<MembersJob(a + 1, shown),
                                   ShowJob(a + 1, shown)>>),
         queues[4].jobs # <<>>, UNCHANGED <<resultVars, panel, progress>>
  PROVE  ResultInv'
<1> DEFINE js == Tail(queues[4].jobs) \o <<MembersJob(a + 1, shown),
                                  ShowJob(a + 1, shown)>>
<1>1. queues'[1].jobs = is /\ queues'[4].jobs = js
  BY PageOperations
<1>2. JobsLeft(js, shown, a + 1, 0, 0)
  BY PackageDone DEF Searching
<1>3. a + 1 \in 0 .. K /\ 0 \in 0 .. K /\ K > 0
  BY <1>2, KIsNumber DEF JobsLeft
<1>4. js # <<>>
  <2>1. js = <<>> => 0 = K
    BY <1>2, NoJobsLeft
  <2> QED
    BY <1>3, <2>1
<1> HIDE DEF js
<1>5. Searching(queues[4].jobs, shown, a + 1, 0, 0)'
  BY <1>1, <1>2, <1>3, <1>4 DEF Searching, resultVars
<1> QED
  BY <1>1, <1>3, <1>5 DEF ResultInv, js

LEMMA SearchMembersKeeps ==
  ASSUME ResultInv, NEW m, Searching(queues[4].jobs, shown, K, m, m), m < K,
         NEW is \in Seq(InitJobs), queues' = Page(is, Tail(queues[4].jobs)),
         memberResults' = Append(memberResults, FoundMembers(m + 1, shown)),
         queues[4].jobs # <<>>, UNCHANGED <<shown, entityResults, panel, progress>>
  PROVE  ResultInv'
<1> DEFINE js == Tail(queues[4].jobs)
<1>1. queues'[1].jobs = is /\ queues'[4].jobs = js
  BY PageOperations
<1>2. JobsLeft(js, shown, K, m + 1, m)
  BY MembersDone DEF Searching
<1>3. m \in Nat /\ m + 1 \in 0 .. K /\ m \in 0 .. K /\ K \in 0 .. K /\ m # K
  BY <1>2, KIsNumber DEF JobsLeft
<1>4. js # <<>>
  BY <1>2, <1>3, NoJobsLeft
<1>5. memberResults' = [k \in 1 .. m + 1 |-> FoundMembers(k, shown)]
  BY <1>3 DEF Searching
<1> HIDE DEF js
<1>6. Searching(queues[4].jobs, shown, K, m + 1, m)'
  BY <1>1, <1>2, <1>4, <1>5 DEF Searching
<1>7. \E a, n, h \in 0 .. K : Searching(queues[4].jobs, shown, a, n, h)'
  BY <1>3, <1>6
<1> QED
  BY <1>1, <1>7 DEF ResultInv, js

LEMMA HandlePackageKeeps ==
  ASSUME ResultInv, NEW h, Searching(queues[4].jobs, shown, K, h + 1, h), h \in 0 .. K,
         NEW is \in Seq(InitJobs), queues' = Page(is, Tail(queues[4].jobs)),
         entityResults' = Append(entityResults, FoundEntities(h + 1, shown)),
         progress'.running = Len(Tail(queues[4].jobs)),
         queues[4].jobs # <<>>, UNCHANGED <<shown, memberResults>>
  PROVE  ResultInv'
<1> DEFINE js == Tail(queues[4].jobs)
<1>1. queues'[1].jobs = is /\ queues'[4].jobs = js
  BY PageOperations
<1>2. JobsLeft(js, shown, K, h + 1, h + 1)
  BY HandleDone DEF Searching
<1>3. h \in Nat /\ h + 1 \in 0 .. K /\ K \in 0 .. K /\ K > 0
  BY <1>2, KIsNumber DEF JobsLeft
<1>4. entityResults' = [k \in 1 .. h + 1 |-> FoundEntities(k, shown)]
  BY <1>3 DEF Searching
<1>5. js = <<>> => progress'.running = 0
  OBVIOUS
<1> HIDE DEF js
<1>6. Searching(queues[4].jobs, shown, K, h + 1, h + 1)'
  BY <1>1, <1>2, <1>3, <1>4, <1>5 DEF Searching
<1>7. \E a, m, n \in 0 .. K : Searching(queues[4].jobs, shown, a, m, n)'
  BY <1>3, <1>6
<1> QED
  BY <1>1, <1>7 DEF ResultInv, js

\* The timer executes the first job: of the page, or, if there is none, of the search.
LEMMA TimeoutKeeps == ASSUME ResultInv, Timeout PROVE ResultInv'
<1> DEFINE is  == queues[1].jobs
           js  == queues[4].jobs
           job == NextWork(queues)
<1>1. queues = Page(is, js) /\ is \in Seq(InitJobs)
  BY DEF ResultInv
<1>2. CASE Idle
  <2>1. UNCHANGED <<queues, resultVars, panel, progress>>
    BY <1>2 DEF Timeout, Idle
  <2> QED
    BY <2>1, ResultsAlone
<1>3. CASE /\ NextQueue(queues) # 0
           /\ \/ InstallHandler(job) \/ StartNavigation(job)
              \/ SearchPackage(job) \/ SearchMembers(job) \/ HandlePackage(job)
  <2>1. is # <<>> \/ js # <<>>
    BY <1>1, <1>3, PageNext
  <2>2. CASE is # <<>>
    <3>1. Head(is) \in InitJobs /\ Tail(is) \in Seq(InitJobs)
      BY <1>1, <2>2
    <3>2. job = Head(is) /\ Shifted(queues) = Page(Tail(is), js)
      BY <1>1, <2>2, PageOperations
    <3>3. job.type \in {"keyup", "clear", "close", "navigate"}
      BY <3>1, <3>2 DEF InitJobs, InitJob
    <3> HIDE DEF job
    <3>4. queues' = Shifted(queues) /\ UNCHANGED <<resultVars, panel, progress>>
      BY <1>3, <3>3
      DEF InstallHandler, StartNavigation, SearchPackage, SearchMembers,
          HandlePackage
    <3> QED
      BY <3>1, <3>2, <3>4, ResultsKept
  <2>3. CASE is = <<>> /\ js # <<>>
    <3>1. job = Head(js) /\ Shifted(queues) = Page(is, Tail(js))
      BY <1>1, <2>3, PageOperations
    <3>2. PICK a, m, h \in 0 .. K : Searching(js, shown, a, m, h)
      BY <2>3 DEF ResultInv, Abandoned
    <3>3. JobsLeft(js, shown, a, m, h)
      BY <3>2 DEF Searching
    <3> HIDE DEF job
    <3>4. CASE a < K /\ m = 0 /\ h = 0 /\ Head(js) = PackageJob(a + 1, shown)
      <4>1. job = PackageJob(a + 1, shown)
        BY <3>1, <3>4
      <4>2. SearchPackage(job)
        BY <1>3, <4>1
        DEF PackageJob, InstallHandler, StartNavigation, SearchMembers,
            HandlePackage
      <4>3. /\ add(Page(is, Tail(js)), "search",
                   <<MembersJob(a + 1, shown), ShowJob(a + 1, shown)>>)
            /\ UNCHANGED <<resultVars, panel, progress>>
        BY <3>1, <4>1, <4>2 DEF SearchPackage, PackageJob, ShowJob
      <4>4. queues' = Page(is, Tail(js) \o
                   <<MembersJob(a + 1, shown), ShowJob(a + 1, shown)>>)
        BY <4>3, PageAdd
      <4> QED
        BY <1>1, <2>3, <3>2, <3>4, <4>3, <4>4, SearchPackageKeeps
    <3>5. CASE a = K /\ m = h /\ m < K /\ Head(js) = MembersJob(m + 1, shown)
      <4>1. job = MembersJob(m + 1, shown)
        BY <3>1, <3>5
      <4>2. SearchMembers(job)
        BY <1>3, <4>1
        DEF MembersJob, InstallHandler, StartNavigation, SearchPackage,
            HandlePackage
      <4>3. /\ queues' = Page(is, Tail(js))
            /\ memberResults' = Append(memberResults, FoundMembers(m + 1, shown))
            /\ UNCHANGED <<shown, entityResults, panel, progress>>
        BY <3>1, <4>1, <4>2 DEF SearchMembers, MembersJob, FoundMembers
      <4> QED
        BY <1>1, <2>3, <3>2, <3>5, <4>3, SearchMembersKeeps
    <3>6. CASE a = K /\ m = h + 1 /\ Head(js) = ShowJob(h + 1, shown)
      <4>1. job = ShowJob(h + 1, shown)
        BY <3>1, <3>6
      <4>2. HandlePackage(job)
        BY <1>3, <4>1
        DEF ShowJob, HandleJob, InstallHandler, StartNavigation, SearchPackage,
            SearchMembers
      <4>3. /\ queues' = Page(is, Tail(js))
            /\ entityResults' = Append(entityResults, FoundEntities(h + 1, shown))
            /\ progress'.running = numberOfJobs(Page(is, Tail(js)), "search")
            /\ UNCHANGED <<shown, memberResults>>
        BY <3>1, <4>1, <4>2 DEF HandlePackage, ShowJob, HandleJob, FoundEntities
      <4>4. progress'.running = Len(Tail(js))
        BY <4>3, PageOperations DEF numberOfJobs
      <4> QED
        BY <1>1, <2>3, <3>2, <3>6, <4>3, <4>4, HandlePackageKeeps
    <3> QED
      BY <2>3, <3>3, <3>4, <3>5, <3>6, FirstJob
  <2> QED
    BY <2>1, <2>2, <2>3
<1> QED
  BY <1>2, <1>3 DEF Timeout

LEMMA KeyUpResults == ASSUME ResultInv, KeyUp PROVE ResultInv'
<1>1. CASE UNCHANGED searchVars
  BY <1>1, ResultsAlone DEF searchVars
<1>2. CASE SearchKeyUp(pressed) /\ pressed = "down"
  <2>1. add(queues, "init", <<InitJob("navigate")>>) /\ UNCHANGED <<resultVars, panel, progress>>
    BY <1>2 DEF SearchKeyUp, searchVars
  <2>2. queues = Page(queues[1].jobs, queues[4].jobs) /\ queues[1].jobs \in Seq(InitJobs)
    BY DEF ResultInv
  <2>3. queues' = Page(queues[1].jobs \o <<InitJob("navigate")>>, queues[4].jobs)
    BY <2>1, <2>2, PageAdd
  <2>4. <<InitJob("navigate")>> \in Seq(InitJobs)
    BY DEF InitJobs
  <2>5. queues[1].jobs \o <<InitJob("navigate")>> \in Seq(InitJobs)
    BY <2>2, <2>4
  <2> QED
    BY <2>1, <2>3, <2>5, ResultsKept
<1>3. CASE SearchKeyUp(pressed) /\ pressed \notin {"up", "down"}
  <2>1. SearchAll(input') /\ UNCHANGED progress
    BY <1>3 DEF SearchKeyUp
  <2> QED
    BY <2>1, SearchAllKeeps
<1>4. CASE SearchKeyUp(pressed) /\ pressed = "up"
  <2>1. UNCHANGED searchVars
    BY <1>4 DEF SearchKeyUp
  <2> QED
    BY <1>1, <2>1
<1> QED
  BY <1>1, <1>2, <1>3, <1>4 DEF KeyUp

LEMMA NextResults == ResultInv /\ [Next]_vars => ResultInv'
<1> SUFFICES ASSUME ResultInv, [Next]_vars PROVE ResultInv'
  OBVIOUS
<1>1. CASE \E key \in Key : KeyDown(key)
  <2>1. PICK key \in Key : KeyDown(key)
    BY <1>1
  <2>2. UNCHANGED <<queues, resultVars, progress>> /\ (panel' => panel)
    <3>1. ASSUME NavigationKey(key)
          PROVE  UNCHANGED <<queues, resultVars, progress>> /\ (panel' => panel)
      <4>1. UNCHANGED <<queues, resultVars, progress>>
        BY <3>1 DEF NavigationKey
      <4>2. panel' = (panel /\ (navigation = <<>> \/ key # "escape"))
        BY <3>1 DEF NavigationKey
      <4> QED
        BY <4>1, <4>2
    <3>2. ASSUME Tab \/ Text PROVE UNCHANGED <<queues, resultVars, progress, panel>>
      BY <3>2 DEF Tab, Text, searchVars
    <3> QED
      BY <2>1, <3>1, <3>2 DEF KeyDown
  <2> QED
    BY <2>2, ResultsAlone
<1>2. CASE KeyUp
  BY <1>2, KeyUpResults
<1>3. CASE \E box \in {"search", "members"} : Focus(box)
  BY <1>3, ResultsAlone DEF Focus
<1>4. CASE CloseResults
  BY <1>4, ResultsAlone DEF CloseResults, Close
<1>5. CASE Control
  BY <1>5, ResultsAlone DEF Control
<1>6. CASE TimerFires
  BY <1>6, TimeoutKeeps DEF TimerFires
<1>7. CASE UNCHANGED vars
  BY <1>7, ResultsAlone DEF vars, searchVars
<1> QED
  BY <1>1, <1>2, <1>3, <1>4, <1>5, <1>6, <1>7 DEF Next

\* However searches follow or interrupt one another, both lists of results are those of the
\* query shown, and complete when no job is left (ResultsOfOneQuery), for any packages.
THEOREM ResultsOfOneQueryHolds == Spec => []ResultsOfOneQuery
<1>1. ResultInv => ResultsOfOneQuery
  <2> SUFFICES ASSUME ResultInv PROVE ResultsOfOneQuery
    OBVIOUS
  <2>1. PICK m, h \in 0 .. K : /\ entityResults = [k \in 1 .. h |-> FoundEntities(k, shown)]
                               /\ memberResults = [k \in 1 .. m |-> FoundMembers(k, shown)]
    BY DEF ResultInv, Searching, Abandoned
  <2>2. /\ entityResults = [k \in DOMAIN entityResults |-> FoundEntities(k, shown)]
        /\ memberResults = [k \in DOMAIN memberResults |-> FoundMembers(k, shown)]
    BY <2>1
  <2>3. ASSUME panel, shown \notin Malformed, numberOfJobs(queues, "search") = 0
        PROVE  Complete(shown) /\ progress.running = 0
    <3>1. PICK a, n, i \in 0 .. K : Searching(queues[4].jobs, shown, a, n, i)
      BY <2>3 DEF ResultInv, Abandoned
    <3>2. Len(queues[4].jobs) = 0
      <4>1. queues = Page(queues[1].jobs, queues[4].jobs)
        BY DEF ResultInv
      <4>2. Jobs(queues, "search") = queues[4].jobs
        BY <4>1, PageOperations
      <4> QED
        BY <2>3, <4>2 DEF numberOfJobs
    <3>3. queues[4].jobs = <<>>
      BY <3>1, <3>2 DEF Searching, JobsLeft
    <3>4. n = K /\ i = K
      BY <3>1, <3>3, NoJobsLeft DEF Searching
    <3> QED
      BY <2>3, <3>1, <3>3, <3>4, KIsNumber DEF Searching, Complete
  <2> QED
    BY <2>2, <2>3 DEF ResultsOfOneQuery
<1> QED
  BY <1>1, InitResults, NextResults, PTL DEF Spec
=============================================================================
