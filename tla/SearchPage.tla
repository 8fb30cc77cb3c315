----------------------------- MODULE SearchPage -----------------------------
(***************************************************************************)
(* The search box of the pages of the API documentation                     *)
(* (docs/latest/api/lib/index.js): a search is cut into jobs, a few for each   *)
(* package; the keyboard moves a selection through the results.               *)
(* A package is its position in the order of the names; the elements of the   *)
(* page are left out but for what they show.                                 *)
(***************************************************************************)
EXTENDS PageScheduler

CONSTANTS
  Query,       \* what the reader may type
  Malformed,   \* the queries whose pattern does not compile
  Matches,     \* the names that a query matches
  PACKAGES,    \* for each package its entities, with their names and members
  None

Empty == ""
Undefined == "undefined"    \* where a link without a reference leads

ASSUME SearchAssumption ==
  /\ Malformed \subseteq Query /\ Empty \notin Query
  /\ DOMAIN Matches = Query
  /\ PACKAGES \in Seq(Range(PACKAGES))

VARIABLES
  handlers,        \* the handlers that configureTextFilter has installed
  input,           \* the text in the search box
  shown,           \* the query shown above the results
  entityResults, memberResults,
  panel,           \* the results are visible
  navigation,      \* the iterators of the keydown handlers of the window
  maxJobs, progress,
  focus,           \* the box that has the focus
  opened           \* the page that replaces this one

resultVars == <<shown, entityResults, memberResults>>
searchVars == <<queues, timeout, handlers, input, resultVars, panel, navigation,
                maxJobs, progress, focus, opened>>

PackageJob(k, q) == [type |-> "package", pack |-> k, query |-> q]
MembersJob(k, q) == [type |-> "members", pack |-> k, query |-> q]
HandleJob(k, q, matched) == [type |-> "handle", pack |-> k, query |-> q, matched |-> matched]
InitJob(t) == [type |-> t]

PackageJobs(q) == [k \in DOMAIN PACKAGES |-> PackageJob(k, q)]

\* The labels of the page.
NewQueues ==
  LabelAdded(LabelAdded(LabelAdded(LabelAdded(<<>>, "init", 1), "focus", 2), "filter", 4),
             "search", 5)

\* The page is loaded, with ?search=text or without (Empty).
InitSearch(text) ==
  LET configured == [NewQueues EXCEPT ![indexOf(NewQueues, "init")].jobs =
                       <<InitJob("keyup"), InitJob("clear"), InitJob("close")>>]
  IN
  /\ queues = IF text \in Query \ Malformed
              THEN [configured EXCEPT ![indexOf(configured, "search")].jobs = PackageJobs(text)]
              ELSE configured
  /\ timeout = TRUE
  /\ handlers = {}
  /\ input = text
  /\ shown = IF text = Empty THEN None ELSE text
  /\ entityResults = <<>> /\ memberResults = <<>>
  /\ panel = FALSE
  /\ navigation = <<>>
  /\ maxJobs = 1
  /\ progress = [running |-> None, max |-> 1]
  /\ focus = "elsewhere"
  /\ opened = None

-----------------------------------------------------------------------------
\* searchAll of a text; what compilePattern throws comes after the results were emptied.
SearchAll(text) ==
  LET cleared == Cleared(queues, "search") IN
  /\ maxJobs' = 1
  /\ \/ /\ text = Empty
        /\ panel' = FALSE
        /\ queues' = cleared
        /\ UNCHANGED <<timeout, resultVars>>
     \/ /\ text # Empty
        /\ shown' = text
        /\ entityResults' = <<>> /\ memberResults' = <<>>
        /\ add(cleared, "search", IF text \in Malformed THEN <<>> ELSE PackageJobs(text))
        /\ UNCHANGED panel

\* The jobs of a search: the package, its members, its results.
MatchedEntities(k, q) == SelectSeq(PACKAGES[k], LAMBDA e : e.name \in Matches[q])
MatchingMembers(e, q) == SelectSeq(e.members, LAMBDA label : label \in Matches[q])

SearchPackage(job) ==
  /\ job.type = "package"
  /\ add(Shifted(queues), "search",
         <<MembersJob(job.pack, job.query),
           HandleJob(job.pack, job.query, MatchedEntities(job.pack, job.query))>>)
  /\ UNCHANGED <<handlers, input, resultVars, panel, navigation, maxJobs, progress, focus>>

\* The promises of searchEntity are kept, in order, before the timer fires again.
EntitiesWithMembers(k, q) ==
  LET found == SelectSeq(PACKAGES[k], LAMBDA e : MatchingMembers(e, q) # <<>>) IN
  [i \in DOMAIN found |-> [name |-> found[i].name, members |-> MatchingMembers(found[i], q)]]

SearchMembers(job) ==
  /\ job.type = "members"
  /\ memberResults' = Append(memberResults, [package |-> job.pack, query |-> job.query,
                                             found |-> EntitiesWithMembers(job.pack, job.query)])
  /\ queues' = Shifted(queues)
  /\ UNCHANGED <<timeout, handlers, input, shown, entityResults, panel, navigation, maxJobs, progress, focus>>

\* handleSearchedPackage and setProgress.
HandlePackage(job) ==
  LET running == numberOfJobs(Shifted(queues), "search")
      max     == IF maxJobs >= running THEN maxJobs ELSE running
  IN
  /\ job.type = "handle"
  /\ panel' = TRUE
  /\ entityResults' = Append(entityResults, [package |-> job.pack, query |-> job.query,
                                             found |-> job.matched])
  /\ queues' = Shifted(queues)
  /\ maxJobs' = max
  /\ progress' = [running |-> running, max |-> max]
  /\ UNCHANGED <<timeout, handlers, input, shown, memberResults, navigation, focus>>

-----------------------------------------------------------------------------
\* EntityIterator: position 0 stands for none.
Items(it) == IF it.right THEN it.ritems ELSE it.litems
Smaller(a, b) == IF a <= b THEN a ELSE b
Stepped(it) == [it EXCEPT !.index = Smaller(Len(Items(it)), @ + 1)]
Back(it)    == [it EXCEPT !.index = IF @ = 0 THEN 0 ELSE @ - 1]
Turned(it, right) ==
  LET to == [it EXCEPT !.right = right] IN
  IF Items(to) = <<>> THEN it ELSE [to EXCEPT !.index = Smaller(@, Len(Items(to)))]

Selected(it) == IF it.index = 0 THEN Undefined ELSE Items(it)[it.index]

\* The links to entities in a list of results.
Links(results) ==
  FlattenSeq([k \in DOMAIN results |->
                [i \in DOMAIN results[k].found |-> results[k].found[i].name]])

\* The job of handleKeyNavigation.
StartNavigation(job) ==
  LET l == Links(entityResults)
      r == Links(memberResults)
  IN
  /\ job.type = "navigate"
  /\ navigation' = Append(navigation,
       Stepped([litems |-> l, ritems |-> r, right |-> l = <<>>, index |-> 0]))
  /\ focus' = IF focus = "search" THEN "elsewhere" ELSE focus
  /\ queues' = Shifted(queues)
  /\ UNCHANGED <<timeout, handlers, input, resultVars, panel, maxJobs, progress>>

\* The jobs of configureTextFilter.
InstallHandler(job) ==
  /\ job.type \in {"keyup", "clear", "close"}
  /\ handlers' = handlers \cup {job.type}
  /\ queues' = Shifted(queues)
  /\ UNCHANGED <<timeout, input, resultVars, panel, navigation, maxJobs, progress, focus>>

\* The timer fires: it executes one job and is set again.
Timeout ==
  /\ opened = None
  /\ \/ /\ Idle
        /\ UNCHANGED <<handlers, input, resultVars, panel, navigation, maxJobs, progress, focus>>
     \/ /\ timeout
        /\ NextQueue(queues) # 0
        /\ LET job == NextWork(queues) IN
           \/ InstallHandler(job) \/ StartNavigation(job)
           \/ SearchPackage(job) \/ SearchMembers(job) \/ HandlePackage(job)
  /\ UNCHANGED opened

-----------------------------------------------------------------------------
\* The handlers of keydown, once for each navigation that was started.
NavigationKey(key) ==
  LET moved == [k \in DOMAIN navigation |->
                  CASE key = "down"  -> Stepped(navigation[k])
                    [] key = "up"    -> Back(navigation[k])
                    [] key = "left"  -> Turned(navigation[k], FALSE)
                    [] key = "right" -> Turned(navigation[k], TRUE)
                    [] OTHER         -> navigation[k]]
      past  == key = "up" /\ \E k \in DOMAIN moved : moved[k].index = 0
  IN
  /\ navigation' = IF past THEN <<>> ELSE moved
  /\ focus' = IF past THEN "search" ELSE focus
  /\ input' = IF navigation # <<>> /\ key \in {"enter", "escape"} THEN Empty ELSE input
  /\ panel' = (panel /\ (navigation = <<>> \/ key # "escape"))
  /\ opened' = IF navigation # <<>> /\ key = "enter" THEN Selected(Last(navigation)) ELSE None
  /\ UNCHANGED <<queues, timeout, handlers, resultVars, maxJobs, progress>>

\* The handler of keyup in the search box.
SearchKeyUp(key) ==
  /\ "keyup" \in handlers
  /\ \/ /\ key = "up"
        /\ UNCHANGED searchVars
     \/ /\ key = "down"
        /\ navigation' = <<>>
        /\ add(queues, "init", <<InitJob("navigate")>>)
        /\ UNCHANGED <<handlers, input, resultVars, panel, maxJobs, progress, focus, opened>>
     \/ /\ key \notin {"up", "down"}
        /\ input' = IF key = "escape" THEN Empty ELSE input
        /\ SearchAll(input')
        /\ UNCHANGED <<handlers, navigation, progress, focus, opened>>

\* A click on .clear, which a text in the box shows, or on .close-results, shown with the
\* results.
Close ==
  /\ \/ "clear" \in handlers /\ input # Empty
     \/ "close" \in handlers /\ panel
  /\ panel' = FALSE
  /\ input' = Empty
  /\ focus' = "elsewhere"
  /\ UNCHANGED <<queues, timeout, handlers, resultVars, navigation, maxJobs, progress, opened>>
=============================================================================
