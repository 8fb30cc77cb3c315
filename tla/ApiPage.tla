------------------------------ MODULE ApiPage ------------------------------
(***************************************************************************)
(* A page of the API documentation: the search box (SearchPage) and the     *)
(* controls of the members (MemberFilter), with one keyboard and one timer.    *)
(* The jobs of the scheduler are executed between any two events, so also     *)
(* between keydown and keyup; what one key does depends on who has the focus   *)
(* when it goes down and when it comes up.                                   *)
(***************************************************************************)
EXTENDS SearchPage, MemberFilter

CONSTANT MaxGestures    \* bound: what the reader does

VARIABLES
  pressed,    \* the key that is down
  gestures    \* bounded counter

vars == <<searchVars, filterVars, pressed, gestures>>

Key == {"text", "enter", "escape", "up", "down", "left", "right", "page", "tab"}

ASSUME PageAssumption == None \notin Key

Init ==
  /\ \E text \in Query \cup {Empty} : InitSearch(text)
  /\ \E m \in Member \cup {NoQuery} : InitFilter(m)
  /\ pressed = None
  /\ gestures = 0

\* The reader does one thing at a time, until another page is opened.
Gesture ==
  /\ opened = None
  /\ pressed = None
  /\ gestures < MaxGestures
  /\ gestures' = gestures + 1

\* The tabulator is caught before the window sees it.
Tab ==
  /\ focus' = "search"
  /\ TabFilter
  /\ UNCHANGED <<queues, timeout, handlers, input, resultVars, panel, navigation, maxJobs,
                 progress, opened>>

\* A text is typed in the box that has the focus.
Text ==
  \/ /\ focus = "search"
     /\ input' \in Query \cup {Empty}
     /\ UNCHANGED <<queues, timeout, handlers, resultVars, panel, navigation, maxJobs,
                    progress, focus, opened, filterVars>>
  \/ /\ focus = "members"
     /\ query' \in MemberQuery \cup {NoQuery}
     /\ UNCHANGED <<searchVars, visibility, in, all, order, displayed, erased>>

KeyDown(key) ==
  /\ Gesture
  /\ pressed' = key
  /\ \/ key = "tab" /\ Tab
     \/ key = "text" /\ Text
     \/ key \notin {"tab", "text"} /\ NavigationKey(key) /\ UNCHANGED filterVars

KeyUp ==
  /\ opened = None
  /\ pressed # None
  /\ pressed' = None
  /\ \/ focus = "search" /\ SearchKeyUp(pressed) /\ UNCHANGED filterVars
     \/ focus = "members" /\ FilterKeyUp(pressed) /\ UNCHANGED searchVars
     \/ /\ focus = "elsewhere" \/ (focus = "search" /\ "keyup" \notin handlers)
        /\ UNCHANGED <<searchVars, filterVars>>
  /\ UNCHANGED gestures

\* The reader clicks into a box.
Focus(box) ==
  /\ Gesture
  /\ focus # box
  /\ box = "members" => ~panel
  /\ focus' = box
  /\ UNCHANGED <<queues, timeout, handlers, input, resultVars, panel, navigation, maxJobs,
                 progress, opened, filterVars, pressed>>

CloseResults ==
  /\ Gesture
  /\ Close
  /\ UNCHANGED <<filterVars, pressed>>

\* A click on one of the controls, which the results cover when they are visible.
Control ==
  /\ Gesture
  /\ ~panel
  /\ \/ \E v \in {"public", "all"} : ToggleVisibility(v)
     \/ \E a \in Ancestor : ToggleAncestor(a)
     \/ HideAll \/ ShowAll \/ ClearFilter
     \/ \E o \in {"alpha", "inherit", "group"} : Order(o)
     \/ \E m \in Member : ExposeMember(m)
  /\ focus' = "elsewhere"
  /\ UNCHANGED <<queues, timeout, handlers, input, resultVars, panel, navigation, maxJobs,
                 progress, opened, pressed>>

TimerFires ==
  /\ Timeout
  /\ UNCHANGED <<filterVars, pressed, gestures>>

Next ==
  \/ \E key \in Key : KeyDown(key)
  \/ KeyUp
  \/ \E box \in {"search", "members"} : Focus(box)
  \/ CloseResults
  \/ Control
  \/ TimerFires

Spec == Init /\ [][Next]_vars

\* The browser fires the timers that are set.
FairSpec == Spec /\ WF_vars(TimerFires)

-----------------------------------------------------------------------------
\* The packages that a search has dealt with, in order, and what it found in each.
FoundEntities(k, q) == [package |-> k, query |-> q, found |-> MatchedEntities(k, q)]
FoundMembers(k, q)  == [package |-> k, query |-> q, found |-> EntitiesWithMembers(k, q)]

Complete(q) ==
  /\ entityResults = [k \in DOMAIN PACKAGES |-> FoundEntities(k, q)]
  /\ memberResults = [k \in DOMAIN PACKAGES |-> FoundMembers(k, q)]

\* Both lists of results are those of the query shown above them, package by package and in
\* order, however searches follow or interrupt one another; and results that are visible
\* are complete, and the progress bar full, unless jobs are left or the pattern is malformed.
ResultsOfOneQuery ==
  /\ entityResults = [k \in DOMAIN entityResults |-> FoundEntities(k, shown)]
  /\ memberResults = [k \in DOMAIN memberResults |-> FoundMembers(k, shown)]
  /\ panel /\ shown \notin Malformed /\ numberOfJobs(queues, "search") = 0 =>
       Complete(shown) /\ progress.running = 0

\* The members displayed are those that visibility, ancestors, order and text let through,
\* after any sequence of clicks and keys.  The text may be another one than that of the box
\* in two cases only: a key is down that types in the box, whose handler comes with keyup;
\* or the tabulator has emptied the box (template.js:145), and then it is the text that the
\* tabulator erased, until the next handler.
MembersFollowControls ==
  \E q \in MemberQuery \cup {NoQuery} :
    /\ \/ q = query
       \/ query = NoQuery /\ q = erased
       \/ pressed = "text" /\ focus = "members"
    /\ \A m \in Member : m \in displayed <=>
         /\ m \in Private => visibility = "all"
         /\ Owner[m] \in Ancestor \ in => order = "inherit"
         /\ order = "inherit" => Owner[m] \in Ancestor \ {Self}
         /\ q # NoQuery => m \in MemberMatches[q]

\* A search that has begun shows all its results, unless the reader types something else,
\* closes the results, or leaves the page: the timer never stops while jobs are left.
EverySearchCompletes ==
  \A q \in Query \ Malformed :
    shown = q /\ numberOfJobs(queues, "search") > 0 ~>
      (panel /\ Complete(q)) \/ shown # q \/ input = Empty \/ opened # None
=============================================================================
