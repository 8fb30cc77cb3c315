---------------------------- MODULE MemberFilter ----------------------------
(***************************************************************************)
(* The controls of a page of the API documentation that say which members   *)
(* of an entity are displayed (docs/latest/api/lib/template.js).              *)
(***************************************************************************)
EXTENDS Naturals, FiniteSets

CONSTANTS
  Member,
  Owner,           \* the entity that defines each member
  Private,         \* the members that are not public
  Ancestor, Self,  \* the linearization and the implicit views; its first element
  Hidden,          \* the ancestors that are out at first
  MemberQuery, MemberMatches,  \* what may be typed, and the members it matches
  HasGroups        \* the page offers the order by groups

NoQuery == ""

ASSUME FilterAssumption ==
  /\ Owner \in [Member -> UNION {Ancestor, {Owner[m] : m \in Member}}]
  /\ Private \subseteq Member
  /\ Self \in Ancestor \ Hidden
  /\ Hidden \subseteq Ancestor
  /\ NoQuery \notin MemberQuery
  /\ MemberMatches \in [MemberQuery -> SUBSET Member]
  /\ HasGroups \in BOOLEAN

VARIABLES
  visibility,   \* the button that is in: "public" or "all"
  in,           \* the ancestors that are in
  all,          \* the button that is in: "hideall" or "showall"
  order,        \* the button that is in
  query,        \* the text of the box
  displayed,    \* the members that the list of this order displays
  erased        \* auxiliary: the text that the tabulator erased, if the members are still
                \* filtered by it; otherwise NoQuery

filterVars == <<visibility, in, all, order, query, displayed, erased>>

\* initInherit: the members that the list of an order holds.  Each group has a heading,
\* and so has each ancestor but the entity itself.
Listed(o) == IF o = "inherit" THEN {m \in Member : Owner[m] \in Ancestor \ {Self}} ELSE Member

\* What filterFunc hides, test by test.
HiddenAsPrivate(v)    == IF v = "public" THEN Private ELSE {}
HiddenWithOwner(i, o) == IF o = "inherit" THEN {} ELSE {m \in Member : Owner[m] \in Ancestor \ i}
HiddenByQuery(q)      == IF q = NoQuery THEN {} ELSE Member \ MemberMatches[q]

Displayed(v, i, o, q) ==
  Listed(o) \ UNION {HiddenAsPrivate(v), HiddenWithOwner(i, o), HiddenByQuery(q)}

\* filter, at the end of a handler.
filter ==
  /\ displayed' = Displayed(visibility', in', order', query')
  /\ erased' = NoQuery

\* exposeMember: the visibility and the ancestors that a member needs.
VisibilityFor(m, v) == IF m \in Private THEN "all" ELSE v
AncestorsFor(m, i)  == i \cup ({Owner[m]} \cap Ancestor)

\* The page is loaded, with the anchor of a member or without (m = NoQuery).
InitFilter(m) ==
  LET first == Ancestor \ Hidden IN
  /\ visibility = IF m = NoQuery THEN "public" ELSE VisibilityFor(m, "public")
  /\ in = IF m = NoQuery THEN first ELSE AncestorsFor(m, first)
  /\ all = "showall"
  /\ order = IF HasGroups THEN "group" ELSE "alpha"
  /\ query = NoQuery
  /\ displayed = Displayed(visibility, in, order, query)
  /\ erased = NoQuery

-----------------------------------------------------------------------------
\* A click on one of the buttons of the visibility that is out.
ToggleVisibility(v) ==
  /\ v # visibility
  /\ visibility' = v
  /\ UNCHANGED <<in, all, order, query>>
  /\ filter

\* Mutant of ToggleAncestor: the members are not filtered again.
ToggleAncestorSilently(a) ==
  /\ in' = IF a \in in THEN in \ {a} ELSE in \cup {a}
  /\ UNCHANGED <<visibility, all, order, query, displayed, erased>>

\* A click on an ancestor.
ToggleAncestor(a) ==
  /\ in' = IF a \in in THEN in \ {a} ELSE in \cup {a}
  /\ UNCHANGED <<visibility, all, order, query>>
  /\ filter

HideAll ==
  /\ in' = {Self}
  /\ all' = "hideall"
  /\ UNCHANGED <<visibility, order, query>>
  /\ filter

\* The ancestors that were hidden at first stay as they are.
ShowAll ==
  /\ in' = in \cup (Ancestor \ Hidden)
  /\ all' = "showall"
  /\ UNCHANGED <<visibility, order, query>>
  /\ filter

\* orderAlpha, orderInherit, orderGroup.
Order(o) ==
  /\ o # order
  /\ o = "group" => HasGroups
  /\ order' = o
  /\ UNCHANGED <<visibility, in, all, query>>
  /\ filter

\* A click on the permalink of a member.
ExposeMember(m) ==
  /\ m \in displayed
  /\ visibility' = VisibilityFor(m, visibility)
  /\ in' = AncestorsFor(m, in)
  /\ UNCHANGED <<all, order, query>>
  /\ filter

\* keyup in the box; escape, up and the keys of pages empty it.
FilterKeyUp(key) ==
  /\ query' = IF key \in {"escape", "up", "page"} THEN NoQuery ELSE query
  /\ UNCHANGED <<visibility, in, all, order>>
  /\ filter

\* Mutant of ClearFilter: the members are not filtered again.
ClearFilterSilently ==
  /\ query # NoQuery
  /\ query' = NoQuery
  /\ UNCHANGED <<visibility, in, all, order, displayed, erased>>

\* A click on .clear, which a text in the box shows.
ClearFilter ==
  /\ query # NoQuery
  /\ query' = NoQuery
  /\ UNCHANGED <<visibility, in, all, order>>
  /\ filter

\* keydown of the tabulator empties the box, and the members are not filtered again.
TabFilter ==
  /\ query' = NoQuery
  /\ erased' = IF query = NoQuery THEN erased ELSE query
  /\ UNCHANGED <<visibility, in, all, order, displayed>>
=============================================================================
