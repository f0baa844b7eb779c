------------------------------- MODULE WebMap -------------------------------
(***************************************************************************)
(* The map of the page: the hooks of MapView over a MapLibre instance.     *)
(*                                                                         *)
(* An event sets state of App and makes a commit due.  A commit runs the   *)
(* effects of the hooks in their order, with the state it rendered.  The   *)
(* library loads a style in its own time, and setStyle drops what was      *)
(* added to the style before.  Init is the page after its first commit:    *)
(* the instance exists and its first style is loading.                     *)
(***************************************************************************)
EXTENDS Naturals

CONSTANTS
    Modes, Basemaps, Classifications,
    SnapshotB,      \* changeset id -> its later snapshot, the context layer
    Details,        \* answers the panel may show, each an object of its own
    None,
    MaxEvents       \* bound

Changesets == DOMAIN SnapshotB

VARIABLES
    \* App
    mode, basemap, changesetId, visible, selectedChange,
    \* React
    due,            \* a commit is due
    committed,      \* what the last commit rendered: the effects' dependencies
    appliedStyleKey, styleReady,
    \* MapLibre
    loaded,         \* the style has loaded
    waiting,        \* handlers registered with once("style.load")
    sources,        \* the page's own sources, by name
    thrown,         \* "Style is not done loading"
    events,
    \* history, which no step reads
    firstInterval,  \* the first interval rendered over the style in use
    carried         \* no answer came, and none was cleared, since it loaded

app == <<mode, basemap, changesetId, visible, selectedChange>>
library == <<appliedStyleKey, styleReady, loaded, waiting, sources, thrown>>
history == <<firstInterval, carried>>
vars == <<app, due, committed, library, events, history>>

\* None stands for null, which is no changeset, snapshot, record or URL.
ASSUME WebMapAssumption ==
    /\ MaxEvents \in Nat
    /\ None \notin Changesets /\ \A c \in Changesets : SnapshotB[c] # None
    /\ \A s \in SUBSET Classifications : s # None
    /\ \A s \in SUBSET Details : s # None
    /\ \A c \in Changesets, s \in {None} \cup SUBSET Classifications : <<c, s>> # None

NoSources == [context |-> None, changes |-> None, overlay |-> None]

\* A filter of nothing is left out of the URL.
changeTileUrl(c, classifications) ==
    <<c, IF classifications = {} THEN None ELSE classifications>>

Init ==
    /\ mode \in Modes /\ basemap \in Basemaps
    /\ changesetId = None /\ visible = Classifications /\ selectedChange = None
    /\ due = FALSE
    /\ committed = <<changesetId, visible, selectedChange>>
    /\ appliedStyleKey = <<mode, basemap>> /\ styleReady = FALSE
    /\ loaded = FALSE /\ waiting = 1
    /\ sources = NoSources /\ thrown = FALSE
    /\ events = 0
    /\ firstInterval = None /\ carried = TRUE

-----------------------------------------------------------------------------
(* Events. *)

Event ==
    /\ events < MaxEvents /\ events' = events + 1
    /\ due' = TRUE
    /\ UNCHANGED <<committed, library, history>>

ChooseStyle(m, b) ==
    /\ Event
    /\ mode' = m /\ basemap' = b
    /\ UNCHANGED <<changesetId, visible, selectedChange>>

SelectInterval(c) ==
    /\ Event
    /\ changesetId' = c
    /\ UNCHANGED <<mode, basemap, visible, selectedChange>>

toggleClassification(c) ==
    /\ Event
    /\ visible' = (visible \ {c}) \cup ({c} \ visible)
    /\ UNCHANGED <<mode, basemap, changesetId, selectedChange>>

ShowChange(detail) ==
    /\ Event
    /\ changesetId # None
    /\ selectedChange' = detail
    /\ UNCHANGED <<mode, basemap, changesetId, visible>>

\* The library has parsed the style: every handler registered so far is called
\* once.  Loading of a style that was replaced meanwhile is abandoned.
StyleLoad ==
    /\ ~loaded
    /\ loaded' = TRUE
    /\ styleReady' = (styleReady \/ waiting > 0)    \* markStyleLoaded
    /\ due' = (due \/ waiting > 0)
    /\ waiting' = 0
    /\ UNCHANGED <<app, committed, appliedStyleKey, sources, thrown, events, history>>

-----------------------------------------------------------------------------
(* The effects of a commit, each from the sources the one before left. *)

MustSwap == appliedStyleKey # <<mode, basemap>>

\* setStyle(style, { diff: true }): the library may apply the difference.
FaultySetStyle == UNCHANGED loaded /\ waiting' = waiting + 1

\* No handler for the new style.
SilentSetStyle == loaded' = FALSE /\ UNCHANGED waiting

\* setStyle(style, { diff: false }), and once("style.load").
SetStyle == loaded' = FALSE /\ waiting' = waiting + 1

\* Readiness is state, which this commit does not see change.
FaultyReady == styleReady

\* What the layer hooks read in styleReady.current.
Ready == styleReady /\ ~MustSwap

\* useMapInstance: setStyle drops all custom sources and layers.
AfterSwap == IF MustSwap THEN NoSources ELSE sources

\* useChangeLayers: a source is added when it is missing.
WithLayers(s) ==
    IF ~Ready \/ changesetId = None THEN s
    ELSE [s EXCEPT !.context = IF @ = None THEN SnapshotB[changesetId] ELSE @,
                   !.changes = IF @ = None THEN changeTileUrl(changesetId, visible) ELSE @]

\* useChangeLayers: setTiles, if the interval or the filter is a new one.
Retargeted(s) ==
    IF \/ changesetId = None \/ s.changes = None
       \/ <<changesetId, visible>> = <<committed[1], committed[2]>>
    THEN s
    ELSE [s EXCEPT !.changes = changeTileUrl(changesetId, visible)]

\* useSelectionOverlay: the source is added empty.
WithOverlay(s) == IF Ready /\ s.overlay = None THEN [s EXCEPT !.overlay = {}] ELSE s

\* Returns early when nothing is selected.
FaultyOverlaid(s) ==
    IF s.overlay = None \/ selectedChange \in {committed[3], None} THEN s
    ELSE [s EXCEPT !.overlay = {selectedChange}]

\* The data effect is left out: nothing is ever outlined.
BlankOverlaid(s) == s

\* useSelectionOverlay: setData, if the selection is a new one.
Overlaid(s) ==
    IF s.overlay = None \/ selectedChange = committed[3] THEN s
    ELSE [s EXCEPT !.overlay = IF selectedChange = None THEN {} ELSE {selectedChange}]

Remember ==
    /\ firstInterval' = CASE ~Ready -> None
                          [] Ready /\ firstInterval = None -> changesetId
                          [] OTHER -> firstInterval
    /\ carried' = (Ready => carried /\ selectedChange = committed[3])

\* Last comes App's own effect: a new interval clears the selection, which
\* makes another commit due.
Commit ==
    /\ due
    /\ appliedStyleKey' = <<mode, basemap>>
    /\ styleReady' = (styleReady /\ ~MustSwap)
    /\ IF MustSwap THEN SetStyle ELSE UNCHANGED <<loaded, waiting>>
    /\ sources' = Overlaid(WithOverlay(Retargeted(WithLayers(AfterSwap))))
    /\ thrown' = (thrown \/ (Ready /\ ~loaded' /\ sources' # AfterSwap))
    /\ committed' = <<changesetId, visible, selectedChange>>
    /\ IF changesetId # committed[1]
       THEN selectedChange' = None /\ due' = (selectedChange # None)
       ELSE due' = FALSE /\ UNCHANGED selectedChange
    /\ Remember
    /\ UNCHANGED <<mode, basemap, changesetId, visible, events>>

Next ==
    \/ \E m \in Modes, b \in Basemaps : <<m, b>> # <<mode, basemap>> /\ ChooseStyle(m, b)
    \/ \E c \in Changesets \ {changesetId} : SelectInterval(c)
    \/ \E c \in Classifications : toggleClassification(c)
    \/ \E d \in Details \ {selectedChange} : ShowChange(d)
    \/ StyleLoad \/ Commit

\* React commits what is due, and a style that is requested loads.
Spec == Init /\ [][Next]_vars /\ WF_vars(Commit) /\ WF_vars(StyleLoad)

-----------------------------------------------------------------------------
TypeOK ==
    /\ mode \in Modes /\ basemap \in Basemaps
    /\ changesetId \in Changesets \cup {None}
    /\ visible \subseteq Classifications
    /\ selectedChange \in Details \cup {None}
    /\ {due, styleReady, loaded, thrown} \subseteq BOOLEAN
    /\ waiting \in 0..(MaxEvents + 1)
    /\ styleReady => loaded
    /\ ~loaded => waiting > 0
    /\ firstInterval \in Changesets \cup {None} /\ carried \in BOOLEAN

\* However basemap swaps, style loads, interval switches, filters and selections
\* interleave, no source is added to a style that is still loading, and whenever
\* the page is at rest over a loaded style: the change layer asks for the selected
\* interval and for the classifications switched on (for all, when none is); the
\* selected record is outlined, and nothing else, but for a record whose answer
\* came before the style loaded, whose outline the swap has lost; and the context
\* is the after snapshot of the interval first shown over the style in use, not
\* of one selected since.
MapShowsSelection ==
    /\ ~thrown
    /\ ~due /\ ~styleReady => sources = NoSources
    /\ ~due /\ styleReady =>
         /\ sources.changes =
                IF changesetId = None THEN None ELSE changeTileUrl(changesetId, visible)
         /\ sources.overlay =
                IF carried \/ selectedChange = None THEN {} ELSE {selectedChange}
         /\ sources.context =
                IF firstInterval = None THEN None ELSE SnapshotB[firstInterval]

\* After the last swap the page's layers come back.
LayersComeBack ==
    <>[](styleReady /\ (changesetId # None => sources.changes # None))
=============================================================================
