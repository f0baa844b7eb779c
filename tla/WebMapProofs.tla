---------------------------- MODULE WebMapProofs ----------------------------
(***************************************************************************)
(* Safety of the map of the page, for any styles, intervals, filters and   *)
(* records, and any number of events.                                      *)
(*                                                                         *)
(* The page is only ever compared with what the last commit rendered, so   *)
(* the invariant relates the sources to `committed` and to the history     *)
(* (Dropped, Targeted, InContext, Outlined), and says separately when      *)
(* `committed` is what the page selects (AtRest).                          *)
(***************************************************************************)
EXTENDS WebMap, TLAPS

Urls == { changeTileUrl(c, s) : c \in Changesets, s \in SUBSET Classifications }

Sources ==
    [context : {None} \cup { SnapshotB[c] : c \in Changesets },
     changes : {None} \cup Urls,
     overlay : {None} \cup SUBSET (Details \cup {None})]

SourcesTyped ==
    /\ sources \in Sources
    /\ committed \in (Changesets \cup {None}) \X (SUBSET Classifications)
                        \X (Details \cup {None})
    /\ events \in 0..MaxEvents

\* Readiness is never out of date, and every handler that waits is accounted
\* for by the first style or by an event that asked for another one.
StylesFollowed ==
    /\ styleReady <=> loaded
    /\ ~thrown
    /\ waiting + (IF MustSwap THEN 1 ELSE 0) <= events + 1

\* Nothing outlives a swap.
Dropped == ~styleReady => sources = NoSources

\* A change layer that is there asks for what the last commit rendered.
Targeted ==
    /\ changesetId = None => committed[1] = None
    /\ sources.changes # None =>
         /\ committed[1] # None
         /\ sources.changes = changeTileUrl(committed[1], committed[2])

InContext ==
    sources.context = IF firstInterval = None THEN None ELSE SnapshotB[firstInterval]

Outline(kept, detail) == IF kept \/ detail = None THEN {} ELSE {detail}

\* The outlines are those of the record the last commit rendered, if it was
\* selected over the style in use.
Outlined ==
    IF sources.overlay = None THEN carried
    ELSE sources.overlay = Outline(carried, committed[3])

AtRest ==
    ~due =>
        /\ committed = <<changesetId, visible, selectedChange>>
        /\ ~MustSwap
        /\ styleReady => sources.overlay # None
        /\ styleReady /\ changesetId # None => sources.changes # None

IInv ==
    /\ TypeOK
    /\ SourcesTyped
    /\ StylesFollowed
    /\ Dropped
    /\ Targeted
    /\ InContext
    /\ Outlined
    /\ AtRest

-----------------------------------------------------------------------------
(* The effects, each on the sources the one before it left. *)

LEMMA UrlShape ==
    ASSUME NEW c \in Changesets, NEW s \in SUBSET Classifications
    PROVE  /\ changeTileUrl(c, s) \in Urls /\ changeTileUrl(c, s) # None
           /\ changeTileUrl(c, s)[1] = c
           /\ changeTileUrl(c, s)[2] \in {s, None}
           /\ changeTileUrl(c, s)[2] = None => s = {}
<1>1. changeTileUrl(c, s) \in Urls
    BY DEF Urls
<1>2. PICK f \in {None} \cup SUBSET Classifications :
         changeTileUrl(c, s) = <<c, f>> /\ f \in {s, None} /\ (f = None => s = {})
    BY WebMapAssumption DEF changeTileUrl
<1>3. <<c, f>> # None
    BY WebMapAssumption
<1> QED BY <1>1, <1>2, <1>3

LEMMA NoSourcesShape ==
    /\ NoSources \in Sources
    /\ NoSources.context = None /\ NoSources.changes = None /\ NoSources.overlay = None
BY DEF NoSources, Sources

LEMMA SwapEffect ==
    ASSUME NEW s, s = AfterSwap, sources \in Sources
    PROVE  /\ s \in Sources
           /\ MustSwap => s.changes = None /\ s.context = None /\ s.overlay = None
           /\ ~MustSwap => s = sources
<1>1. CASE MustSwap
    BY <1>1, NoSourcesShape DEF AfterSwap
<1>2. CASE ~MustSwap
    BY <1>2 DEF AfterSwap
<1> QED BY <1>1, <1>2

\* The layers are there once the style is ready and an interval is selected;
\* those that were there are kept.
LEMMA LayersEffect ==
    ASSUME TypeOK, NEW s \in Sources, NEW t, t = WithLayers(s)
    PROVE  /\ t \in Sources /\ t.overlay = s.overlay
           /\ ~Ready => t = s
           /\ Ready /\ changesetId # None => t.changes # None
           /\ \/ t.changes = s.changes
              \/ changesetId # None /\ t.changes = changeTileUrl(changesetId, visible)
           /\ t.context = IF Ready /\ changesetId # None /\ s.context = None
                          THEN SnapshotB[changesetId] ELSE s.context
<1>1. CASE ~Ready \/ changesetId = None
    BY <1>1 DEF WithLayers
<1>2. CASE Ready /\ changesetId # None
    <2>1. changesetId \in Changesets /\ visible \in SUBSET Classifications
        BY <1>2 DEF TypeOK
    <2> DEFINE x == IF s.context = None THEN SnapshotB[changesetId] ELSE s.context
               y == IF s.changes = None THEN changeTileUrl(changesetId, visible)
                    ELSE s.changes
    <2>2. t = [context |-> x, changes |-> y, overlay |-> s.overlay]
        BY <1>2 DEF WithLayers, Sources
    <2>3. /\ x # None /\ y # None
          /\ x \in { SnapshotB[c] : c \in Changesets } /\ y \in Urls
        BY <2>1, UrlShape, WebMapAssumption DEF Sources
    <2>4. /\ y = s.changes \/ y = changeTileUrl(changesetId, visible)
          /\ x = IF Ready /\ changesetId # None /\ s.context = None
                 THEN SnapshotB[changesetId] ELSE s.context
        BY <1>2
    <2> HIDE DEF x, y
    <2>5. t \in Sources
        BY <2>2, <2>3 DEF Sources
    <2>6. t.context = x /\ t.changes = y /\ t.overlay = s.overlay
        BY <2>2
    <2> QED BY <1>2, <2>3, <2>4, <2>5, <2>6
<1> QED BY <1>1, <1>2

\* A layer that is there asks for the current selection afterwards, if it asked
\* for the committed one or already for the current one.
LEMMA RetargetEffect ==
    ASSUME TypeOK, NEW s \in Sources, NEW t, t = Retargeted(s)
    PROVE  /\ t \in Sources /\ t.overlay = s.overlay /\ t.context = s.context
           /\ t.changes = None <=> s.changes = None
           /\ t.changes # None /\ changesetId # None =>
                \/ t.changes = changeTileUrl(changesetId, visible)
                \/ /\ t.changes = s.changes
                   /\ <<changesetId, visible>> = <<committed[1], committed[2]>>
<1>1. CASE \/ changesetId = None \/ s.changes = None
           \/ <<changesetId, visible>> = <<committed[1], committed[2]>>
    BY <1>1 DEF Retargeted
<1>2. CASE ~(\/ changesetId = None \/ s.changes = None
             \/ <<changesetId, visible>> = <<committed[1], committed[2]>>)
    <2>1. changesetId \in Changesets /\ visible \in SUBSET Classifications
        BY <1>2 DEF TypeOK
    <2> DEFINE y == changeTileUrl(changesetId, visible)
    <2>2. y \in Urls /\ y # None
        BY <2>1, UrlShape
    <2>3. t = [s EXCEPT !.changes = y]
        BY <1>2 DEF Retargeted
    <2> HIDE DEF y
    <2>4. t \in Sources /\ t.overlay = s.overlay /\ t.context = s.context /\ t.changes = y
        BY <2>2, <2>3 DEF Sources
    <2> QED BY <1>2, <2>2, <2>4 DEF y
<1> QED BY <1>1, <1>2

\* The two effects of the selection: if the outlines were those of the committed
\* record, they are those of the current one afterwards.
LEMMA OverlayEffect ==
    ASSUME TypeOK, NEW s \in Sources, NEW t, t = Overlaid(WithOverlay(s)),
           s.overlay = None => carried,
           s.overlay # None => Ready /\ s.overlay = Outline(carried, committed[3])
    PROVE  /\ t \in Sources /\ t.changes = s.changes /\ t.context = s.context
           /\ ~Ready => t = s
           /\ Ready => /\ t.overlay # None
                       /\ t.overlay = Outline(carried /\ selectedChange = committed[3],
                                              selectedChange)
<1> DEFINE u == WithOverlay(s)
<1>1. /\ u \in Sources /\ u.changes = s.changes /\ u.context = s.context
      /\ ~Ready => u = s /\ u.overlay = None
      /\ Ready => u.overlay # None /\ u.overlay = Outline(carried, committed[3])
    <2>1. CASE Ready /\ s.overlay = None
        <3>1. u = [s EXCEPT !.overlay = {}]
            BY <2>1 DEF WithOverlay
        <3>2. u \in Sources /\ u.changes = s.changes /\ u.context = s.context /\ u.overlay = {}
            BY <3>1 DEF Sources
        <3> QED BY <2>1, <3>2, WebMapAssumption DEF Outline
    <2>2. CASE ~(Ready /\ s.overlay = None)
        BY <2>2 DEF WithOverlay
    <2> QED BY <2>1, <2>2
<1> HIDE DEF u
<1>2. CASE u.overlay = None
    BY <1>1, <1>2 DEF Overlaid, u
<1>3. CASE u.overlay # None /\ selectedChange = committed[3]
    <2>1. t = u
        BY <1>3 DEF Overlaid, u
    <2>2. carried /\ selectedChange = committed[3] <=> carried
        BY <1>3
    <2>3. Outline(carried /\ selectedChange = committed[3], selectedChange)
            = Outline(carried, committed[3])
        BY Zenon, <1>3, <2>2 DEF Outline
    <2> QED BY <1>1, <1>3, <2>1, <2>3
<1>4. CASE u.overlay # None /\ selectedChange # committed[3]
    <2> DEFINE o == IF selectedChange = None THEN {} ELSE {selectedChange}
    <2>1. /\ o \in SUBSET (Details \cup {None}) /\ o # None
          /\ o = Outline(carried /\ selectedChange = committed[3], selectedChange)
        <3>1. selectedChange # None => selectedChange \in Details
            BY DEF TypeOK
        <3>2. o \in SUBSET Details
            BY <3>1
        <3>3. o # None
            <4>1. None \notin SUBSET Details
                BY WebMapAssumption
            <4> HIDE DEF o
            <4> QED BY Zenon, <3>2, <4>1
        <3>4. o = Outline(carried /\ selectedChange = committed[3], selectedChange)
            BY <1>4 DEF Outline
        <3> QED BY <3>2, <3>3, <3>4
    <2>2. t = [u EXCEPT !.overlay = o]
        BY <1>4 DEF Overlaid, u
    <2> HIDE DEF o
    <2>3. /\ t \in Sources /\ t.changes = u.changes /\ t.context = u.context
          /\ t.overlay = o
        BY <1>1, <2>1, <2>2 DEF Sources
    <2> QED BY <1>1, <1>4, <2>1, <2>3
<1> QED BY <1>2, <1>3, <1>4

-----------------------------------------------------------------------------
(* The steps. *)

LEMMA InitInv == Init => IInv
<1> SUFFICES ASSUME Init PROVE IInv
    OBVIOUS
<1>1. sources \in Sources
    BY NoSourcesShape DEF Init
<1>2. TypeOK
    <2>1. {due, styleReady, loaded, thrown} \subseteq BOOLEAN
        BY Zenon DEF Init
    <2>2. waiting \in 0..(MaxEvents + 1)
        BY WebMapAssumption DEF Init
    <2> QED BY <2>1, <2>2 DEF Init, TypeOK
<1>3. SourcesTyped
    BY <1>1, <1>2, WebMapAssumption DEF Init, TypeOK, SourcesTyped
<1>4. StylesFollowed
    BY DEF Init, StylesFollowed, MustSwap
<1>5. Dropped /\ Targeted /\ InContext /\ Outlined /\ AtRest
    BY NoSourcesShape DEF Init, Dropped, Targeted, InContext, Outlined, AtRest, MustSwap
<1> QED BY <1>2, <1>3, <1>4, <1>5 DEF IInv

\* An event changes what the page selects, and makes a commit due.
LEMMA EventInv ==
    ASSUME IInv, Event,
           mode' \in Modes, basemap' \in Basemaps,
           changesetId' \in Changesets \cup {None},
           changesetId' = None => changesetId = None,
           visible' \subseteq Classifications, selectedChange' \in Details \cup {None}
    PROVE  IInv'
<1> USE WebMapAssumption DEF Event, library, history
<1>1. TypeOK' /\ SourcesTyped'
    BY DEF IInv, TypeOK, SourcesTyped
<1>2. StylesFollowed'
    BY DEF IInv, TypeOK, SourcesTyped, StylesFollowed, MustSwap
<1>3. Dropped' /\ Targeted' /\ InContext' /\ Outlined' /\ AtRest'
    BY DEF IInv, Dropped, Targeted, InContext, Outlined, AtRest
<1> QED BY <1>1, <1>2, <1>3 DEF IInv

LEMMA StyleLoadInv == ASSUME IInv, StyleLoad PROVE IInv'
<1> USE WebMapAssumption DEF StyleLoad, app, history
<1>0. {due', styleReady', loaded', thrown'} \subseteq BOOLEAN
    BY Zenon DEF IInv, TypeOK
<1>1. TypeOK' /\ SourcesTyped'
    BY <1>0 DEF IInv, TypeOK, SourcesTyped
<1>2. StylesFollowed'
    <2>1. styleReady' /\ loaded' /\ waiting' = 0
        BY DEF IInv, TypeOK
    <2>2. ~thrown' /\ MustSwap' = MustSwap /\ events' \in Nat
        BY DEF IInv, SourcesTyped, StylesFollowed, MustSwap
    <2> QED BY <2>1, <2>2 DEF StylesFollowed
<1>3. Dropped' /\ Targeted' /\ InContext' /\ Outlined'
    BY DEF IInv, TypeOK, Dropped, Targeted, InContext, Outlined
<1>4. due'
    BY DEF IInv, TypeOK
<1>5. AtRest'
    BY <1>4 DEF AtRest
<1> QED BY <1>1, <1>2, <1>3, <1>5 DEF IInv

LEMMA CommitInv == ASSUME IInv, Commit PROVE IInv'
<1> USE WebMapAssumption
<1>0. PICK s1 : s1 = AfterSwap
    OBVIOUS
<1>1. PICK s2 : s2 = WithLayers(s1)
    OBVIOUS
<1>2. PICK s3 : s3 = Retargeted(s2)
    OBVIOUS
<1>3. sources' = Overlaid(WithOverlay(s3))
    BY <1>0, <1>1, <1>2 DEF Commit
<1>4. TypeOK /\ sources \in Sources
    BY DEF IInv, SourcesTyped
<1>5. /\ s1 \in Sources
      /\ Ready => s1 = sources /\ styleReady /\ ~MustSwap
      /\ ~Ready => s1 = NoSources
    <2>1. ~MustSwap /\ ~styleReady => s1 = NoSources
        BY <1>0, <1>4, SwapEffect DEF IInv, Dropped
    <2>2. MustSwap => s1 = NoSources
        BY <1>0 DEF AfterSwap
    <2> QED BY <1>0, <1>4, <2>1, <2>2, SwapEffect DEF Ready
<1>6. /\ s2 \in Sources /\ s2.overlay = s1.overlay
      /\ ~Ready => s2 = s1
      /\ Ready /\ changesetId # None => s2.changes # None
      /\ \/ s2.changes = s1.changes
         \/ changesetId # None /\ s2.changes = changeTileUrl(changesetId, visible)
      /\ s2.context = IF Ready /\ changesetId # None /\ s1.context = None
                      THEN SnapshotB[changesetId] ELSE s1.context
    BY <1>1, <1>4, <1>5, LayersEffect
<1>7. /\ s3 \in Sources /\ s3.overlay = s2.overlay /\ s3.context = s2.context
      /\ s3.changes = None <=> s2.changes = None
      /\ s3.changes # None /\ changesetId # None =>
           \/ s3.changes = changeTileUrl(changesetId, visible)
           \/ /\ s3.changes = s2.changes
              /\ <<changesetId, visible>> = <<committed[1], committed[2]>>
      /\ ~Ready => s3 = s2
    <2>1. ~Ready => s2.changes = None
        BY <1>5, <1>6, NoSourcesShape
    <2> QED BY <1>2, <1>4, <1>6, <2>1, RetargetEffect DEF Retargeted
<1>8. /\ sources' \in Sources
      /\ sources'.changes = s3.changes /\ sources'.context = s3.context
      /\ ~Ready => sources' = s3
      /\ Ready => /\ sources'.overlay # None
                  /\ sources'.overlay = Outline(carried', selectedChange)
    <2>1. s3.overlay = s1.overlay
        BY <1>6, <1>7
    <2>2. CASE Ready
        <3>1. s3.overlay = sources.overlay
            BY <1>5, <2>1, <2>2
        <3>2. carried' = (carried /\ selectedChange = committed[3])
            BY <2>2 DEF Commit, Remember
        <3>3. /\ s3.overlay = None => carried
              /\ s3.overlay # None => Ready /\ s3.overlay = Outline(carried, committed[3])
            BY <2>2, <3>1 DEF IInv, Outlined
        <3> QED BY <1>3, <1>4, <1>7, <2>2, <3>2, <3>3, OverlayEffect
    <2>3. CASE ~Ready
        <3>1. s3.overlay = None
            BY <1>5, <2>1, <2>3, NoSourcesShape
        <3>2. sources' = s3
            BY <1>3, <2>3, <3>1 DEF Overlaid, WithOverlay
        <3> QED BY <1>7, <2>3, <3>2
    <2> QED BY <2>2, <2>3
<1>9. sources'.changes # None =>
        /\ changesetId # None
        /\ sources'.changes = changeTileUrl(changesetId, visible)
    <2>1. s1.changes # None => /\ committed[1] # None
                               /\ s1.changes = changeTileUrl(committed[1], committed[2])
        BY <1>5, NoSourcesShape DEF IInv, Targeted
    <2> QED BY <1>6, <1>7, <1>8, <2>1 DEF IInv, Targeted
<1>10. Ready /\ changesetId # None => sources'.changes # None
    BY <1>6, <1>7, <1>8
<1>11. ~Ready => sources' = NoSources
    BY <1>5, <1>6, <1>7, <1>8
<1>12. /\ committed' = <<changesetId, visible, selectedChange>>
       /\ UNCHANGED <<mode, basemap, changesetId, visible, events>>
       /\ appliedStyleKey' = <<mode, basemap>>
       /\ styleReady' = (styleReady /\ ~MustSwap)
       /\ IF MustSwap THEN loaded' = FALSE /\ waiting' = waiting + 1
                      ELSE UNCHANGED <<loaded, waiting>>
       /\ selectedChange' \in {None, selectedChange}
       /\ ~due' => selectedChange' = selectedChange
       /\ due' \in BOOLEAN
    BY DEF Commit, SetStyle
<1>13. thrown' = (thrown \/ (Ready /\ ~loaded' /\ sources' # AfterSwap))
    BY DEF Commit
<1>14. StylesFollowed'
    <2>1. styleReady' <=> loaded'
        BY <1>12 DEF IInv, TypeOK, StylesFollowed
    <2>2. ~thrown'
        BY <1>12, <1>13 DEF IInv, TypeOK, StylesFollowed, Ready
    <2>3. ~MustSwap'
        BY <1>12 DEF MustSwap
    <2>4. waiting' <= events' + 1
        BY <1>12 DEF IInv, TypeOK, StylesFollowed
    <2>5. waiting' \in Nat
        BY <1>12 DEF IInv, TypeOK
    <2> QED BY <2>1, <2>2, <2>3, <2>4, <2>5 DEF StylesFollowed
<1>15. Targeted' /\ Dropped'
    BY <1>9, <1>12, <1>11 DEF Targeted, Dropped, Ready
<1>16. InContext' /\ firstInterval' \in Changesets \cup {None}
    <2>1. CASE Ready /\ firstInterval = None
        <3>1. firstInterval' = changesetId /\ s1.context = None
            BY <1>5, <2>1 DEF Commit, Remember, IInv, InContext
        <3> QED BY <1>4, <1>6, <1>7, <1>8, <2>1, <3>1 DEF InContext, TypeOK
    <2>2. CASE Ready /\ firstInterval # None
        <3>1. firstInterval' = firstInterval /\ s1.context = SnapshotB[firstInterval]
            BY <1>5, <2>2 DEF Commit, Remember, IInv, InContext
        <3>2. SnapshotB[firstInterval] # None
            BY <1>4, <2>2, WebMapAssumption DEF TypeOK
        <3> QED BY <1>4, <1>6, <1>7, <1>8, <2>2, <3>1, <3>2 DEF InContext, TypeOK
    <2>3. CASE ~Ready
        <3>1. firstInterval' = None
            BY <2>3 DEF Commit, Remember
        <3> QED BY <1>11, <2>3, <3>1, NoSourcesShape DEF InContext
    <2> QED BY <2>1, <2>2, <2>3
<1>17. Outlined' /\ carried' \in BOOLEAN
    <2>1. carried' = (Ready => carried /\ selectedChange = committed[3])
        BY DEF Commit, Remember
    <2>2. CASE Ready
        BY <1>8, <1>12, <2>1, <2>2 DEF Outlined
    <2>3. CASE ~Ready
        BY <1>11, <2>1, <2>3, NoSourcesShape DEF Outlined
    <2> QED BY <2>1, <2>2, <2>3
<1>18. TypeOK' /\ SourcesTyped'
    <2>1. styleReady' \in BOOLEAN /\ thrown' \in BOOLEAN
        BY <1>12, <1>13
    <2>0. loaded \in BOOLEAN
        BY DEF IInv, TypeOK
    <2>2. loaded' \in BOOLEAN
        BY <1>12, <2>0
    <2>7. ~loaded' => waiting' > 0
        BY <1>12 DEF IInv, TypeOK
    <2>3. {due', styleReady', loaded', thrown'} \subseteq BOOLEAN
        BY Zenon, <1>12, <2>1, <2>2
    <2>4. waiting' \in 0..(MaxEvents + 1)
        BY <1>12, <1>14 DEF IInv, TypeOK, SourcesTyped, StylesFollowed
    <2>5. TypeOK'
        BY <1>12, <1>14, <1>16, <1>17, <2>3, <2>4, <2>7 DEF IInv, TypeOK, StylesFollowed
    <2>6. SourcesTyped'
        BY <1>8, <1>12 DEF IInv, TypeOK, SourcesTyped
    <2> QED BY <2>5, <2>6
<1>19. AtRest'
    BY <1>8, <1>10, <1>12 DEF AtRest, Ready, MustSwap
<1> QED BY <1>14, <1>18, <1>15, <1>19, <1>16, <1>17 DEF IInv

LEMMA Invariance == Spec => []IInv
<1>1. IInv /\ [Next]_vars => IInv'
    <2> SUFFICES ASSUME IInv, [Next]_vars PROVE IInv'
        OBVIOUS
    <2> USE DEF IInv, TypeOK
    <2>1. CASE \E m \in Modes, b \in Basemaps :
                 <<m, b>> # <<mode, basemap>> /\ ChooseStyle(m, b)
        BY <2>1, EventInv DEF ChooseStyle
    <2>2. CASE \E c \in Changesets \ {changesetId} : SelectInterval(c)
        BY <2>2, EventInv, WebMapAssumption DEF SelectInterval
    <2>3. CASE \E c \in Classifications : toggleClassification(c)
        BY <2>3, EventInv DEF toggleClassification
    <2>4. CASE \E d \in Details \ {selectedChange} : ShowChange(d)
        BY <2>4, EventInv DEF ShowChange
    <2>5. CASE StyleLoad
        BY <2>5, StyleLoadInv
    <2>6. CASE Commit
        BY <2>6, CommitInv
    <2>7. CASE UNCHANGED vars
        BY <2>7 DEF vars, app, library, history, SourcesTyped, StylesFollowed, Dropped,
                    Targeted, InContext, Outlined, AtRest, MustSwap
    <2> QED BY <2>1, <2>2, <2>3, <2>4, <2>5, <2>6, <2>7 DEF Next
<1> QED BY <1>1, InitInv, PTL DEF Spec

LEMMA ShowsSelection == IInv => MapShowsSelection
<1> SUFFICES ASSUME IInv PROVE MapShowsSelection
    OBVIOUS
<1>1. ~thrown
    BY DEF IInv, StylesFollowed
<1>2. ~styleReady => sources = NoSources
    BY DEF IInv, Dropped
<1>3. ASSUME ~due, styleReady
      PROVE  sources.changes =
                 IF changesetId = None THEN None ELSE changeTileUrl(changesetId, visible)
    BY <1>3 DEF IInv, Targeted, AtRest
<1>4. ASSUME ~due, styleReady
      PROVE  sources.overlay =
                 IF carried \/ selectedChange = None THEN {} ELSE {selectedChange}
    BY <1>4 DEF IInv, Outlined, Outline, AtRest
<1> QED BY <1>1, <1>2, <1>3, <1>4 DEF MapShowsSelection, IInv, InContext

-----------------------------------------------------------------------------
\* The sources, the layers and the page's state have the values the library and
\* the components give them.
THEOREM TypeCorrect == Spec => []TypeOK
<1>1. IInv => TypeOK
    BY DEF IInv
<1> QED BY <1>1, Invariance, PTL

\* MapShowsSelection: no source is added to a style that is loading, and at rest
\* the change layer asks for the selected interval and classifications, the
\* overlay outlines the selected record unless it was selected before the style
\* loaded, and the context is that of the first interval shown over the style.
THEOREM MapFollowsSelection == Spec => []MapShowsSelection
BY Invariance, ShowsSelection, PTL
=============================================================================
