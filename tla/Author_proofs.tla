---------------------------- MODULE Author_proofs ----------------------------
(* Theorems about what is beside the documents on the page: the code in      *)
(* front (CodePane), source control as it is shown (GitPanel) and the        *)
(* processes of the app that is run (Processes), for any number of files,    *)
(* branches and nodes.                                                       *)
EXTENDS CodePane, GitPanel, Processes,
        NaturalsInduction, WellFoundedInduction, FiniteSetTheorems, SequenceTheorems, TLAPS

USE CodePaneAssumption

-----------------------------------------------------------------------------
(* The code in front (CodePane).                                             *)

(* A file that was asked for has a tab, had one, or is on its way; and a tab *)
(* is never fetched a second time.                                           *)
EachIsAskedForOnce ==
    /\ \A p \in wanted : p \in DOMAIN tabs \/ p \in shut \/ p = fetching
    /\ DOMAIN tabs \subseteq wanted \ {fetching}

(* The strengthening of CleanMeansKept: at most one save of a file is on its *)
(* way, the API has what it kept, and until it did it has what the tab says  *)
(* was saved.                                                                *)
OneSaveEach ==
    \A p \in CodeFiles \ crossed :
        /\ \A s, t \in Puts : s \in OnItsWay(p) /\ t \in OnItsWay(p) => s = t
        /\ \A s \in Puts : s \in OnItsWay(p) /\ put[s].stage = "kept" => stored[p] = put[s].text

SavedIsStored ==
    \A p \in DOMAIN tabs \ crossed :
        (\A s \in Puts : s \in OnItsWay(p) => put[s].stage # "kept") => stored[p] = tabs[p].saved

(* A save that is on its way is of a file.                                   *)
SavesAreOfFiles == \A s \in Puts : put[s].stage # "none" => put[s].path \in CodeFiles

PaneTypes == PaneTypeOK /\ SavesAreOfFiles

PaneInv == PaneTypes /\ EachIsAskedForOnce /\ OneSaveEach /\ SavedIsStored

LEMMA NoPutIsAPut == NoPut \in Put /\ NoPut.stage = "none"
<1> (CHOOSE t \in Contents : TRUE) \in Contents
  OBVIOUS
<1> QED BY DEF NoPut, Put

LEMMA PaneInitInv == PaneInit => PaneInv
<1> SUFFICES ASSUME PaneInit PROVE PaneInv
  OBVIOUS
<1>1. PaneTypes
  BY NoPutIsAPut DEF PaneInit, PaneTypes, PaneTypeOK, SavesAreOfFiles
<1>2. EachIsAskedForOnce /\ SavedIsStored
  BY DEF PaneInit, EachIsAskedForOnce, SavedIsStored
<1>3. OneSaveEach
  BY NoPutIsAPut DEF PaneInit, OneSaveEach, OnItsWay
<1> QED BY <1>1, <1>2, <1>3 DEF PaneInv

LEMMA ToFront ==
  ASSUME NEW p \in takeover', PaneTypeOK, ComesToFront(p), takeover \subseteq takeover'
  PROVE  /\ openPath' = p
         /\ wanted' \subseteq takeover' /\ fetching' \in wanted' \cup {NoFile}
<1>1. CASE p = openPath
  BY <1>1 DEF ComesToFront, PaneTypeOK
<1>2. CASE p # openPath
  BY <1>2 DEF ComesToFront, PaneTypeOK
<1> QED BY <1>1, <1>2

LEMMA PaneTypeStep == PaneTypes /\ [PaneNext]_paneVars => PaneTypes'
<1> SUFFICES ASSUME PaneTypes, [PaneNext]_paneVars PROVE PaneTypes'
  OBVIOUS
<1> USE DEF PaneTypes, PaneTypeOK, SavesAreOfFiles
<1>1. ASSUME NEW files \in SUBSET CodeFiles, NEW p \in CodeFiles, DescendToCode(files, p) PROVE PaneTypes'
  BY <1>1 DEF DescendToCode
<1>2. ASSUME NEW p \in CodeFiles, OpenCodeFile(p) PROVE PaneTypes'
  BY <1>2, ToFront DEF OpenCodeFile
<1>3. ASSUME NEW p \in CodeFiles, Pick(p) PROVE PaneTypes'
  BY <1>3, ToFront DEF Pick
<1>4. ASSUME NEW p \in CodeFiles, Close(p) PROVE PaneTypes'
  <2>1. DOMAIN tabs' \subseteq DOMAIN tabs /\ \A o \in DOMAIN tabs' : tabs'[o] \in Tab
    BY <1>4 DEF Close, Without
  <2>2. /\ openPath' \in takeover \cup {NoFile}
        /\ wanted' \subseteq takeover /\ fetching' \in wanted' \cup {NoFile}
    <3>1. CASE p # openPath \/ DOMAIN tabs = {p}
      BY <1>4, <3>1 DEF Close
    <3>2. CASE ~(p # openPath \/ DOMAIN tabs = {p})
      <4>1. PICK o \in DOMAIN tabs \ {p} : ComesToFront(o)
        BY <1>4, <3>2 DEF Close
      <4> QED BY <1>4, <4>1, ToFront DEF Close
    <3> QED BY <3>1, <3>2
  <2> QED BY <1>4, <2>1, <2>2 DEF Close
<1>5. ASSUME NEW p \in CodeFiles, Regenerated(p) PROVE PaneTypes'
  BY <1>5 DEF Regenerated
<1>6. CASE LeaveCode
  BY <1>6 DEF LeaveCode
<1>7. CASE Fetched
  <2>1. fetching \in CodeFiles /\ stored[fetching] \in Contents
    BY <1>7 DEF Fetched
  <2>2. DOMAIN tabs' \subseteq takeover /\ \A o \in DOMAIN tabs' : tabs'[o] \in Tab
    BY <1>7, <2>1 DEF Fetched, Tab
  <2> QED BY <1>7, <2>2 DEF Fetched
<1>8. CASE FetchFails
  BY <1>8 DEF FetchFails
<1>9. ASSUME NEW t \in Contents, Type(t) PROVE PaneTypes'
  <2>1. DOMAIN tabs' = DOMAIN tabs /\ \A o \in DOMAIN tabs' : tabs'[o] \in Tab
    BY <1>9 DEF Type, Tab
  <2> QED BY <1>9, <2>1 DEF Type
<1>10. ASSUME NEW s \in Puts, PressSave(s) PROVE PaneTypes'
  <2>1. openPath \in CodeFiles /\ tabs[openPath].draft \in Contents
    BY <1>10 DEF PressSave, Dirty, Tab
  <2>2. put' \in [Puts -> Put]
    BY <1>10, <2>1 DEF PressSave, Put
  <2>9. \A u \in Puts : put'[u].stage # "none" => put'[u].path \in CodeFiles
    BY <1>10, <2>1 DEF PressSave, Put
  <2> QED BY <1>10, <2>1, <2>2, <2>9 DEF PressSave
<1>11. ASSUME NEW s \in Puts, Keep(s) PROVE PaneTypes'
  <2>1. put[s] \in Put
    OBVIOUS
  <2>2. put' \in [Puts -> Put]
    BY <1>11, <2>1 DEF Keep, Put
  <2>3. stored' \in [CodeFiles -> Contents]
    BY <1>11, <2>1 DEF Keep, Put
  <2>9. \A u \in Puts : put'[u].stage # "none" => put'[u].path \in CodeFiles
    BY <1>11, <2>1 DEF Keep, Put
  <2> QED BY <1>11, <2>2, <2>3, <2>9 DEF Keep
<1>12. ASSUME NEW s \in Puts, SaveLands(s) PROVE PaneTypes'
  <2>1. put[s] \in Put /\ put' \in [Puts -> Put]
    BY <1>12, NoPutIsAPut DEF SaveLands
  <2>2. DOMAIN tabs' = DOMAIN tabs /\ \A o \in DOMAIN tabs' : tabs'[o] \in Tab
    BY <1>12, <2>1 DEF SaveLands, Tab, Put
  <2>9. \A u \in Puts : put'[u].stage # "none" => put'[u].path \in CodeFiles
    BY <1>12, NoPutIsAPut DEF SaveLands, Put
  <2> QED BY <1>12, <2>1, <2>2, <2>9 DEF SaveLands
<1>13. ASSUME NEW s \in Puts, SaveFails(s) PROVE PaneTypes'
  <2>1. put[s] \in Put /\ put' \in [Puts -> Put]
    BY <1>13, NoPutIsAPut DEF SaveFails
  <2>2. crossed' \subseteq CodeFiles
    <3> QED BY <1>13, <2>1 DEF SaveFails, Put
  <2>9. \A u \in Puts : put'[u].stage # "none" => put'[u].path \in CodeFiles
    BY <1>13, NoPutIsAPut DEF SaveFails, Put
  <2> QED BY <1>13, <2>1, <2>2, <2>9 DEF SaveFails
<1>14. ASSUME NEW p \in CodeFiles, NEW t \in Contents, ChangedElsewhere(p, t) PROVE PaneTypes'
  BY <1>14 DEF ChangedElsewhere
<1>15. CASE UNCHANGED paneVars
  BY <1>15 DEF paneVars
<1> QED
  BY <1>1, <1>2, <1>3, <1>4, <1>5, <1>6, <1>7, <1>8, <1>9, <1>10, <1>11, <1>12, <1>13, <1>14, <1>15
  DEF PaneNext

LEMMA EachIsAskedForStep ==
  PaneTypes /\ EachIsAskedForOnce /\ [PaneNext]_paneVars => EachIsAskedForOnce'
<1> SUFFICES ASSUME PaneTypes, EachIsAskedForOnce, [PaneNext]_paneVars PROVE EachIsAskedForOnce'
  OBVIOUS
<1>t. /\ DOMAIN tabs \subseteq takeover /\ takeover \subseteq CodeFiles /\ wanted \subseteq takeover
      /\ fetching \in wanted \cup {NoFile} /\ NoFile \notin wanted
  BY DEF PaneTypes, PaneTypeOK
<1> USE <1>t DEF EachIsAskedForOnce
<1>1. ASSUME NEW files \in SUBSET CodeFiles, NEW p \in CodeFiles, DescendToCode(files, p)
      PROVE  EachIsAskedForOnce'
  BY <1>1 DEF DescendToCode
<1>2. ASSUME NEW p \in CodeFiles, OpenCodeFile(p) PROVE EachIsAskedForOnce'
  BY <1>2 DEF OpenCodeFile, ComesToFront
<1>3. ASSUME NEW p \in CodeFiles, Pick(p) PROVE EachIsAskedForOnce'
  BY <1>3 DEF Pick, ComesToFront
<1>4. ASSUME NEW p \in CodeFiles, Close(p) PROVE EachIsAskedForOnce'
  <2>1. DOMAIN tabs' = DOMAIN tabs \ {p} /\ shut' = shut \cup {p}
    BY <1>4 DEF Close, Without
  <2>2. CASE p # openPath \/ DOMAIN tabs = {p}
    BY <1>4, <2>1, <2>2 DEF Close
  <2>3. CASE ~(p # openPath \/ DOMAIN tabs = {p})
    <3>1. PICK o \in DOMAIN tabs \ {p} : ComesToFront(o)
      BY <1>4, <2>3 DEF Close
    <3> QED BY <2>1, <2>3, <3>1 DEF ComesToFront
  <2> QED BY <2>2, <2>3
<1>5. ASSUME NEW p \in CodeFiles, Regenerated(p) PROVE EachIsAskedForOnce'
  BY <1>5 DEF Regenerated
<1>6. CASE LeaveCode
  BY <1>6 DEF LeaveCode
<1>7. CASE Fetched
  <2>1. DOMAIN tabs' = DOMAIN tabs \cup {fetching}
    BY <1>7 DEF Fetched
  <2> QED BY <1>7, <2>1 DEF Fetched
<1>8. CASE FetchFails
  BY <1>8 DEF FetchFails
<1>9. ASSUME NEW t \in Contents, Type(t) PROVE EachIsAskedForOnce'
  <2>1. DOMAIN tabs' = DOMAIN tabs
    BY <1>9 DEF Type
  <2> QED BY <1>9, <2>1 DEF Type
<1>10. ASSUME NEW s \in Puts, PressSave(s) PROVE EachIsAskedForOnce'
  BY <1>10 DEF PressSave
<1>11. ASSUME NEW s \in Puts, Keep(s) PROVE EachIsAskedForOnce'
  BY <1>11 DEF Keep
<1>12. ASSUME NEW s \in Puts, SaveLands(s) PROVE EachIsAskedForOnce'
  <2>1. DOMAIN tabs' = DOMAIN tabs
    BY <1>12 DEF SaveLands
  <2> QED BY <1>12, <2>1 DEF SaveLands
<1>13. ASSUME NEW s \in Puts, SaveFails(s) PROVE EachIsAskedForOnce'
  BY <1>13 DEF SaveFails
<1>14. ASSUME NEW p \in CodeFiles, NEW t \in Contents, ChangedElsewhere(p, t) PROVE EachIsAskedForOnce'
  BY <1>14 DEF ChangedElsewhere
<1>15. CASE UNCHANGED paneVars
  BY <1>15 DEF paneVars
<1> QED
  BY <1>1, <1>2, <1>3, <1>4, <1>5, <1>6, <1>7, <1>8, <1>9, <1>10, <1>11, <1>12, <1>13, <1>14, <1>15
  DEF PaneNext

(* What the two invariants of saves speak of is left alone.                  *)
SavesUntouched == UNCHANGED <<tabs, put, stored, crossed>>

LEMMA SavesStep ==
  PaneTypes /\ EachIsAskedForOnce /\ OneSaveEach /\ SavedIsStored /\ [PaneNext]_paneVars
     => OneSaveEach' /\ SavedIsStored'
<1> SUFFICES ASSUME PaneTypes, EachIsAskedForOnce, OneSaveEach, SavedIsStored, [PaneNext]_paneVars
             PROVE  OneSaveEach' /\ SavedIsStored'
  OBVIOUS
<1>t. /\ DOMAIN tabs \subseteq CodeFiles /\ put \in [Puts -> Put]
      /\ stored \in [CodeFiles -> Contents] /\ openPath \in CodeFiles \cup {NoFile}
      /\ fetching \in CodeFiles \cup {NoFile} /\ crossed \subseteq CodeFiles
      /\ \A s \in Puts : put[s].stage # "none" => put[s].path \in CodeFiles
  BY DEF PaneTypes, PaneTypeOK, SavesAreOfFiles
<1> USE <1>t
<1>u. ASSUME SavesUntouched PROVE OneSaveEach' /\ SavedIsStored'
  BY <1>u DEF SavesUntouched, OneSaveEach, SavedIsStored, OnItsWay
<1>1. ASSUME NEW files \in SUBSET CodeFiles, NEW p \in CodeFiles, DescendToCode(files, p) PROVE SavesUntouched
  BY <1>1 DEF DescendToCode, SavesUntouched
<1>2. ASSUME NEW p \in CodeFiles, OpenCodeFile(p) PROVE SavesUntouched
  BY <1>2 DEF OpenCodeFile, SavesUntouched
<1>3. ASSUME NEW p \in CodeFiles, Pick(p) PROVE SavesUntouched
  BY <1>3 DEF Pick, SavesUntouched
<1>4. ASSUME NEW p \in CodeFiles, Close(p) PROVE OneSaveEach' /\ SavedIsStored'
  <2>1. UNCHANGED <<put, stored, crossed>>
    BY <1>4 DEF Close
  <2>2. DOMAIN tabs' \subseteq DOMAIN tabs /\ \A o \in DOMAIN tabs' : tabs'[o] = tabs[o]
    BY <1>4 DEF Close, Without
  <2> QED BY <2>1, <2>2 DEF OneSaveEach, SavedIsStored, OnItsWay
<1>5. ASSUME NEW p \in CodeFiles, Regenerated(p) PROVE SavesUntouched
  BY <1>5 DEF Regenerated, SavesUntouched
<1>6. CASE LeaveCode
  BY <1>6 DEF LeaveCode, OneSaveEach, SavedIsStored, OnItsWay
<1>7. CASE Fetched
  <2>1. UNCHANGED <<put, stored>> /\ crossed' = crossed \ {q \in {fetching} : OnItsWay(q) = {}}
    BY <1>7 DEF Fetched
  <2>2. /\ DOMAIN tabs' = DOMAIN tabs \cup {fetching} /\ tabs'[fetching].saved = stored[fetching]
        /\ \A o \in DOMAIN tabs \ {fetching} : tabs'[o] = tabs[o]
    BY <1>7 DEF Fetched
  <2>3. OneSaveEach'
    BY <2>1 DEF OneSaveEach, OnItsWay
  <2>4. SavedIsStored'
    BY <2>1, <2>2 DEF SavedIsStored, OnItsWay
  <2> QED BY <2>3, <2>4
<1>8. CASE FetchFails
  BY <1>8, <1>u DEF FetchFails, SavesUntouched
<1>9. ASSUME NEW t \in Contents, Type(t) PROVE OneSaveEach' /\ SavedIsStored'
  <2>1. UNCHANGED <<put, stored, crossed>>
    BY <1>9 DEF Type
  <2>2. DOMAIN tabs' = DOMAIN tabs /\ \A o \in DOMAIN tabs : tabs'[o].saved = tabs[o].saved
    <3>1. \A o \in DOMAIN tabs : tabs[o] \in Tab
      BY DEF PaneTypes, PaneTypeOK
    <3> QED BY <1>9, <3>1 DEF Type, Tab
  <2> QED BY <2>1, <2>2 DEF OneSaveEach, SavedIsStored, OnItsWay
<1>10. ASSUME NEW s \in Puts, PressSave(s) PROVE OneSaveEach' /\ SavedIsStored'
  <2>1. UNCHANGED <<tabs, stored>> /\ crossed' = crossed \cup {p \in {openPath} : OnItsWay(p) # {}}
    BY <1>10 DEF PressSave
  <2>2. /\ put[s].stage = "none" /\ put'[s].stage = "sent" /\ put'[s].path = openPath
        /\ \A u \in Puts \ {s} : put'[u] = put[u]
    BY <1>10 DEF PressSave
  <2>3. OneSaveEach'
    BY <2>1, <2>2 DEF OneSaveEach, OnItsWay
  <2>4. SavedIsStored'
    BY <2>1, <2>2 DEF SavedIsStored, OnItsWay
  <2> QED BY <2>3, <2>4
<1>11. ASSUME NEW s \in Puts, Keep(s) PROVE OneSaveEach' /\ SavedIsStored'
  <2>1. UNCHANGED <<tabs, crossed>> /\ put[s].stage = "sent" /\ put[s] \in Put
    BY <1>11 DEF Keep
  <2>2. /\ put'[s].path = put[s].path /\ put'[s].text = put[s].text
        /\ \A u \in Puts \ {s} : put'[u] = put[u]
    BY <1>11, <2>1 DEF Keep, Put
  <2>3. CASE put'[s].stage = "kept" /\ stored' = [stored EXCEPT ![put[s].path] = put[s].text]
    <3>1. stored'[put[s].path] = put[s].text /\ \A p \in CodeFiles \ {put[s].path} : stored'[p] = stored[p]
      BY <2>1, <2>3
    <3>2. OneSaveEach'
      BY <2>1, <2>2, <2>3, <3>1 DEF OneSaveEach, OnItsWay
    <3>3. SavedIsStored'
      BY <2>1, <2>2, <2>3, <3>1 DEF OneSaveEach, SavedIsStored, OnItsWay
    <3> QED BY <3>2, <3>3
  <2>4. CASE put'[s].stage = "refused" /\ stored' = stored
    BY <2>1, <2>2, <2>4 DEF OneSaveEach, SavedIsStored, OnItsWay
  <2> QED BY <1>11, <2>1, <2>3, <2>4 DEF Keep, Put
<1>12. ASSUME NEW s \in Puts, SaveLands(s) PROVE OneSaveEach' /\ SavedIsStored'
  <2>1. UNCHANGED <<stored, crossed>> /\ put[s].stage = "kept" /\ put[s] \in Put
    BY <1>12 DEF SaveLands
  <2>2. put'[s].stage = "none" /\ \A u \in Puts \ {s} : put'[u] = put[u]
    BY <1>12, NoPutIsAPut DEF SaveLands
  <2>3. /\ DOMAIN tabs' = DOMAIN tabs
        /\ \A o \in DOMAIN tabs : tabs'[o].saved = IF o = put[s].path THEN put[s].text ELSE tabs[o].saved
    <3>1. \A o \in DOMAIN tabs : tabs[o] \in Tab
      BY DEF PaneTypes, PaneTypeOK
    <3> QED BY <1>12, <3>1 DEF SaveLands, Tab
  <2>4. OneSaveEach'
    BY <2>1, <2>2 DEF OneSaveEach, OnItsWay
  <2>5. SavedIsStored'
    BY <2>1, <2>2, <2>3 DEF OneSaveEach, SavedIsStored, OnItsWay
  <2> QED BY <2>4, <2>5
<1>13. ASSUME NEW s \in Puts, SaveFails(s) PROVE OneSaveEach' /\ SavedIsStored'
  <2>1. UNCHANGED <<tabs, stored>> /\ put[s] \in Put /\ put[s].stage \in {"refused", "kept"}
    BY <1>13 DEF SaveFails
  <2>2. put'[s].stage = "none" /\ \A u \in Puts \ {s} : put'[u] = put[u]
    BY <1>13, NoPutIsAPut DEF SaveFails
  <2>3. crossed' = IF put[s].stage = "kept" THEN crossed \cup {put[s].path} ELSE crossed
    BY <1>13 DEF SaveFails
  <2>4. OneSaveEach'
    BY <2>1, <2>2, <2>3 DEF OneSaveEach, OnItsWay
  <2>5. SavedIsStored'
    BY <2>1, <2>2, <2>3 DEF SavedIsStored, OnItsWay
  <2> QED BY <2>4, <2>5
<1>14. ASSUME NEW p \in CodeFiles, NEW t \in Contents, ChangedElsewhere(p, t) PROVE OneSaveEach' /\ SavedIsStored'
  <2>1. UNCHANGED <<tabs, put>> /\ crossed' = crossed \cup {p} /\ \A o \in CodeFiles \ {p} : stored'[o] = stored[o]
    BY <1>14 DEF ChangedElsewhere
  <2> QED BY <2>1 DEF OneSaveEach, SavedIsStored, OnItsWay
<1>15. CASE UNCHANGED paneVars
  BY <1>15, <1>u DEF paneVars, SavesUntouched
<1> QED
  BY <1>u, <1>1, <1>2, <1>3, <1>4, <1>5, <1>6, <1>7, <1>8, <1>9, <1>10, <1>11, <1>12, <1>13, <1>14, <1>15
  DEF PaneNext

LEMMA PaneStep == PaneInv /\ [PaneNext]_paneVars => PaneInv'
BY PaneTypeStep, EachIsAskedForStep, SavesStep DEF PaneInv

LEMMA PaneAlways == PaneSpec => []PaneInv
<1> QED BY PaneInitInv, PaneStep, PTL DEF PaneSpec

LEMMA PaneSaysWhatIsKept == PaneInv => CleanMeansKept /\ NotStuckOpening
<1> SUFFICES ASSUME PaneInv PROVE CleanMeansKept /\ NotStuckOpening
  OBVIOUS
<1>1. CleanMeansKept
  <2> SUFFICES ASSUME NEW p \in DOMAIN tabs \ crossed, ~Dirty(p), OnItsWay(p) = {}
               PROVE  stored[p] = tabs[p].draft
    BY DEF CleanMeansKept
  <2>1. stored[p] = tabs[p].saved
    BY DEF PaneInv, SavedIsStored
  <2> QED BY <2>1 DEF Dirty
<1>2. NotStuckOpening
  BY DEF PaneInv, EachIsAskedForOnce, NotStuckOpening
<1> QED BY <1>1, <1>2

(* The action of DraftsStay.                                                 *)
DraftStays ==
    \A p \in DOMAIN tabs : takeover' # {} =>
        \/ p \in DOMAIN tabs' /\ tabs'[p].draft = tabs[p].draft
        \/ p = openPath /\ p \in DOMAIN tabs'
        \/ p \in shut'

LEMMA PaneDraftStep == PaneInv /\ [PaneNext]_paneVars => [DraftStays]_paneVars
<1> SUFFICES ASSUME PaneInv, [PaneNext]_paneVars PROVE DraftStays
  OBVIOUS
<1>t. /\ \A o \in DOMAIN tabs : tabs[o] \in Tab
      /\ fetching \notin DOMAIN tabs
  BY DEF PaneInv, PaneTypes, PaneTypeOK, EachIsAskedForOnce
<1> USE DEF DraftStays
<1>u. ASSUME UNCHANGED tabs PROVE DraftStays
  BY <1>u
<1>1. ASSUME NEW p \in CodeFiles, Close(p) PROVE DraftStays
  BY <1>1 DEF Close, Without
<1>2. CASE LeaveCode
  BY <1>2 DEF LeaveCode
<1>3. CASE Fetched
  <2>1. \A o \in DOMAIN tabs : o \in DOMAIN tabs' /\ tabs'[o] = tabs[o]
    BY <1>3, <1>t DEF Fetched
  <2> QED BY <2>1
<1>4. ASSUME NEW t \in Contents, Type(t) PROVE DraftStays
  <2>1. DOMAIN tabs' = DOMAIN tabs /\ \A o \in DOMAIN tabs \ {openPath} : tabs'[o] = tabs[o]
    BY <1>4 DEF Type
  <2> QED BY <2>1
<1>5. ASSUME NEW s \in Puts, SaveLands(s) PROVE DraftStays
  <2>1. DOMAIN tabs' = DOMAIN tabs /\ \A o \in DOMAIN tabs : tabs'[o].draft = tabs[o].draft
    BY <1>5, <1>t DEF SaveLands, Tab
  <2> QED BY <2>1
<1> QED
  BY <1>u, <1>1, <1>2, <1>3, <1>4, <1>5
  DEF PaneNext, paneVars, DescendToCode, OpenCodeFile, Pick, Regenerated, FetchFails, PressSave, Keep,
      SaveFails, ChangedElsewhere

(* What the code in front says is so: a clean tab says what the API has, what *)
(* is typed stays, and nothing opens for ever.                               *)
THEOREM CodeInFrontIsKept ==
  PaneSpec => [](CleanMeansKept /\ NotStuckOpening) /\ DraftsStay
<1>1. PaneSpec => []PaneInv
  BY PaneAlways
<1>2. PaneSpec => [](CleanMeansKept /\ NotStuckOpening)
  BY <1>1, PaneSaysWhatIsKept, PTL
<1>3. PaneInv /\ [PaneNext]_paneVars => [DraftStays]_paneVars
  BY PaneDraftStep
<1> QED BY <1>1, <1>2, <1>3, PTL DEF PaneSpec, DraftsStay, DraftStays

HIDE CodePaneAssumption

USE GitPanelAssumption

-----------------------------------------------------------------------------
(* Source control as the author sees it (GitPanel).                          *)

(* What GitHub and the API have of a branch: no conflict is but in what is   *)
(* pending, and where the author is on GitHub's commit, others changed       *)
(* nothing since.                                                            *)
LineHolds(l) ==
    /\ l \in Line /\ l.head <= l.tip /\ l.clash \subseteq l.pending
    /\ l.head \in {0, l.tip} => l.changed = {}

LinesHold ==
    /\ onBranch \in GitBranches /\ DOMAIN line = GitBranches /\ line = [br \in GitBranches |-> line[br]]
    /\ \A br \in GitBranches : LineHolds(line[br])
    /\ Here.head # 0

(* A call that was sent says what it is about.                               *)
CallsAreAbout ==
    /\ DOMAIN doing = PanelCalls /\ DOMAIN reading = PanelReads
    /\ doing["file"].stage = "sent" => doing["file"].arg \in PanelFiles
    /\ doing["branch"].stage = "sent" => doing["branch"].arg \in GitBranches

ReadsGoOn == \A r \in PanelReads : reading[r] \in {NoRead, Wanted} \/ reading[r].stage = "answered"

MenuAndReview == DOMAIN menu = {"open", "list"} /\ DOMAIN review = {"open", "files"}

AtMostOne(S) == S = {} \/ \E u : S = {u}

PanelTypes ==
    /\ hurried \in BOOLEAN /\ behindSketch \in BOOLEAN
    /\ LinesHold /\ CallsAreAbout /\ ReadsGoOn /\ MenuAndReview
    /\ AtMostOne(info) /\ AtMostOne(check)

LEMMA PanelTypesMean == PanelTypes => PanelTypeOK
<1> SUFFICES ASSUME PanelTypes PROVE PanelTypeOK
  OBVIOUS
<1>1. ASSUME NEW S, AtMostOne(S) PROVE Cardinality(S) <= 1
  <2>1. CASE S = {}
    <3>1. Cardinality(S) = 0
      BY <2>1, FS_EmptySet
    <3> QED BY <3>1
  <2>2. CASE \E u : S = {u}
    <3>1. PICK u : S = {u}
      BY <2>2
    <3>2. Cardinality(S) = 1
      BY <3>1, FS_Singleton
    <3> QED BY <3>2
  <2>3. S = {} \/ \E u : S = {u}
    BY <1>1 DEF AtMostOne
  <2> QED BY <2>1, <2>2, <2>3
<1>2. line \in [GitBranches -> Line]
  BY DEF PanelTypes, LinesHold, LineHolds
<1> QED BY <1>1, <1>2 DEF PanelTypes, PanelTypeOK, LinesHold, LineHolds, CallsAreAbout

LEMMA PanelInitTypes == PanelInit => PanelTypes
<1> SUFFICES ASSUME PanelInit PROVE PanelTypes
  OBVIOUS
<1>1. PICK files \in {{}, PanelFiles} : line = [br \in GitBranches |->
          [there |-> br = DefaultBranch, tip |-> 1, head |-> IF br = DefaultBranch THEN 1 ELSE 0,
           pending |-> IF br = DefaultBranch THEN files ELSE {},
           clash |-> {}, changed |-> {}, pr |-> "none"]]
  BY DEF PanelInit
<1>2. ASSUME NEW br \in GitBranches PROVE LineHolds(line[br])
  BY <1>1 DEF LineHolds, Line
<1>3. LinesHold
  BY <1>1, <1>2 DEF PanelInit, LinesHold, Here
<1>4. CallsAreAbout /\ ReadsGoOn
  BY DEF PanelInit, CallsAreAbout, ReadsGoOn, Free, PanelCalls, PanelReads
<1>5. MenuAndReview
  BY DEF PanelInit, MenuAndReview
<1> QED BY <1>3, <1>4, <1>5 DEF PanelInit, PanelTypes, AtMostOne

(* What a call of one kind leaves alone of the others.                       *)
OtherCalls(k) == DOMAIN doing' = PanelCalls /\ \A j \in PanelCalls \ {k} : doing'[j] = doing[j]

(* A press: of a button that is free, by the patient once everything came.   *)
Pushes(k) ==
    /\ doing[k] = Free /\ doing'[k].stage = "sent" /\ OtherCalls(k)
    /\ ~hurried => UnderWay = {} /\ \A r \in PanelReads : reading[r] = NoRead
    /\ k = "file" => doing'[k].arg \in PanelFiles
    /\ k = "branch" => doing'[k].arg \in GitBranches
    /\ UNCHANGED <<hurried, serverVars, bundle, info, check, menu>>
    /\ \/ /\ ~review.open /\ UNCHANGED <<review, reading>>
          /\ k = "commit" => ~Blocked /\ doing'[k].what = "panel"
       \/ /\ k = "commit" /\ review.open /\ doing'[k].what = "review" /\ doing'[k].arg = UNION review.files
          /\ review' = [open |-> FALSE, files |-> {}] /\ reading' = [reading EXCEPT !["diff"] = NoRead]

LEMMA APressPushes == PanelTypes /\ Pressed =>
  Review \/ CloseReview \/ ToggleMenu \/ \E k \in PanelCalls : Pushes(k)
<1> SUFFICES ASSUME PanelTypes, Pressed PROVE Review \/ CloseReview \/ ToggleMenu \/ \E k \in PanelCalls : Pushes(k)
  OBVIOUS
<1>p. ASSUME NEW k \in PanelCalls, NEW what, NEW arg, Press(k, Sent(what, arg))
      PROVE  /\ doing[k] = Free /\ doing'[k] = [stage |-> "sent", what |-> what, arg |-> arg] /\ OtherCalls(k)
             /\ ~hurried => UnderWay = {} /\ \A r \in PanelReads : reading[r] = NoRead
  <2>1. DOMAIN doing = PanelCalls
    BY DEF PanelTypes, CallsAreAbout
  <2> QED BY <1>p, <2>1 DEF Press, Sent, OtherCalls
<1>q. ASSUME NEW k \in PanelCalls, NEW what, NEW arg, Press(k, Sent(what, arg)), ~review.open,
             UNCHANGED <<hurried, serverVars, bundle, info, check, menu, review, reading>>,
             k = "file" => arg \in PanelFiles, k = "branch" => arg \in GitBranches,
             k = "commit" => ~Blocked /\ what = "panel"
      PROVE  Pushes(k)
  <2>1. /\ doing[k] = Free /\ doing'[k].stage = "sent" /\ doing'[k].what = what /\ doing'[k].arg = arg /\ OtherCalls(k)
        /\ ~hurried => UnderWay = {} /\ \A r \in PanelReads : reading[r] = NoRead
    <3>1. /\ doing[k] = Free /\ doing'[k] = [stage |-> "sent", what |-> what, arg |-> arg] /\ OtherCalls(k)
          /\ ~hurried => UnderWay = {} /\ \A r \in PanelReads : reading[r] = NoRead
      BY <1>p, <1>q
    <3> QED BY <3>1
  <2>2. /\ UNCHANGED <<hurried, serverVars, bundle, info, check, menu>>
        /\ UNCHANGED <<review, reading>>
    BY <1>q
  <2> QED BY <1>q, <2>1, <2>2 DEF Pushes
<1>c. {"commit", "check", "sync", "apply", "branch", "file"} \subseteq PanelCalls
  BY DEF PanelCalls
<1>1. CASE PressCommit
  <2>1. /\ ~Blocked /\ ~review.open /\ Press("commit", Sent("panel", bundle.pending))
        /\ UNCHANGED <<hurried, serverVars, bundle, info, check, menu, review, reading>>
    BY <1>1 DEF PressCommit
  <2> QED BY <2>1, <1>c, <1>q
<1>2. CASE CommitReviewed
  <2>1. /\ review.open /\ Press("commit", Sent("review", UNION review.files))
        /\ review' = [open |-> FALSE, files |-> {}]
        /\ reading' = [reading EXCEPT !["diff"] = NoRead]
        /\ UNCHANGED <<hurried, serverVars, bundle, info, check, menu>>
    BY <1>2 DEF CommitReviewed
  <2>2. /\ doing["commit"] = Free /\ doing'["commit"].stage = "sent" /\ doing'["commit"].what = "review"
        /\ doing'["commit"].arg = UNION review.files /\ OtherCalls("commit")
        /\ ~hurried => UnderWay = {} /\ \A r \in PanelReads : reading[r] = NoRead
    <3>1. /\ doing["commit"] = Free /\ OtherCalls("commit")
          /\ doing'["commit"] = [stage |-> "sent", what |-> "review", arg |-> UNION review.files]
          /\ ~hurried => UnderWay = {} /\ \A r \in PanelReads : reading[r] = NoRead
      BY <2>1, <1>c, <1>p
    <3> QED BY <3>1
  <2>3. Pushes("commit")
    BY <2>1, <2>2 DEF Pushes
  <2> QED BY <2>3, <1>c
<1>3. ASSUME NEW k \in {"check", "sync"}, PressCheckOrSync(k) PROVE Pushes(k) /\ k \in PanelCalls
  <2>1. /\ Press(k, Sent(k, {})) /\ ~review.open
        /\ UNCHANGED <<hurried, serverVars, bundle, info, check, menu, review, reading>>
    BY <1>3 DEF PressCheckOrSync
  <2> QED BY <2>1, <1>c, <1>q
<1>4. CASE PressApply
  <2>1. /\ Press("apply", Sent("apply", {})) /\ ~review.open
        /\ UNCHANGED <<hurried, serverVars, bundle, info, check, menu, review, reading>>
    BY <1>4 DEF PressApply
  <2> QED BY <2>1, <1>c, <1>q
<1>5. CASE PressOpenPr
  <2>1. /\ Press("branch", Sent("propose", onBranch)) /\ onBranch \in GitBranches /\ ~review.open
        /\ UNCHANGED <<hurried, serverVars, bundle, info, check, menu, review, reading>>
    BY <1>5 DEF PressOpenPr, PanelTypes, LinesHold
  <2> QED BY <2>1, <1>c, <1>q
<1>6. ASSUME NEW what \in {"save", "discard", "mine", "theirs"}, NEW f \in PanelFiles, PressFile(what, f)
      PROVE  Pushes("file")
  <2>1. /\ Press("file", Sent(what, f)) /\ ~review.open
        /\ UNCHANGED <<hurried, serverVars, bundle, info, check, menu, review, reading>>
    BY <1>6 DEF PressFile
  <2> QED BY <2>1, <1>c, <1>q
<1>7. ASSUME NEW what \in {"create", "switch"}, NEW br \in GitBranches, PressBranch(what, br) PROVE Pushes("branch")
  <2>1. /\ Press("branch", Sent(what, br)) /\ ~review.open
        /\ UNCHANGED <<hurried, serverVars, bundle, info, check, menu, review, reading>>
    BY <1>7 DEF PressBranch
  <2> QED BY <2>1, <1>c, <1>q
<1> QED BY <1>1, <1>2, <1>3, <1>4, <1>5, <1>6, <1>7, <1>c DEF Pressed

(* A call is served: what it changes is its own outcome, and on the server    *)
(* what a call of its kind may.                                              *)
Serves(k) ==
    /\ doing[k].stage = "sent" /\ doing'[k].stage \in {"answered", "refused"} /\ OtherCalls(k)
    /\ UNCHANGED <<hurried, bundle, info, check, menu, review, reading>>
    /\ doing'[k].stage = "refused" => UNCHANGED serverVars
    /\ k # "branch" => onBranch' = onBranch
    /\ k \notin {"commit", "sync", "branch"} => InfoNow' = InfoNow
    /\ k = "check" => doing'[k].says.head = Here.head /\ InfoNow' = InfoNow /\ BundleNow' = BundleNow
    /\ k = "sync" => doing'[k].says \/ BundleNow' = BundleNow
    /\ k = "commit" =>
          \/ doing'[k].stage = "answered"
          \/ ~(Here.pending # {} /\ Here.clash = {} /\ ~behindSketch /\ Here.head = Here.tip)

ServingHolds(k) == Serves(k) /\ LinesHold' /\ behindSketch' \in BOOLEAN

(* One branch changes, and it is the one the author is on or stays on.       *)
LEMMA OneLine ==
  ASSUME LinesHold, NEW br \in GitBranches, NEW new, LineHolds(new), OnLine(br, new),
         onBranch' \in GitBranches, IF onBranch' = br THEN new.head # 0 ELSE onBranch' = onBranch
  PROVE  LinesHold' /\ line'[br] = new /\ \A o \in GitBranches \ {br} : line'[o] = line[o]
<1>1. line'[br] = new /\ \A o \in GitBranches \ {br} : line'[o] = line[o]
  BY DEF OnLine, LinesHold
<1>2. DOMAIN line' = GitBranches /\ line' = [o \in GitBranches |-> line'[o]]
  BY DEF OnLine, LinesHold
<1>3. \A o \in GitBranches : LineHolds(line'[o])
  BY <1>1 DEF LinesHold
<1>4. Here'.head # 0
  BY <1>1 DEF LinesHold, Here
<1> QED BY <1>1, <1>2, <1>3, <1>4 DEF LinesHold, LineHolds

LEMMA AnswersOf ==
  ASSUME CallsAreAbout, NEW k \in PanelCalls
  PROVE  /\ \A outcome : Finish(k, outcome) =>
                doing'[k].stage = "answered" /\ doing'[k].says = outcome /\ OtherCalls(k)
         /\ Refused(k) => doing'[k].stage = "refused" /\ OtherCalls(k)
BY DEF CallsAreAbout, Finish, Refused, OtherCalls

LEMMA HereIsALine == LinesHold => onBranch \in GitBranches /\ LineHolds(Here) /\ Here \in Line /\ Here.head # 0
BY DEF LinesHold, LineHolds, Here

LEMMA CommitServes == PanelTypes /\ ServeCommit => ServingHolds("commit")
<1> SUFFICES ASSUME PanelTypes, ServeCommit PROVE ServingHolds("commit")
  OBVIOUS
<1>t. LinesHold /\ CallsAreAbout /\ behindSketch \in BOOLEAN /\ "commit" \in PanelCalls
  BY DEF PanelTypes, PanelCalls
<1>h. onBranch \in GitBranches /\ LineHolds(Here) /\ Here \in Line /\ Here.head # 0
  BY <1>t, HereIsALine
<1>u. /\ doing["commit"].stage = "sent"
      /\ UNCHANGED <<hurried, onBranch, behindSketch, bundle, info, check, menu, review, reading>>
  BY DEF ServeCommit
<1>1. CASE Here.pending # {} /\ Here.clash = {} /\ ~behindSketch /\ Here.head = Here.tip
  <2>1. Here.tip < MaxTip /\ OnLine(onBranch, Committed) /\ Finish("commit", {})
    BY <1>1 DEF ServeCommit
  <2>2. LineHolds(Committed) /\ Committed.head # 0
    <3>1. Here.changed = {} /\ Here.clash = {}
      BY <1>1, <1>h DEF LineHolds
    <3>2. PICK n : n = Here.tip + 1 /\ n \in 1..MaxTip /\ n \in 0..MaxTip /\ n <= n /\ n # 0
      BY <2>1, <1>h DEF Line
    <3>3. Committed = [Here EXCEPT !.tip = n, !.head = n, !.pending = {}]
      BY <3>2 DEF Committed
    <3>4. Committed \in Line
      BY <3>2, <3>3, <1>h DEF Line
    <3>5. Committed.head = n /\ Committed.tip = n /\ Committed.changed = {} /\ Committed.clash = {}
      BY <3>1, <3>3, <1>h DEF Line
    <3> QED BY <3>2, <3>4, <3>5 DEF LineHolds
  <2>3. LinesHold'
    BY <2>1, <2>2, <1>t, <1>h, <1>u, OneLine
  <2>4. doing'["commit"].stage = "answered" /\ OtherCalls("commit")
    BY <2>1, <1>t, AnswersOf
  <2> QED BY <2>3, <2>4, <1>t, <1>u DEF ServingHolds, Serves
<1>2. CASE ~(Here.pending # {} /\ Here.clash = {} /\ ~behindSketch /\ Here.head = Here.tip)
  <2>1. Refused("commit") /\ UNCHANGED line
    BY <1>2 DEF ServeCommit
  <2>2. doing'["commit"].stage = "refused" /\ OtherCalls("commit")
    BY <2>1, <1>t, AnswersOf
  <2>3. LinesHold' /\ UNCHANGED serverVars
    BY <2>1, <1>t, <1>u DEF LinesHold, Here, serverVars
  <2> QED BY <1>2, <2>2, <2>3, <1>t, <1>u DEF ServingHolds, Serves
<1> QED BY <1>1, <1>2

LEMMA SyncServes == PanelTypes /\ ServeSync => ServingHolds("sync")
<1> SUFFICES ASSUME PanelTypes, ServeSync PROVE ServingHolds("sync")
  OBVIOUS
<1>t. LinesHold /\ CallsAreAbout /\ behindSketch \in BOOLEAN /\ "sync" \in PanelCalls
  BY DEF PanelTypes, PanelCalls
<1>h. onBranch \in GitBranches /\ LineHolds(Here) /\ Here \in Line /\ Here.head # 0
  BY <1>t, HereIsALine
<1> DEFINE synced == [Here EXCEPT !.head = Here.tip, !.changed = {}, !.clash = @ \cup (Here.pending \cap Here.changed)]
<1>u. /\ doing["sync"].stage = "sent" /\ OnLine(onBranch, synced) /\ Finish("sync", Here.head # Here.tip)
      /\ behindSketch' \in IF Here.head = Here.tip THEN {behindSketch} ELSE BOOLEAN
      /\ UNCHANGED <<hurried, onBranch, bundle, info, check, menu, review, reading>>
  BY DEF ServeSync
<1>1. LineHolds(synced) /\ synced.head # 0 /\ synced.pending = Here.pending
      /\ (Here.head = Here.tip => synced.clash = Here.clash)
  <2>1. PICK n : n = Here.tip /\ n \in 0..MaxTip /\ n <= n /\ n # 0
    BY <1>h DEF Line
  <2>2. PICK files : files = Here.clash \cup (Here.pending \cap Here.changed)
    OBVIOUS
  <2>3. synced = [Here EXCEPT !.head = n, !.changed = {}, !.clash = files]
    BY <2>1, <2>2
  <2>4. files \subseteq Here.pending /\ files \in SUBSET PanelFiles
    BY <2>2, <1>h DEF LineHolds, Line
  <2>5. synced \in Line
    BY <2>1, <2>3, <2>4, <1>h DEF Line
  <2>6. /\ synced.head = n /\ synced.tip = n /\ synced.changed = {} /\ synced.clash = files
        /\ synced.pending = Here.pending
    BY <2>1, <2>3, <1>h DEF Line
  <2>7. Here.head = Here.tip => files = Here.clash
    BY <2>2, <1>h DEF LineHolds
  <2> QED BY <2>1, <2>4, <2>5, <2>6, <2>7 DEF LineHolds
<1> HIDE DEF synced
<1>2. LinesHold' /\ line'[onBranch] = synced
  BY <1>1, <1>t, <1>h, <1>u, OneLine
<1>3. doing'["sync"].stage = "answered" /\ doing'["sync"].says = (Here.head # Here.tip) /\ OtherCalls("sync")
  BY <1>u, <1>t, AnswersOf
<1>4. Here.head = Here.tip => BundleNow' = BundleNow
  BY <1>1, <1>2, <1>u DEF BundleNow, Here
<1>5. behindSketch' \in BOOLEAN
  BY <1>u, <1>t
<1> QED BY <1>2, <1>3, <1>4, <1>5, <1>u DEF ServingHolds, Serves

LEMMA CheckServes == PanelTypes /\ ServeCheck => ServingHolds("check")
<1> SUFFICES ASSUME PanelTypes, ServeCheck PROVE ServingHolds("check")
  OBVIOUS
<1>t. LinesHold /\ CallsAreAbout /\ behindSketch \in BOOLEAN /\ "check" \in PanelCalls
  BY DEF PanelTypes, PanelCalls
<1>u. /\ doing["check"].stage = "sent" /\ Finish("check", CheckNow)
      /\ UNCHANGED <<hurried, serverVars, bundle, info, check, menu, review, reading>>
  BY DEF ServeCheck
<1>1. UNCHANGED <<onBranch, behindSketch, line>>
  BY <1>u DEF serverVars
<1>2. doing'["check"].stage = "answered" /\ doing'["check"].says = CheckNow /\ OtherCalls("check")
  BY <1>u, <1>t, AnswersOf
<1>3. doing'["check"].says.head = Here.head
  BY <1>2 DEF CheckNow
<1>4. LinesHold' /\ InfoNow' = InfoNow /\ BundleNow' = BundleNow
  BY <1>1, <1>t DEF LinesHold, Here, InfoNow, BundleNow
<1> QED BY <1>t, <1>u, <1>1, <1>2, <1>3, <1>4 DEF ServingHolds, Serves

LEMMA ApplyServes == PanelTypes /\ ServeApply => ServingHolds("apply")
<1> SUFFICES ASSUME PanelTypes, ServeApply PROVE ServingHolds("apply")
  OBVIOUS
<1>t. LinesHold /\ CallsAreAbout /\ behindSketch \in BOOLEAN /\ "apply" \in PanelCalls
  BY DEF PanelTypes, PanelCalls
<1>h. onBranch \in GitBranches /\ LineHolds(Here) /\ Here \in Line /\ Here.head # 0
  BY <1>t, HereIsALine
<1>u. /\ doing["apply"].stage = "sent"
      /\ UNCHANGED <<hurried, onBranch, bundle, info, check, menu, review, reading>>
  BY DEF ServeApply
<1> DEFINE applied == [Here EXCEPT !.pending = @ \cup Emitted]
<1>1. CASE behindSketch' = FALSE /\ OnLine(onBranch, applied) /\ Finish("apply", {})
  <2>1. LineHolds(applied) /\ applied.head = Here.head /\ applied.pr = Here.pr
    BY <1>h DEF LineHolds, Line, PanelFiles
  <2> HIDE DEF applied
  <2>2. LinesHold' /\ line'[onBranch] = applied
    BY <1>1, <2>1, <1>t, <1>h, <1>u, OneLine
  <2>3. InfoNow' = InfoNow
    BY <2>1, <2>2, <1>u DEF InfoNow, Here
  <2>4. doing'["apply"].stage = "answered" /\ OtherCalls("apply")
    BY <1>1, <1>t, AnswersOf
  <2> QED BY <1>1, <2>2, <2>3, <2>4, <1>u DEF ServingHolds, Serves
<1>2. CASE Refused("apply") /\ UNCHANGED <<behindSketch, line>>
  <2>1. doing'["apply"].stage = "refused" /\ OtherCalls("apply")
    BY <1>2, <1>t, AnswersOf
  <2>2. LinesHold' /\ UNCHANGED serverVars /\ InfoNow' = InfoNow
    BY <1>2, <1>t, <1>u DEF LinesHold, Here, serverVars, InfoNow
  <2> QED BY <1>2, <2>1, <2>2, <1>t, <1>u DEF ServingHolds, Serves
<1> QED BY <1>1, <1>2 DEF ServeApply

LEMMA FileServes == PanelTypes /\ ServeFile => ServingHolds("file")
<1> SUFFICES ASSUME PanelTypes, ServeFile PROVE ServingHolds("file")
  OBVIOUS
<1>t. LinesHold /\ CallsAreAbout /\ behindSketch \in BOOLEAN /\ "file" \in PanelCalls
  BY DEF PanelTypes, PanelCalls
<1>h. onBranch \in GitBranches /\ LineHolds(Here) /\ Here \in Line /\ Here.head # 0
  BY <1>t, HereIsALine
<1>u. /\ doing["file"].stage = "sent" /\ Finish("file", {})
      /\ UNCHANGED <<hurried, onBranch, bundle, info, check, menu, review, reading>>
  BY DEF ServeFile
<1>f. PICK f \in PanelFiles : f = doing["file"].arg
  BY <1>t, <1>u DEF CallsAreAbout
<1>1. \E new : OnLine(onBranch, new) /\ LineHolds(new) /\ new.head = Here.head /\ new.pr = Here.pr
  <2>1. CASE OnLine(onBranch, [Here EXCEPT !.pending = @ \cup {f}])
    <3>1. \E new : new = [Here EXCEPT !.pending = @ \cup {f}]
      OBVIOUS
    <3>2. PICK new : new = [Here EXCEPT !.pending = @ \cup {f}]
      BY <3>1
    <3>3. LineHolds(new) /\ new.head = Here.head /\ new.pr = Here.pr
      BY <3>2, <1>h DEF LineHolds, Line
    <3> QED BY <2>1, <3>2, <3>3
  <2>2. CASE OnLine(onBranch, [Here EXCEPT !.clash = @ \ {f}])
    <3>2. PICK new : new = [Here EXCEPT !.clash = @ \ {f}]
      OBVIOUS
    <3>3. LineHolds(new) /\ new.head = Here.head /\ new.pr = Here.pr
      BY <3>2, <1>h DEF LineHolds, Line
    <3> QED BY <2>2, <3>2, <3>3
  <2>3. CASE OnLine(onBranch, [Here EXCEPT !.pending = @ \ {f}, !.clash = @ \ {f}])
    <3>2. PICK new : new = [Here EXCEPT !.pending = @ \ {f}, !.clash = @ \ {f}]
      OBVIOUS
    <3>3. LineHolds(new) /\ new.head = Here.head /\ new.pr = Here.pr
      BY <3>2, <1>h DEF LineHolds, Line
    <3> QED BY <2>3, <3>2, <3>3
  <2> QED BY <2>1, <2>2, <2>3, <1>f DEF ServeFile
<1>2. PICK new : OnLine(onBranch, new) /\ LineHolds(new) /\ new.head = Here.head /\ new.pr = Here.pr
  BY <1>1
<1>3. LinesHold' /\ line'[onBranch] = new
  BY <1>2, <1>t, <1>h, <1>u, OneLine
<1>4. InfoNow' = InfoNow
  BY <1>2, <1>3, <1>u DEF InfoNow, Here
<1>5. behindSketch' \in BOOLEAN
  BY <1>t DEF ServeFile
<1>6. doing'["file"].stage = "answered" /\ OtherCalls("file")
  BY <1>u, <1>t, AnswersOf
<1> QED BY <1>3, <1>4, <1>5, <1>6, <1>u DEF ServingHolds, Serves

LEMMA CreateServes == PanelTypes /\ ServeCreate => ServingHolds("branch")
<1> SUFFICES ASSUME PanelTypes, ServeCreate PROVE ServingHolds("branch")
  OBVIOUS
<1>t. LinesHold /\ CallsAreAbout /\ behindSketch \in BOOLEAN /\ "branch" \in PanelCalls
  BY DEF PanelTypes, PanelCalls
<1>h. onBranch \in GitBranches /\ LineHolds(Here) /\ Here \in Line /\ Here.head # 0
  BY <1>t, HereIsALine
<1>u. /\ doing["branch"].stage = "sent"
      /\ UNCHANGED <<hurried, bundle, info, check, menu, review, reading>>
  BY DEF ServeCreate
<1>b. PICK br \in GitBranches : br = doing["branch"].arg
  BY <1>t, <1>u DEF CallsAreAbout
<1>1. CASE line[br].there
  <2>1. Refused("branch") /\ UNCHANGED serverVars
    BY <1>1, <1>b DEF ServeCreate
  <2>2. doing'["branch"].stage = "refused" /\ OtherCalls("branch")
    BY <2>1, <1>t, AnswersOf
  <2>3. LinesHold' /\ behindSketch' \in BOOLEAN
    BY <2>1, <1>t DEF LinesHold, Here, serverVars
  <2> QED BY <2>1, <2>2, <2>3, <1>u DEF ServingHolds, Serves
<1>2. CASE ~line[br].there
  <2> DEFINE drawn == [Here EXCEPT !.there = TRUE, !.tip = Here.head, !.pr = "none", !.changed = {}]
  <2>1. /\ line' = [line EXCEPT ![br] = drawn, ![onBranch].pending = {}, ![onBranch].clash = {}]
        /\ onBranch' = br /\ Finish("branch", {}) /\ UNCHANGED behindSketch
    BY <1>2, <1>b DEF ServeCreate
  <2>2. LineHolds(drawn) /\ drawn \in Line /\ drawn.head # 0
    <3>1. PICK n : n = Here.head /\ n \in 1..MaxTip /\ n <= n /\ n # 0
      BY <1>h DEF Line
    <3>2. drawn = [Here EXCEPT !.there = TRUE, !.tip = n, !.pr = "none", !.changed = {}]
      BY <3>1
    <3>3. drawn \in Line
      BY <3>1, <3>2, <1>h DEF Line
    <3>4. /\ drawn.head = n /\ drawn.tip = n /\ drawn.changed = {} /\ drawn.clash = Here.clash
          /\ drawn.pending = Here.pending
      BY <3>1, <3>2, <1>h DEF Line
    <3> QED BY <3>1, <3>3, <3>4, <1>h DEF LineHolds
  <2> HIDE DEF drawn
  <2>3. DOMAIN line = GitBranches /\ \A o \in GitBranches : LineHolds(line[o]) /\ line[o] \in Line
    BY <1>t DEF LinesHold, LineHolds
  <2>4. DOMAIN line' = GitBranches /\ line' = [o \in GitBranches |-> line'[o]]
    BY <2>1, <2>3
  <2>5. \A o \in GitBranches \ {br, onBranch} : line'[o] = line[o]
    BY <2>1, <2>3
  <2>6. LineHolds(line'[br]) /\ line'[br].head # 0
    <3>1. CASE br # onBranch
      BY <2>1, <2>2, <2>3, <3>1
    <3>2. CASE br = onBranch
      <4>1. line'[br] = [drawn EXCEPT !.pending = {}, !.clash = {}]
        BY <2>1, <2>3, <3>2
      <4> QED BY <4>1, <2>2 DEF LineHolds, Line
    <3> QED BY <3>1, <3>2
  <2>7. LineHolds(line'[onBranch])
    <3>1. CASE br # onBranch
      <4>1. line'[onBranch] = [Here EXCEPT !.pending = {}, !.clash = {}]
        BY <2>1, <2>3, <3>1, <1>h DEF Here
      <4> QED BY <4>1, <1>h DEF LineHolds, Line
    <3>2. CASE br = onBranch
      BY <2>6, <3>2
    <3> QED BY <3>1, <3>2
  <2>8. LinesHold'
    <3>1. \A o \in GitBranches : LineHolds(line'[o])
      BY <2>3, <2>5, <2>6, <2>7
    <3> QED BY <2>1, <2>4, <2>6, <3>1 DEF LinesHold, LineHolds, Here
  <2>9. doing'["branch"].stage = "answered" /\ OtherCalls("branch")
    BY <2>1, <1>t, AnswersOf
  <2> QED BY <2>1, <2>8, <2>9, <1>t, <1>u DEF ServingHolds, Serves
<1> QED BY <1>1, <1>2

LEMMA SwitchServes == PanelTypes /\ ServeSwitch => ServingHolds("branch")
<1> SUFFICES ASSUME PanelTypes, ServeSwitch PROVE ServingHolds("branch")
  OBVIOUS
<1>t. LinesHold /\ CallsAreAbout /\ behindSketch \in BOOLEAN /\ "branch" \in PanelCalls
  BY DEF PanelTypes, PanelCalls
<1>u. /\ doing["branch"].stage = "sent"
      /\ UNCHANGED <<hurried, bundle, info, check, menu, review, reading>>
  BY DEF ServeSwitch
<1>b. PICK br \in GitBranches : br = doing["branch"].arg
  BY <1>t, <1>u DEF CallsAreAbout
<1>h. LineHolds(line[br]) /\ line[br] \in Line
  BY <1>t, <1>b DEF LinesHold, LineHolds
<1>1. CASE br = onBranch
  <2>1. Finish("branch", {}) /\ UNCHANGED serverVars
    BY <1>1, <1>b DEF ServeSwitch
  <2>2. doing'["branch"].stage = "answered" /\ OtherCalls("branch")
    BY <2>1, <1>t, AnswersOf
  <2>3. LinesHold' /\ behindSketch' \in BOOLEAN
    BY <2>1, <1>t DEF LinesHold, Here, serverVars
  <2> QED BY <2>2, <2>3, <1>u DEF ServingHolds, Serves
<1>2. CASE br # onBranch
  <2> DEFINE pinned == [line[br] EXCEPT !.head = IF @ = 0 THEN line[br].tip ELSE @]
  <2>1. OnLine(br, pinned) /\ onBranch' = br /\ behindSketch' \in BOOLEAN /\ Finish("branch", {})
    BY <1>2, <1>b DEF ServeSwitch
  <2>2. LineHolds(pinned) /\ pinned.head # 0
    BY <1>h DEF LineHolds, Line
  <2> HIDE DEF pinned
  <2>3. LinesHold'
    BY <2>1, <2>2, <1>t, <1>b, OneLine
  <2>4. doing'["branch"].stage = "answered" /\ OtherCalls("branch")
    BY <2>1, <1>t, AnswersOf
  <2> QED BY <2>1, <2>3, <2>4, <1>u DEF ServingHolds, Serves
<1> QED BY <1>1, <1>2

LEMMA ProposeServes == PanelTypes /\ ServePropose => ServingHolds("branch")
<1> SUFFICES ASSUME PanelTypes, ServePropose PROVE ServingHolds("branch")
  OBVIOUS
<1>t. LinesHold /\ CallsAreAbout /\ behindSketch \in BOOLEAN /\ "branch" \in PanelCalls
  BY DEF PanelTypes, PanelCalls
<1>h. onBranch \in GitBranches /\ LineHolds(Here) /\ Here \in Line /\ Here.head # 0
  BY <1>t, HereIsALine
<1>u. /\ doing["branch"].stage = "sent"
      /\ UNCHANGED <<hurried, onBranch, behindSketch, bundle, info, check, menu, review, reading>>
  BY DEF ServePropose
<1> DEFINE proposed == [Here EXCEPT !.pr = IF @ = "none" THEN "open" ELSE @]
<1>1. CASE OnLine(onBranch, proposed) /\ Finish("branch", {})
  <2>1. LineHolds(proposed) /\ proposed.head # 0
    BY <1>h DEF LineHolds, Line
  <2> HIDE DEF proposed
  <2>2. LinesHold'
    BY <1>1, <2>1, <1>t, <1>h, <1>u, OneLine
  <2>3. doing'["branch"].stage = "answered" /\ OtherCalls("branch")
    BY <1>1, <1>t, AnswersOf
  <2> QED BY <2>2, <2>3, <1>t, <1>u DEF ServingHolds, Serves
<1>2. CASE Refused("branch") /\ UNCHANGED line
  <2>1. doing'["branch"].stage = "refused" /\ OtherCalls("branch")
    BY <1>2, <1>t, AnswersOf
  <2>2. LinesHold' /\ UNCHANGED serverVars
    BY <1>2, <1>t, <1>u DEF LinesHold, Here, serverVars
  <2> QED BY <2>1, <2>2, <1>t, <1>u DEF ServingHolds, Serves
<1> QED BY <1>1, <1>2 DEF ServePropose

(* Something else happens on GitHub: nothing that the panel shows.           *)
HappensElsewhere ==
    /\ LinesHold' /\ UNCHANGED <<hurried, onBranch, behindSketch, bundle, info, check, menu, review, doing, reading>>
    /\ InfoNow' = InfoNow /\ BundleNow' = BundleNow
    /\ Here'.head = Here.head /\ Here'.pending = Here.pending /\ Here'.clash = Here.clash

LEMMA OthersHappenElsewhere == PanelTypes /\ OnGitHub => HappensElsewhere
<1> SUFFICES ASSUME PanelTypes, OnGitHub PROVE HappensElsewhere
  OBVIOUS
<1>t. LinesHold /\ DOMAIN line = GitBranches /\ \A br \in GitBranches : LineHolds(line[br]) /\ line[br] \in Line
  BY DEF PanelTypes, LinesHold, LineHolds
<1>h. onBranch \in GitBranches /\ Here.head # 0
  BY <1>t, HereIsALine
<1>o. ASSUME NEW br \in GitBranches, NEW new, OnLine(br, new), LineHolds(new), new.head = line[br].head,
             new.pending = line[br].pending, new.clash = line[br].clash,
             (new.pr # "none") = (line[br].pr # "none"),
             UNCHANGED <<hurried, onBranch, behindSketch, bundle, info, check, menu, review, doing, reading>>
      PROVE  HappensElsewhere
  <2>1. onBranch' = onBranch /\ onBranch' \in GitBranches /\ (br = onBranch => new.head # 0)
    BY <1>o, <1>h DEF Here
  <2>2. LinesHold' /\ line'[br] = new /\ \A o \in GitBranches \ {br} : line'[o] = line[o]
    BY <1>o, <1>t, <2>1, OneLine
  <2>3. /\ Here'.head = Here.head /\ Here'.pending = Here.pending /\ Here'.clash = Here.clash
        /\ (Here'.pr # "none") = (Here.pr # "none")
    BY <1>o, <2>1, <2>2 DEF Here
  <2> QED BY <1>o, <2>2, <2>3 DEF HappensElsewhere, InfoNow, BundleNow
<1>1. ASSUME NEW br \in GitBranches, NEW files \in {{f} : f \in PanelFiles}, PushedByOthers(br, files)
      PROVE  HappensElsewhere
  <2> DEFINE pushed == [line[br] EXCEPT !.tip = @ + 1, !.changed = IF line[br].head = 0 THEN {} ELSE @ \cup files]
  <2>1. /\ line[br].tip < MaxTip /\ OnLine(br, pushed)
        /\ UNCHANGED <<hurried, onBranch, behindSketch, bundle, info, check, menu, review, doing, reading>>
    BY <1>1 DEF PushedByOthers
  <2>2. PICK n : n = line[br].tip + 1 /\ n \in 1..MaxTip /\ line[br].head <= n /\ line[br].head # n
    BY <2>1, <1>t DEF LineHolds, Line
  <2>3. PICK theirs : theirs = IF line[br].head = 0 THEN {} ELSE line[br].changed \cup files
    OBVIOUS
  <2>4. theirs \in SUBSET PanelFiles
    BY <2>3, <1>t DEF Line
  <2>5. pushed = [line[br] EXCEPT !.tip = n, !.changed = theirs]
    BY <2>2, <2>3
  <2>6. pushed \in Line
    <3>1. line[br] \in Line
      BY <1>t
    <3> QED BY <2>2, <2>4, <2>5, <3>1 DEF Line
  <2>7. /\ pushed.head = line[br].head /\ pushed.tip = n /\ pushed.changed = theirs /\ pushed.pr = line[br].pr
        /\ pushed.pending = line[br].pending /\ pushed.clash = line[br].clash
    BY <2>5, <1>t DEF Line
  <2>8. line[br].clash \subseteq line[br].pending
    BY <1>t DEF LineHolds
  <2>9. LineHolds(pushed)
    BY <2>2, <2>3, <2>6, <2>7, <2>8 DEF LineHolds
  <2> HIDE DEF pushed
  <2> QED BY <2>1, <2>7, <2>9, <1>o
<1>2. ASSUME NEW br \in GitBranches, Merged(br) PROVE HappensElsewhere
  <2> DEFINE merged == [line[br] EXCEPT !.pr = "merged"]
  <2>1. /\ line[br].pr = "open" /\ OnLine(br, merged)
        /\ UNCHANGED <<hurried, onBranch, behindSketch, bundle, info, check, menu, review, doing, reading>>
    BY <1>2 DEF Merged
  <2>2. LineHolds(merged) /\ merged.pr = "merged"
    BY <1>t DEF LineHolds, Line
  <2>3. merged.head = line[br].head /\ merged.pending = line[br].pending /\ merged.clash = line[br].clash
    BY <1>t DEF Line
  <2> HIDE DEF merged
  <2> QED BY <2>1, <2>2, <2>3, <1>o
<1> QED BY <1>1, <1>2 DEF OnGitHub

(* Every step of the panel, by what it does.                                 *)
PanelSteps ==
    \/ Review \/ CloseReview \/ ToggleMenu
    \/ \E k \in PanelCalls : Pushes(k) \/ ServingHolds(k)
    \/ \E r \in PanelReads : ServeRead(r)
    \/ \E k \in PanelCalls : ServeRefresh(k) \/ AnswerMove(k) \/ AnswerFiles(k) \/ AnswerRefused(k) \/ Refreshed(k)
    \/ AnswerSync \/ AnswerCheck \/ InfoLands \/ ListLands \/ DiffLands
    \/ HappensElsewhere \/ UNCHANGED panelVars

LEMMA EveryPanelStep == PanelTypes /\ [PanelNext]_panelVars => PanelSteps
<1> SUFFICES ASSUME PanelTypes, [PanelNext]_panelVars PROVE PanelSteps
  OBVIOUS
<1>1. CASE Pressed
  BY <1>1, APressPushes DEF PanelSteps
<1>2. CASE Served
  <2>1. CASE ServeCommit \/ ServeSync \/ ServeCheck \/ ServeApply \/ ServeFile \/ ServeCreate \/ ServeSwitch \/ ServePropose
    <3>1. \E k \in PanelCalls : ServingHolds(k)
      BY <2>1, CommitServes, SyncServes, CheckServes, ApplyServes, FileServes, CreateServes, SwitchServes,
         ProposeServes DEF PanelCalls
    <3> QED BY <3>1 DEF PanelSteps
  <2>2. CASE \E r \in PanelReads : ServeRead(r)
    BY <2>2 DEF PanelSteps
  <2>3. CASE \E k \in PanelCalls : ServeRefresh(k)
    BY <2>3 DEF PanelSteps
  <2> QED BY <1>2, <2>1, <2>2, <2>3 DEF Served
<1>3. CASE Answered
  BY <1>3 DEF Answered, PanelSteps
<1>4. CASE OnGitHub
  BY <1>4, OthersHappenElsewhere DEF PanelSteps
<1>5. CASE UNCHANGED panelVars
  BY <1>5 DEF PanelSteps
<1> QED BY <1>1, <1>2, <1>3, <1>4, <1>5 DEF PanelNext

(* What the server has does not change.                                      *)
LEMMA ServerLeftAlone ==
  LinesHold /\ UNCHANGED serverVars =>
     /\ LinesHold' /\ UNCHANGED <<onBranch, behindSketch>> /\ Here' = Here
     /\ InfoNow' = InfoNow /\ BundleNow' = BundleNow
BY DEF LinesHold, serverVars, Here, InfoNow, BundleNow

LEMMA MenuAndReviewStep == PanelTypes /\ PanelSteps => MenuAndReview'
<1> SUFFICES ASSUME PanelTypes, PanelSteps PROVE MenuAndReview'
  OBVIOUS
<1>t. DOMAIN menu = {"open", "list"} /\ DOMAIN review = {"open", "files"}
  BY DEF PanelTypes, MenuAndReview
<1>u. UNCHANGED <<menu, review>> => MenuAndReview'
  BY <1>t DEF MenuAndReview
<1>1. CASE Review \/ CloseReview
  BY <1>1, <1>t DEF Review, CloseReview, MenuAndReview
<1>2. CASE ToggleMenu
  <2>1. DOMAIN menu' = {"open", "list"} /\ review' = review
    BY <1>2, <1>t DEF ToggleMenu
  <2> QED BY <2>1, <1>t DEF MenuAndReview
<1>3. ASSUME NEW k \in PanelCalls, Pushes(k) PROVE MenuAndReview'
  BY <1>3, <1>t DEF Pushes, MenuAndReview
<1>4. ASSUME NEW k \in PanelCalls, ServingHolds(k) PROVE MenuAndReview'
  BY <1>4, <1>u DEF ServingHolds, Serves
<1>5. ASSUME NEW k \in PanelCalls, AnswerMove(k) PROVE MenuAndReview'
  <2>1. DOMAIN menu' = {"open", "list"} /\ review' = review
    BY <1>5, <1>t DEF AnswerMove
  <2> QED BY <2>1, <1>t DEF MenuAndReview
<1>6. CASE ListLands
  <2>1. DOMAIN menu' = {"open", "list"} /\ review' = review
    BY <1>6, <1>t DEF ListLands
  <2> QED BY <2>1, <1>t DEF MenuAndReview
<1>7. CASE DiffLands
  <2>1. DOMAIN review' = {"open", "files"} /\ menu' = menu
    BY <1>7, <1>t DEF DiffLands
  <2> QED BY <2>1, <1>t DEF MenuAndReview
<1>8. CASE \E r \in PanelReads : ServeRead(r)
  BY <1>8, <1>u DEF ServeRead
<1>9. CASE \E k \in PanelCalls : ServeRefresh(k) \/ AnswerFiles(k) \/ AnswerRefused(k) \/ Refreshed(k)
  BY <1>9, <1>u DEF ServeRefresh, AnswerFiles, AnswerRefused, Refreshed
<1>10. CASE AnswerSync \/ AnswerCheck \/ InfoLands \/ HappensElsewhere \/ UNCHANGED panelVars
  BY <1>10, <1>u DEF AnswerSync, AnswerCheck, InfoLands, HappensElsewhere, panelVars
<1> QED BY <1>1, <1>2, <1>3, <1>4, <1>5, <1>6, <1>7, <1>8, <1>9, <1>10 DEF PanelSteps

LEMMA PanelTypeStep == PanelTypes /\ [PanelNext]_panelVars => PanelTypes'
<1> SUFFICES ASSUME PanelTypes, [PanelNext]_panelVars PROVE PanelTypes'
  OBVIOUS
<1>t. /\ hurried \in BOOLEAN /\ behindSketch \in BOOLEAN /\ LinesHold /\ CallsAreAbout /\ ReadsGoOn
      /\ AtMostOne(info) /\ AtMostOne(check) /\ DOMAIN doing = PanelCalls /\ DOMAIN reading = PanelReads
  BY DEF PanelTypes, CallsAreAbout
<1>r. ASSUME UNCHANGED reading PROVE ReadsGoOn' /\ DOMAIN reading' = PanelReads
  BY <1>r, <1>t DEF ReadsGoOn
<1>s. ASSUME UNCHANGED serverVars PROVE LinesHold' /\ behindSketch' \in BOOLEAN
  BY <1>s, <1>t, ServerLeftAlone
<1>d. ASSUME UNCHANGED doing, DOMAIN reading' = PanelReads PROVE CallsAreAbout'
  BY <1>d, <1>t DEF CallsAreAbout
<1>k. ASSUME NEW k \in PanelCalls, OtherCalls(k), doing'[k].stage # "sent", DOMAIN reading' = PanelReads
      PROVE  CallsAreAbout'
  <2>1. {"file", "branch"} \subseteq PanelCalls
    BY DEF PanelCalls
  <2>2. \A c \in {"file", "branch"} : doing'[c].stage = "sent" => doing'[c] = doing[c]
    BY <1>k, <2>1 DEF OtherCalls
  <2>3. DOMAIN doing' = PanelCalls
    BY <1>k DEF OtherCalls
  <2> QED BY <1>k, <1>t, <2>2, <2>3 DEF CallsAreAbout
<1>v. MenuAndReview'
  BY EveryPanelStep, MenuAndReviewStep
<1>1. CASE Review \/ CloseReview \/ ToggleMenu
  <2>1. ReadsGoOn' /\ DOMAIN reading' = PanelReads
    BY <1>1, <1>t DEF Review, CloseReview, ToggleMenu, ReadsGoOn, PanelReads
  <2>2. UNCHANGED <<hurried, info, check, doing>> /\ UNCHANGED serverVars
    BY <1>1 DEF Review, CloseReview, ToggleMenu
  <2> QED BY <2>1, <2>2, <1>t, <1>s, <1>d, <1>v DEF PanelTypes
<1>2. ASSUME NEW k \in PanelCalls, Pushes(k) PROVE PanelTypes'
  <2>1. ReadsGoOn' /\ DOMAIN reading' = PanelReads
    BY <1>2, <1>t DEF Pushes, ReadsGoOn, PanelReads
  <2>2. CallsAreAbout'
    <3>1. {"file", "branch"} \subseteq PanelCalls
      BY DEF PanelCalls
    <3>2. \A c \in {"file", "branch"} : c # k => doing'[c] = doing[c]
      BY <1>2, <3>1 DEF Pushes, OtherCalls
    <3>3. DOMAIN doing' = PanelCalls
      BY <1>2 DEF Pushes, OtherCalls
    <3>4. k = "file" => doing'[k].arg \in PanelFiles
      BY <1>2 DEF Pushes
    <3>5. k = "branch" => doing'[k].arg \in GitBranches
      BY <1>2 DEF Pushes
    <3> QED BY <1>t, <2>1, <3>2, <3>3, <3>4, <3>5 DEF CallsAreAbout
  <2>3. UNCHANGED <<hurried, info, check>> /\ UNCHANGED serverVars
    BY <1>2 DEF Pushes
  <2> QED BY <2>1, <2>2, <2>3, <1>t, <1>s, <1>v DEF PanelTypes
<1>3. ASSUME NEW k \in PanelCalls, ServingHolds(k) PROVE PanelTypes'
  <2>1. /\ UNCHANGED <<hurried, info, check>> /\ UNCHANGED reading /\ OtherCalls(k) /\ doing'[k].stage # "sent"
        /\ LinesHold' /\ behindSketch' \in BOOLEAN
    BY <1>3 DEF ServingHolds, Serves
  <2> QED BY <2>1, <1>t, <1>r, <1>k, <1>v DEF PanelTypes
<1>4. ASSUME NEW r \in PanelReads, ServeRead(r) PROVE PanelTypes'
  <2>1. /\ UNCHANGED <<hurried, info, check, doing>> /\ UNCHANGED serverVars
        /\ DOMAIN reading' = PanelReads /\ reading'[r].stage = "answered"
        /\ \A o \in PanelReads \ {r} : reading'[o] = reading[o]
    BY <1>4, <1>t DEF ServeRead
  <2>2. ReadsGoOn'
    BY <2>1, <1>t DEF ReadsGoOn
  <2> QED BY <2>1, <2>2, <1>t, <1>s, <1>d, <1>v DEF PanelTypes
<1>5. ASSUME NEW k \in PanelCalls, ServeRefresh(k) \/ AnswerMove(k) \/ AnswerFiles(k) \/ AnswerRefused(k) \/ Refreshed(k)
      PROVE  PanelTypes'
  <2>1. OtherCalls(k) /\ doing'[k].stage # "sent"
    BY <1>5, <1>t DEF ServeRefresh, AnswerMove, AnswerFiles, AnswerRefused, Refreshed, Refreshing, OtherCalls, Free
  <2>2. ReadsGoOn' /\ DOMAIN reading' = PanelReads
    BY <1>5, <1>t DEF ServeRefresh, AnswerMove, AnswerFiles, AnswerRefused, Refreshed, ReadsGoOn, PanelReads
  <2>3. hurried' = hurried /\ UNCHANGED serverVars /\ AtMostOne(info)' /\ AtMostOne(check)'
    BY <1>5, <1>t DEF ServeRefresh, AnswerMove, AnswerFiles, AnswerRefused, Refreshed, AtMostOne
  <2> QED BY <2>1, <2>2, <2>3, <1>t, <1>s, <1>k, <1>v DEF PanelTypes
<1>6. CASE AnswerSync
  <2>1. OtherCalls("sync") /\ doing'["sync"].stage # "sent" /\ "sync" \in PanelCalls
    BY <1>6, <1>t DEF AnswerSync, Refreshing, OtherCalls, Free, PanelCalls
  <2>2. ReadsGoOn' /\ DOMAIN reading' = PanelReads
    BY <1>6, <1>t DEF AnswerSync, ReadAgain, ReadsGoOn, PanelReads
  <2>3. hurried' = hurried /\ UNCHANGED serverVars /\ AtMostOne(info)' /\ AtMostOne(check)'
    BY <1>6 DEF AnswerSync, ReadAgain, AtMostOne
  <2> QED BY <2>1, <2>2, <2>3, <1>t, <1>s, <1>k, <1>v DEF PanelTypes
<1>7. CASE AnswerCheck
  <2>1. OtherCalls("check") /\ doing'["check"].stage # "sent" /\ "check" \in PanelCalls
    BY <1>7, <1>t DEF AnswerCheck, OtherCalls, Free, PanelCalls
  <2>2. hurried' = hurried /\ UNCHANGED <<info, reading>> /\ UNCHANGED serverVars /\ AtMostOne(check)'
    BY <1>7 DEF AnswerCheck, AtMostOne
  <2> QED BY <2>1, <2>2, <1>t, <1>s, <1>k, <1>r, <1>v DEF PanelTypes
<1>8. CASE InfoLands \/ ListLands \/ DiffLands
  <2>1. ReadsGoOn' /\ DOMAIN reading' = PanelReads
    BY <1>8, <1>t DEF InfoLands, ListLands, DiffLands, ReadsGoOn, PanelReads
  <2>2. UNCHANGED <<hurried, check, doing>> /\ UNCHANGED serverVars
    BY <1>8 DEF InfoLands, ListLands, DiffLands
  <2>3. AtMostOne(info)'
    BY <1>8, <1>t DEF InfoLands, ListLands, DiffLands, AtMostOne
  <2> QED BY <2>1, <2>2, <2>3, <1>t, <1>s, <1>d, <1>v DEF PanelTypes
<1>9. CASE HappensElsewhere
  <2>1. LinesHold' /\ UNCHANGED <<hurried, behindSketch, info, check, doing>> /\ UNCHANGED reading
    BY <1>9 DEF HappensElsewhere
  <2> QED BY <2>1, <1>t, <1>r, <1>d, <1>v DEF PanelTypes
<1>10. CASE UNCHANGED panelVars
  <2>1. UNCHANGED <<hurried, info, check, doing>> /\ UNCHANGED serverVars /\ UNCHANGED reading
    BY <1>10 DEF panelVars, serverVars
  <2> QED BY <2>1, <1>t, <1>r, <1>s, <1>d, <1>v DEF PanelTypes
<1>11. PanelSteps
  BY EveryPanelStep
<1> QED BY <1>1, <1>2, <1>3, <1>4, <1>5, <1>6, <1>7, <1>8, <1>9, <1>10, <1>11 DEF PanelSteps

(* What is known of the author's commit, and what is about to be, is so,     *)
(* unless something moved and was not answered.                              *)
InfoInv ==
    /\ info # {} /\ ~MovedUnanswered => info = {InfoNow}
    /\ reading["info"].stage = "answered" /\ ~MovedUnanswered => reading["info"].says = InfoNow

(* The list of branches is read while the menu is open, and is of the branch *)
(* the author is on until a call about branches is answered, which closes it.*)
MenuInv ==
    /\ reading["list"] # NoRead => menu.open
    /\ menu.open => reading["list"] # NoRead \/ menu.list # {}
    /\ doing["branch"].stage # "answered" =>
          /\ menu.open => \A l \in menu.list : l.current = onBranch
          /\ reading["list"].stage = "answered" => reading["list"].says.current = onBranch

(* What a call may have changed of the bundle since it was drawn.            *)
Changes(k) ==
    \/ doing[k].stage \in {"refresh", "refreshed"}
    \/ doing[k].stage = "answered" /\ k # "check" /\ (k = "sync" => doing[k].says)

AloneUnderWay == \A j, k \in UnderWay : j = k
BundleIsSo ==
    /\ (\A k \in PanelCalls : ~Changes(k)) => bundle = BundleNow
    /\ \A k \in PanelCalls : doing[k].stage = "refreshed" => doing[k].says = BundleNow
CheckIsSo ==
    /\ \A c \in check : MovedUnanswered \/ c.head = Here.head
    /\ doing["check"].stage = "answered" => doing["check"].says.head = Here.head
CommitIsSo ==
    doing["commit"].stage = "sent" =>
        IF doing["commit"].what = "review" THEN Here.pending \subseteq doing["commit"].arg
        ELSE Here.pending # {} /\ Here.clash = {} /\ ~behindSketch
ReviewIsSo ==
    review.open =>
        /\ UnderWay = {}
        /\ reading["diff"].stage = "answered" => reading["diff"].says = Here.pending
        /\ reading["diff"] = NoRead => review.files = {Here.pending}

(* For a patient author one call at a time is under way, and so nothing      *)
(* changes between what is shown and what is pressed.                        *)
PatientInv == ~hurried => AloneUnderWay /\ BundleIsSo /\ CheckIsSo /\ CommitIsSo /\ ReviewIsSo

LEMMA PanelInitInv == PanelInit => InfoInv /\ MenuInv /\ PatientInv
<1> SUFFICES ASSUME PanelInit PROVE InfoInv /\ MenuInv /\ PatientInv
  OBVIOUS
<1>1. \A k \in PanelCalls : doing[k] = Free
  BY DEF PanelInit
<1>2. {"commit", "sync", "check", "branch"} \subseteq PanelCalls /\ {"info", "list", "diff"} \subseteq PanelReads
  BY DEF PanelCalls, PanelReads
<1>3. reading["info"] = Wanted /\ reading["list"] = NoRead /\ reading["diff"] = NoRead
  BY <1>2 DEF PanelInit
<1>4. info = {} /\ check = {} /\ ~menu.open /\ ~review.open /\ bundle = BundleNow
  BY DEF PanelInit
<1>5. InfoInv
  BY <1>3, <1>4 DEF InfoInv, Wanted
<1>6. MenuInv
  BY <1>3, <1>4 DEF MenuInv, NoRead
<1>7. UnderWay = {}
  BY <1>1 DEF UnderWay
<1>8. PatientInv
  BY <1>1, <1>2, <1>4, <1>7 DEF PatientInv, AloneUnderWay, BundleIsSo, CheckIsSo, CommitIsSo, ReviewIsSo, Free
<1> QED BY <1>5, <1>6, <1>8

Movers == {"commit", "sync", "branch"}

LEMMA InfoStep == PanelTypes /\ InfoInv /\ [PanelNext]_panelVars => InfoInv'
<1> SUFFICES ASSUME PanelTypes, InfoInv, [PanelNext]_panelVars PROVE InfoInv'
  OBVIOUS
<1>t. /\ LinesHold /\ DOMAIN doing = PanelCalls /\ DOMAIN reading = PanelReads
      /\ {"commit", "sync", "branch"} \subseteq PanelCalls /\ {"info", "list", "diff"} \subseteq PanelReads
  BY DEF PanelTypes, CallsAreAbout, PanelCalls, PanelReads
<1>m. MovedUnanswered <=> \E k \in Movers : doing[k].stage = "answered"
  BY DEF MovedUnanswered, Movers
<1>n. MovedUnanswered' <=> \E k \in Movers : doing'[k].stage = "answered"
  BY DEF MovedUnanswered, Movers
(* Nothing that counts is touched.                                           *)
<1>u. ASSUME UNCHANGED info, InfoNow' = InfoNow, MovedUnanswered => MovedUnanswered',
             reading'["info"] = reading["info"] \/ reading'["info"] = NoRead \/ reading'["info"] = Wanted
      PROVE  InfoInv'
  BY <1>u DEF InfoInv, NoRead, Wanted
<1>e. ASSUME info' = {}, reading'["info"] = Wanted PROVE InfoInv'
  BY <1>e DEF InfoInv, Wanted
<1>s. ASSUME UNCHANGED serverVars PROVE InfoNow' = InfoNow
  BY <1>s, <1>t, ServerLeftAlone
<1>o. ASSUME NEW k \in PanelCalls, OtherCalls(k), doing[k].stage # "answered" PROVE MovedUnanswered => MovedUnanswered'
  BY <1>o, <1>m, <1>n, <1>t DEF OtherCalls, Movers
<1>1. CASE Review \/ CloseReview \/ ToggleMenu
  <2>1. reading'["info"] = reading["info"]
    BY <1>1, <1>t DEF Review, CloseReview, ToggleMenu
  <2>2. UNCHANGED <<info, doing>> /\ UNCHANGED serverVars
    BY <1>1 DEF Review, CloseReview, ToggleMenu
  <2> QED BY <2>1, <2>2, <1>s, <1>u DEF MovedUnanswered
<1>2. ASSUME NEW k \in PanelCalls, Pushes(k) PROVE InfoInv'
  <2>1. reading'["info"] = reading["info"]
    BY <1>2, <1>t DEF Pushes
  <2>2. UNCHANGED info /\ UNCHANGED serverVars /\ OtherCalls(k) /\ doing[k].stage # "answered"
    BY <1>2 DEF Pushes, Free
  <2> QED BY <2>1, <2>2, <1>o, <1>s, <1>u
<1>3. ASSUME NEW k \in PanelCalls, ServingHolds(k) PROVE InfoInv'
  <2>1. UNCHANGED <<info, reading>> /\ OtherCalls(k) /\ doing[k].stage # "answered"
    BY <1>3 DEF ServingHolds, Serves
  <2>2. CASE k \in Movers /\ doing'[k].stage = "answered"
    BY <2>2, <1>n DEF InfoInv
  <2>3. CASE ~(k \in Movers /\ doing'[k].stage = "answered")
    <3>1. InfoNow' = InfoNow
      <4>1. CASE k \notin Movers
        BY <1>3, <4>1 DEF ServingHolds, Serves, Movers
      <4>2. CASE doing'[k].stage = "refused"
        BY <1>3, <4>2, <1>s DEF ServingHolds, Serves
      <4> QED BY <1>3, <2>3, <4>1, <4>2 DEF ServingHolds, Serves
    <3> QED BY <2>1, <3>1, <1>o, <1>u
  <2> QED BY <2>2, <2>3
<1>4. ASSUME NEW r \in PanelReads, ServeRead(r) PROVE InfoInv'
  <2>1. UNCHANGED <<info, doing>> /\ UNCHANGED serverVars
    BY <1>4 DEF ServeRead
  <2>2. CASE r = "info"
    <3>1. reading'["info"].says = InfoNow
      BY <1>4, <2>2, <1>t DEF ServeRead
    <3>2. InfoNow' = InfoNow
      BY <2>1, <1>s
    <3> QED BY <2>1, <3>1, <3>2 DEF InfoInv, MovedUnanswered
  <2>3. CASE r # "info"
    <3>1. reading'["info"] = reading["info"]
      BY <1>4, <2>3, <1>t DEF ServeRead
    <3> QED BY <2>1, <3>1, <1>s, <1>u DEF MovedUnanswered
  <2> QED BY <2>2, <2>3
<1>5. ASSUME NEW k \in PanelCalls, ServeRefresh(k) \/ AnswerFiles(k) \/ AnswerRefused(k) \/ Refreshed(k) PROVE InfoInv'
  <2>1. OtherCalls(k) /\ UNCHANGED <<info, reading>> /\ UNCHANGED serverVars
    BY <1>5, <1>t DEF ServeRefresh, AnswerFiles, AnswerRefused, Refreshed, Refreshing, OtherCalls
  <2>2. MovedUnanswered => MovedUnanswered'
    <3>1. CASE doing[k].stage # "answered"
      BY <3>1, <2>1, <1>o
    <3>2. CASE doing[k].stage = "answered"
      <4>1. k \notin Movers
        BY <1>5, <3>2 DEF ServeRefresh, AnswerFiles, AnswerRefused, Refreshed, Movers
      <4> QED BY <4>1, <2>1, <1>m, <1>n, <1>t DEF OtherCalls, Movers
    <3> QED BY <3>1, <3>2
  <2> QED BY <2>1, <2>2, <1>s, <1>u
<1>6. ASSUME NEW k \in PanelCalls, AnswerMove(k) PROVE InfoInv'
  <2>1. info' = {} /\ reading'["info"] = Wanted
    BY <1>6, <1>t DEF AnswerMove
  <2> QED BY <2>1, <1>e
<1>7. CASE AnswerSync
  <2>1. info' = {} /\ reading'["info"] = Wanted
    BY <1>7, <1>t DEF AnswerSync, ReadAgain
  <2> QED BY <2>1, <1>e
<1>8. CASE AnswerCheck
  <2>1. UNCHANGED <<info, reading>> /\ UNCHANGED serverVars
    BY <1>8 DEF AnswerCheck
  <2>2. MovedUnanswered => MovedUnanswered'
    BY <1>8, <1>m, <1>n, <1>t DEF AnswerCheck, Movers
  <2> QED BY <2>1, <2>2, <1>s, <1>u
<1>9. CASE InfoLands
  <2>1. info' = {reading["info"].says} /\ reading["info"].stage = "answered" /\ UNCHANGED doing /\ UNCHANGED serverVars
    BY <1>9 DEF InfoLands
  <2>2. reading'["info"] = NoRead
    BY <1>9, <1>t DEF InfoLands
  <2>3. InfoNow' = InfoNow
    BY <2>1, <1>s
  <2> QED BY <2>1, <2>2, <2>3 DEF InfoInv, MovedUnanswered, NoRead
<1>10. CASE ListLands \/ DiffLands
  <2>1. reading'["info"] = reading["info"]
    BY <1>10, <1>t DEF ListLands, DiffLands
  <2>2. UNCHANGED <<info, doing>> /\ UNCHANGED serverVars
    BY <1>10 DEF ListLands, DiffLands
  <2> QED BY <2>1, <2>2, <1>s, <1>u DEF MovedUnanswered
<1>11. CASE HappensElsewhere
  BY <1>11, <1>u DEF HappensElsewhere, MovedUnanswered
<1>12. CASE UNCHANGED panelVars
  <2>1. UNCHANGED <<info, doing, reading>> /\ UNCHANGED serverVars
    BY <1>12 DEF panelVars, serverVars
  <2> QED BY <2>1, <1>s, <1>u DEF MovedUnanswered
<1>13. PanelSteps
  BY EveryPanelStep
<1> QED
  BY <1>1, <1>2, <1>3, <1>4, <1>5, <1>6, <1>7, <1>8, <1>9, <1>10, <1>11, <1>12, <1>13 DEF PanelSteps

LEMMA MenuStep == PanelTypes /\ MenuInv /\ [PanelNext]_panelVars => MenuInv'
<1> SUFFICES ASSUME PanelTypes, MenuInv, [PanelNext]_panelVars PROVE MenuInv'
  OBVIOUS
<1>t. /\ LinesHold /\ DOMAIN doing = PanelCalls /\ DOMAIN reading = PanelReads
      /\ "branch" \in PanelCalls /\ {"info", "list", "diff"} \subseteq PanelReads
      /\ DOMAIN menu = {"open", "list"}
  BY DEF PanelTypes, CallsAreAbout, MenuAndReview, PanelCalls, PanelReads
<1>u. ASSUME UNCHANGED menu, reading'["list"] = reading["list"],
             doing["branch"].stage = "answered" => doing'["branch"].stage = "answered",
             onBranch' = onBranch \/ doing'["branch"].stage = "answered"
      PROVE  MenuInv'
  BY <1>u DEF MenuInv
<1>o. ASSUME NEW k \in PanelCalls, OtherCalls(k), k = "branch" => doing[k].stage # "answered"
      PROVE  doing["branch"].stage = "answered" => doing'["branch"].stage = "answered"
  BY <1>o, <1>t DEF OtherCalls
<1>b. UNCHANGED serverVars => onBranch' = onBranch
  BY DEF serverVars
<1>1. CASE Review \/ CloseReview
  <2>1. reading'["list"] = reading["list"]
    BY <1>1, <1>t DEF Review, CloseReview
  <2>2. UNCHANGED <<menu, doing>> /\ UNCHANGED serverVars
    BY <1>1 DEF Review, CloseReview
  <2> QED BY <2>1, <2>2, <1>b, <1>u
<1>2. CASE ToggleMenu
  <2>1. UNCHANGED doing /\ onBranch' = onBranch
    BY <1>2, <1>b DEF ToggleMenu
  <2>2. CASE menu.open
    <3>1. menu' = [menu EXCEPT !.open = FALSE]
      BY <1>2, <2>2 DEF ToggleMenu
    <3>2. reading'["list"] = NoRead
      BY <1>2, <2>2, <1>t DEF ToggleMenu
    <3>3. ~menu'.open
      BY <3>1, <1>t
    <3> QED BY <3>2, <3>3 DEF MenuInv, NoRead
  <2>3. CASE ~menu.open
    <3>1. menu' = [open |-> TRUE, list |-> {}]
      BY <1>2, <2>3 DEF ToggleMenu
    <3>2. reading'["list"] = Wanted
      BY <1>2, <2>3, <1>t DEF ToggleMenu
    <3> QED BY <3>1, <3>2 DEF MenuInv, NoRead, Wanted
  <2> QED BY <2>2, <2>3
<1>3. ASSUME NEW k \in PanelCalls, Pushes(k) PROVE MenuInv'
  <2>1. reading'["list"] = reading["list"]
    BY <1>3, <1>t DEF Pushes
  <2>2. UNCHANGED menu /\ UNCHANGED serverVars /\ OtherCalls(k) /\ doing[k].stage # "answered"
    BY <1>3 DEF Pushes, Free
  <2> QED BY <2>1, <2>2, <1>b, <1>o, <1>u
<1>4. ASSUME NEW k \in PanelCalls, ServingHolds(k) PROVE MenuInv'
  <2>1. UNCHANGED <<menu, reading>> /\ OtherCalls(k) /\ doing[k].stage # "answered"
    BY <1>4 DEF ServingHolds, Serves
  <2>2. onBranch' = onBranch \/ doing'["branch"].stage = "answered"
    BY <1>4, <1>b DEF ServingHolds, Serves
  <2> QED BY <2>1, <2>2, <1>o, <1>u
<1>5. ASSUME NEW r \in PanelReads, ServeRead(r) PROVE MenuInv'
  <2>1. UNCHANGED <<menu, doing>> /\ onBranch' = onBranch
    BY <1>5, <1>b DEF ServeRead
  <2>2. CASE r = "list"
    <3>1. reading["list"] # NoRead
      BY <1>5, <2>2 DEF ServeRead, NoRead
    <3>2. reading'["list"] = [stage |-> "answered", says |-> ListNow]
      BY <1>5, <2>2, <1>t DEF ServeRead
    <3>3. ListNow.current = onBranch
      BY DEF ListNow
    <3>4. reading'["list"].says.current = onBranch /\ reading'["list"] # NoRead
      BY <3>2, <3>3 DEF NoRead
    <3> QED BY <2>1, <3>1, <3>4 DEF MenuInv
  <2>3. CASE r # "list"
    <3>1. reading'["list"] = reading["list"]
      BY <1>5, <2>3, <1>t DEF ServeRead
    <3> QED BY <2>1, <3>1, <1>u
  <2> QED BY <2>2, <2>3
<1>6. ASSUME NEW k \in PanelCalls, ServeRefresh(k) \/ AnswerFiles(k) \/ AnswerRefused(k) \/ Refreshed(k) PROVE MenuInv'
  <2>1. OtherCalls(k) /\ UNCHANGED <<menu, reading>> /\ UNCHANGED serverVars
    BY <1>6, <1>t DEF ServeRefresh, AnswerFiles, AnswerRefused, Refreshed, Refreshing, OtherCalls
  <2>2. k = "branch" => doing[k].stage # "answered"
    BY <1>6 DEF ServeRefresh, AnswerFiles, AnswerRefused, Refreshed
  <2> QED BY <2>1, <2>2, <1>b, <1>o, <1>u
<1>7. ASSUME NEW k \in PanelCalls, AnswerMove(k) PROVE MenuInv'
  <2>1. CASE k = "branch"
    <3>1. menu' = [menu EXCEPT !.open = FALSE] /\ onBranch' = onBranch
      BY <1>7, <2>1, <1>b DEF AnswerMove
    <3>2. reading'["list"] = NoRead
      BY <1>7, <2>1, <1>t DEF AnswerMove
    <3>3. ~menu'.open
      BY <3>1, <1>t
    <3> QED BY <3>1, <3>2, <3>3 DEF MenuInv, NoRead
  <2>2. CASE k # "branch"
    <3>1. UNCHANGED menu /\ onBranch' = onBranch
      BY <1>7, <2>2, <1>b DEF AnswerMove
    <3>2. reading'["list"] = reading["list"] /\ OtherCalls(k)
      BY <1>7, <2>2, <1>t DEF AnswerMove, Refreshing, OtherCalls
    <3> QED BY <3>1, <3>2, <2>2, <1>o, <1>u
  <2> QED BY <2>1, <2>2
<1>8. CASE AnswerSync \/ AnswerCheck
  <2>1. reading'["list"] = reading["list"] /\ doing'["branch"] = doing["branch"]
    BY <1>8, <1>t DEF AnswerSync, AnswerCheck, ReadAgain, Refreshing
  <2>2. UNCHANGED menu /\ UNCHANGED serverVars
    BY <1>8 DEF AnswerSync, AnswerCheck
  <2> QED BY <2>1, <2>2, <1>b, <1>u
<1>9. CASE InfoLands \/ DiffLands
  <2>1. reading'["list"] = reading["list"]
    BY <1>9, <1>t DEF InfoLands, DiffLands
  <2>2. UNCHANGED <<menu, doing>> /\ UNCHANGED serverVars
    BY <1>9 DEF InfoLands, DiffLands
  <2> QED BY <2>1, <2>2, <1>b, <1>u
<1>10. CASE ListLands
  <2>1. UNCHANGED doing /\ onBranch' = onBranch /\ reading["list"].stage = "answered"
        /\ menu' = [menu EXCEPT !.list = {reading["list"].says}]
    BY <1>10, <1>b DEF ListLands
  <2>2. reading'["list"] = NoRead
    BY <1>10, <1>t DEF ListLands
  <2>3. menu'.open = menu.open /\ menu'.list = {reading["list"].says}
    BY <2>1, <1>t
  <2> QED BY <2>1, <2>2, <2>3 DEF MenuInv, NoRead
<1>11. CASE HappensElsewhere
  BY <1>11, <1>u DEF HappensElsewhere
<1>12. CASE UNCHANGED panelVars
  BY <1>12, <1>u DEF panelVars
<1>13. PanelSteps
  BY EveryPanelStep
<1> QED
  BY <1>1, <1>2, <1>3, <1>4, <1>5, <1>6, <1>7, <1>8, <1>9, <1>10, <1>11, <1>12, <1>13 DEF PanelSteps

(* With one call under way, the others are free.                             *)
LEMMA TheOthersAreFree ==
  ASSUME AloneUnderWay, NEW k \in PanelCalls, doing[k].stage # "none"
  PROVE  \A j \in PanelCalls \ {k} : doing[j] = Free /\ doing[j].stage = "none"
<1>1. k \in UnderWay
  BY DEF UnderWay, Free
<1> QED BY <1>1 DEF AloneUnderWay, UnderWay, Free

(* A step of one call: it was under way, and the others stay as they were.   *)
OfCall(k) == k \in PanelCalls /\ doing[k].stage # "none" /\ OtherCalls(k)
NothingCalled == UNCHANGED <<doing>>

LEMMA WhoseStepItIs ==
  ASSUME PanelTypes, PanelSteps
  PROVE  /\ hurried' = hurried
         /\ NothingCalled \/ \E k \in PanelCalls : Pushes(k) \/ OfCall(k)
<1>t. DOMAIN doing = PanelCalls /\ "sync" \in PanelCalls /\ "check" \in PanelCalls
  BY DEF PanelTypes, CallsAreAbout, PanelCalls
<1>1. CASE Review \/ CloseReview \/ ToggleMenu \/ InfoLands \/ ListLands \/ DiffLands \/ HappensElsewhere
  BY <1>1 DEF Review, CloseReview, ToggleMenu, InfoLands, ListLands, DiffLands, HappensElsewhere, NothingCalled
<1>2. CASE UNCHANGED panelVars
  BY <1>2 DEF panelVars, NothingCalled
<1>3. ASSUME NEW k \in PanelCalls, Pushes(k) PROVE hurried' = hurried
  BY <1>3 DEF Pushes
<1>4. ASSUME NEW k \in PanelCalls, ServingHolds(k) PROVE hurried' = hurried /\ OfCall(k)
  BY <1>4 DEF ServingHolds, Serves, OfCall
<1>5. CASE \E r \in PanelReads : ServeRead(r)
  BY <1>5 DEF ServeRead, NothingCalled
<1>6. ASSUME NEW k \in PanelCalls, ServeRefresh(k) \/ AnswerMove(k) \/ AnswerFiles(k) \/ AnswerRefused(k) \/ Refreshed(k)
      PROVE  hurried' = hurried /\ OfCall(k)
  BY <1>6, <1>t DEF ServeRefresh, AnswerMove, AnswerFiles, AnswerRefused, Refreshed, Refreshing, OtherCalls, OfCall
<1>7. CASE AnswerSync
  <2>1. hurried' = hurried /\ OfCall("sync")
    BY <1>7, <1>t DEF AnswerSync, Refreshing, OtherCalls, OfCall
  <2> QED BY <2>1, <1>t
<1>8. CASE AnswerCheck
  <2>1. hurried' = hurried /\ OfCall("check")
    BY <1>8, <1>t DEF AnswerCheck, OtherCalls, OfCall
  <2> QED BY <2>1, <1>t
<1> QED BY <1>1, <1>2, <1>3, <1>4, <1>5, <1>6, <1>7, <1>8 DEF PanelSteps

LEMMA AloneStep ==
  ASSUME PanelTypes, PanelSteps, ~hurried, AloneUnderWay
  PROVE  AloneUnderWay'
<1>1. CASE NothingCalled
  BY <1>1 DEF NothingCalled, AloneUnderWay, UnderWay
<1>2. ASSUME NEW k \in PanelCalls, Pushes(k) PROVE AloneUnderWay'
  <2>1. \A j \in PanelCalls \ {k} : doing'[j] = Free
    BY <1>2 DEF Pushes, OtherCalls, UnderWay
  <2> QED BY <2>1 DEF AloneUnderWay, UnderWay
<1>3. ASSUME NEW k \in PanelCalls, OfCall(k) PROVE AloneUnderWay'
  <2>1. \A j \in PanelCalls \ {k} : doing'[j] = Free
    BY <1>3, TheOthersAreFree DEF OfCall, OtherCalls
  <2> QED BY <2>1 DEF AloneUnderWay, UnderWay
<1> QED BY <1>1, <1>2, <1>3, WhoseStepItIs

LEMMA BundleStep ==
  ASSUME PanelTypes, PanelSteps, ~hurried, AloneUnderWay, BundleIsSo
  PROVE  BundleIsSo'
<1>t. LinesHold /\ DOMAIN doing = PanelCalls /\ "sync" \in PanelCalls /\ "check" \in PanelCalls
  BY DEF PanelTypes, CallsAreAbout, PanelCalls
<1>s. UNCHANGED serverVars => BundleNow' = BundleNow
  BY <1>t, ServerLeftAlone
<1>u. ASSUME UNCHANGED <<doing, bundle>>, BundleNow' = BundleNow PROVE BundleIsSo'
  BY <1>u DEF BundleIsSo, Changes
(* What is drawn is so, if a call under way has changed nothing.             *)
<1>b. ASSUME NEW k \in PanelCalls, doing[k].stage # "none", ~Changes(k) PROVE bundle = BundleNow
  <2>1. \A j \in PanelCalls \ {k} : doing[j].stage = "none"
    BY <1>b, TheOthersAreFree
  <2> QED BY <1>b, <2>1 DEF BundleIsSo, Changes
(* ...and stays so, if the call has refreshed nothing.                       *)
<1>o. ASSUME NEW k \in PanelCalls, OfCall(k), doing'[k].stage = "refreshed" => doing'[k].says = BundleNow',
             Changes(k)' \/ bundle' = BundleNow'
      PROVE  BundleIsSo'
  <2>1. \A j \in PanelCalls \ {k} : doing'[j].stage = "none"
    BY <1>o, TheOthersAreFree DEF OfCall, OtherCalls
  <2> QED BY <1>o, <2>1 DEF BundleIsSo
<1>1. CASE Review \/ CloseReview \/ ToggleMenu \/ InfoLands \/ ListLands \/ DiffLands
  BY <1>1, <1>s, <1>u DEF Review, CloseReview, ToggleMenu, InfoLands, ListLands, DiffLands
<1>2. CASE HappensElsewhere
  BY <1>2, <1>u DEF HappensElsewhere
<1>3. CASE UNCHANGED panelVars
  BY <1>3, <1>s, <1>u DEF panelVars, serverVars
<1>4. CASE \E r \in PanelReads : ServeRead(r)
  BY <1>4, <1>s, <1>u DEF ServeRead
<1>5. ASSUME NEW k \in PanelCalls, Pushes(k) PROVE BundleIsSo'
  <2>1. \A j \in PanelCalls : doing[j].stage = "none"
    BY <1>5 DEF Pushes, UnderWay, Free
  <2>2. bundle = BundleNow
    BY <2>1 DEF BundleIsSo, Changes
  <2>3. bundle' = bundle /\ BundleNow' = BundleNow
    BY <1>5, <1>s DEF Pushes
  <2>4. \A j \in PanelCalls : doing'[j].stage # "refreshed"
    BY <1>5, <2>1 DEF Pushes, OtherCalls
  <2> QED BY <2>2, <2>3, <2>4 DEF BundleIsSo
<1>6. ASSUME NEW k \in PanelCalls, ServingHolds(k) PROVE BundleIsSo'
  <2>1. OfCall(k) /\ doing[k].stage = "sent" /\ bundle' = bundle /\ doing'[k].stage \in {"answered", "refused"}
    BY <1>6 DEF ServingHolds, Serves, OfCall
  <2>2. bundle = BundleNow
    BY <2>1, <1>b DEF Changes
  <2>3. Changes(k)' \/ BundleNow' = BundleNow
    <3>1. CASE doing'[k].stage = "refused"
      BY <1>6, <3>1, <1>s DEF ServingHolds, Serves
    <3>2. CASE doing'[k].stage = "answered"
      BY <1>6, <3>2 DEF ServingHolds, Serves, Changes
    <3> QED BY <2>1, <3>1, <3>2
  <2> QED BY <2>1, <2>2, <2>3, <1>o
<1>7. ASSUME NEW k \in PanelCalls, ServeRefresh(k) PROVE BundleIsSo'
  <2>1. OfCall(k) /\ doing'[k].stage = "refreshed" /\ doing'[k].says = BundleNow
    BY <1>7, <1>t DEF ServeRefresh, OfCall, OtherCalls
  <2>2. BundleNow' = BundleNow
    BY <1>7, <1>s DEF ServeRefresh
  <2> QED BY <2>1, <2>2, <1>o DEF Changes
<1>8. ASSUME NEW k \in PanelCalls, AnswerMove(k) \/ AnswerFiles(k) PROVE BundleIsSo'
  <2>1. OfCall(k) /\ doing'[k].stage = "refresh"
    BY <1>8, <1>t DEF AnswerMove, AnswerFiles, Refreshing, OfCall, OtherCalls
  <2> QED BY <2>1, <1>o DEF Changes
<1>9. ASSUME NEW k \in PanelCalls, AnswerRefused(k) PROVE BundleIsSo'
  <2>1. OfCall(k) /\ doing[k].stage = "refused" /\ doing'[k].stage = "none" /\ bundle' = bundle
    BY <1>9, <1>t DEF AnswerRefused, OfCall, OtherCalls, Free
  <2>2. bundle = BundleNow /\ BundleNow' = BundleNow
    BY <1>9, <2>1, <1>b, <1>s DEF Changes, AnswerRefused
  <2> QED BY <2>1, <2>2, <1>o
<1>10. ASSUME NEW k \in PanelCalls, Refreshed(k) PROVE BundleIsSo'
  <2>1. OfCall(k) /\ doing'[k].stage = "none" /\ bundle' = doing[k].says /\ doing[k].stage = "refreshed"
    BY <1>10, <1>t DEF Refreshed, OfCall, OtherCalls, Free
  <2>2. BundleNow' = BundleNow
    BY <1>10, <1>s DEF Refreshed
  <2>3. doing[k].says = BundleNow
    BY <2>1 DEF BundleIsSo
  <2> QED BY <2>1, <2>2, <2>3, <1>o
<1>11. CASE AnswerSync
  <2>1. OfCall("sync") /\ doing["sync"].stage = "answered" /\ bundle' = bundle
    BY <1>11, <1>t DEF AnswerSync, Refreshing, OfCall, OtherCalls
  <2>2. BundleNow' = BundleNow
    BY <1>11, <1>s DEF AnswerSync
  <2>3. CASE doing["sync"].says
    <3>1. doing'["sync"].stage = "refresh"
      BY <1>11, <2>3, <1>t DEF AnswerSync, Refreshing
    <3> QED BY <2>1, <3>1, <1>t, <1>o DEF Changes
  <2>4. CASE ~doing["sync"].says
    <3>1. doing'["sync"].stage = "none"
      BY <1>11, <2>4, <1>t DEF AnswerSync, Free
    <3>2. ~Changes("sync")
      BY <2>1, <2>4 DEF Changes
    <3>3. bundle = BundleNow
      BY <2>1, <3>2, <1>t, <1>b
    <3> QED BY <2>1, <2>2, <3>1, <3>3, <1>t, <1>o
  <2> QED BY <2>3, <2>4
<1>12. CASE AnswerCheck
  <2>1. OfCall("check") /\ doing["check"].stage = "answered" /\ bundle' = bundle /\ doing'["check"].stage = "none"
    BY <1>12, <1>t DEF AnswerCheck, OfCall, OtherCalls, Free
  <2>2. ~Changes("check")
    BY <2>1 DEF Changes
  <2>3. bundle = BundleNow /\ BundleNow' = BundleNow
    BY <1>12, <2>1, <2>2, <1>t, <1>b, <1>s DEF AnswerCheck
  <2> QED BY <2>1, <2>3, <1>t, <1>o
<1> QED
  BY <1>1, <1>2, <1>3, <1>4, <1>5, <1>6, <1>7, <1>8, <1>9, <1>10, <1>11, <1>12 DEF PanelSteps

LEMMA CheckStep ==
  ASSUME PanelTypes, PanelSteps, ~hurried, AloneUnderWay, CheckIsSo
  PROVE  CheckIsSo'
<1>t. LinesHold /\ DOMAIN doing = PanelCalls /\ "check" \in PanelCalls /\ Movers \subseteq PanelCalls
      /\ "sync" \in PanelCalls /\ "check" \notin Movers
  BY DEF PanelTypes, CallsAreAbout, PanelCalls, Movers
<1>m. MovedUnanswered <=> \E k \in Movers : doing[k].stage = "answered"
  BY DEF MovedUnanswered, Movers
<1>n. MovedUnanswered' <=> \E k \in Movers : doing'[k].stage = "answered"
  BY DEF MovedUnanswered, Movers
<1>s. UNCHANGED serverVars => Here' = Here
  BY <1>t, ServerLeftAlone
<1>u. ASSUME UNCHANGED <<doing, check>>, Here'.head = Here.head PROVE CheckIsSo'
  BY <1>u, <1>m, <1>n DEF CheckIsSo
(* A call that has not moved anything: what was found is of the commit.      *)
<1>c. ASSUME NEW k \in PanelCalls, doing[k].stage # "none", k \in Movers => doing[k].stage # "answered"
      PROVE  \A c \in check : c.head = Here.head
  <2>1. \A j \in PanelCalls \ {k} : doing[j].stage = "none"
    BY <1>c, TheOthersAreFree
  <2>2. ~MovedUnanswered
    BY <1>c, <2>1, <1>m, <1>t
  <2> QED BY <2>2 DEF CheckIsSo
<1>o. ASSUME NEW k \in PanelCalls, OfCall(k), k # "check"
      PROVE  doing'["check"].stage = "none"
  BY <1>o, <1>t, TheOthersAreFree DEF OfCall, OtherCalls
<1>1. CASE Review \/ CloseReview \/ ToggleMenu \/ InfoLands \/ ListLands \/ DiffLands
  BY <1>1, <1>s, <1>u DEF Review, CloseReview, ToggleMenu, InfoLands, ListLands, DiffLands
<1>2. CASE HappensElsewhere
  BY <1>2, <1>u DEF HappensElsewhere
<1>3. CASE UNCHANGED panelVars
  BY <1>3, <1>s, <1>u DEF panelVars, serverVars
<1>4. CASE \E r \in PanelReads : ServeRead(r)
  BY <1>4, <1>s, <1>u DEF ServeRead
<1>5. ASSUME NEW k \in PanelCalls, Pushes(k) PROVE CheckIsSo'
  <2>1. \A j \in PanelCalls : doing[j].stage = "none"
    BY <1>5 DEF Pushes, UnderWay, Free
  <2>2. \A c \in check : c.head = Here.head
    BY <2>1, <1>m, <1>t DEF CheckIsSo
  <2>3. check' = check /\ Here' = Here
    BY <1>5, <1>s DEF Pushes
  <2>4. doing'["check"].stage # "answered"
    BY <1>5, <2>1, <1>t DEF Pushes, OtherCalls
  <2> QED BY <2>2, <2>3, <2>4 DEF CheckIsSo
<1>6. ASSUME NEW k \in PanelCalls, ServingHolds(k) PROVE CheckIsSo'
  <2>1. OfCall(k) /\ doing[k].stage = "sent" /\ check' = check /\ doing'[k].stage \in {"answered", "refused"}
    BY <1>6 DEF ServingHolds, Serves, OfCall
  <2>2. \A c \in check : c.head = Here.head
    BY <2>1, <1>c
  <2>3. MovedUnanswered' \/ Here'.head = Here.head
    <3>1. CASE k \in Movers /\ doing'[k].stage = "answered"
      BY <3>1, <1>n
    <3>2. CASE k \in Movers /\ doing'[k].stage = "refused"
      BY <1>6, <3>2, <1>s DEF ServingHolds, Serves
    <3>3. CASE k \notin Movers
      BY <1>6, <3>3 DEF ServingHolds, Serves, Movers, InfoNow
    <3> QED BY <2>1, <3>1, <3>2, <3>3
  <2>4. doing'["check"].stage = "answered" => doing'["check"].says.head = Here'.head
    <3>1. CASE k = "check"
      BY <1>6, <3>1 DEF ServingHolds, Serves, InfoNow
    <3>2. CASE k # "check"
      BY <3>2, <2>1, <1>o
    <3> QED BY <3>1, <3>2
  <2> QED BY <2>1, <2>2, <2>3, <2>4 DEF CheckIsSo
<1>7. ASSUME NEW k \in PanelCalls, ServeRefresh(k) \/ AnswerFiles(k) \/ AnswerRefused(k) \/ Refreshed(k) PROVE CheckIsSo'
  <2>1. OfCall(k) /\ doing'[k].stage # "answered" /\ check' = check
    BY <1>7, <1>t DEF ServeRefresh, AnswerFiles, AnswerRefused, Refreshed, Refreshing, Free, OfCall, OtherCalls
  <2>2. k \in Movers => doing[k].stage # "answered"
    BY <1>7 DEF ServeRefresh, AnswerFiles, AnswerRefused, Refreshed, Movers
  <2>3. \A c \in check : c.head = Here.head
    BY <2>1, <2>2, <1>c DEF OfCall
  <2>4. Here' = Here
    BY <1>7, <1>s DEF ServeRefresh, AnswerFiles, AnswerRefused, Refreshed
  <2>5. doing'["check"].stage # "answered"
    BY <2>1, <1>o
  <2> QED BY <2>1, <2>3, <2>4, <2>5 DEF CheckIsSo
<1>8. ASSUME NEW k \in PanelCalls, AnswerMove(k) PROVE CheckIsSo'
  <2>1. OfCall(k) /\ k # "check" /\ check' = {}
    BY <1>8, <1>t DEF AnswerMove, Refreshing, OfCall, OtherCalls
  <2> QED BY <2>1, <1>o DEF CheckIsSo
<1>9. CASE AnswerSync
  <2>1. OfCall("sync") /\ check' = {}
    BY <1>9, <1>t DEF AnswerSync, ReadAgain, Refreshing, OfCall, OtherCalls
  <2> QED BY <2>1, <1>t, <1>o DEF CheckIsSo
<1>10. CASE AnswerCheck
  <2>1. doing["check"].stage = "answered" /\ check' = {doing["check"].says} /\ doing'["check"].stage = "none"
    BY <1>10, <1>t DEF AnswerCheck, Free
  <2>2. Here' = Here
    BY <1>10, <1>s DEF AnswerCheck
  <2> QED BY <2>1, <2>2 DEF CheckIsSo
<1> QED BY <1>1, <1>2, <1>3, <1>4, <1>5, <1>6, <1>7, <1>8, <1>9, <1>10 DEF PanelSteps

LEMMA ReviewStep ==
  ASSUME PanelTypes, PanelSteps, ~hurried, AloneUnderWay, ReviewIsSo
  PROVE  ReviewIsSo'
<1>t. LinesHold /\ DOMAIN doing = PanelCalls /\ DOMAIN reading = PanelReads /\ "diff" \in PanelReads
      /\ DOMAIN review = {"open", "files"} /\ "sync" \in PanelCalls /\ "check" \in PanelCalls
  BY DEF PanelTypes, CallsAreAbout, MenuAndReview, PanelCalls, PanelReads
<1>s. UNCHANGED serverVars => Here' = Here
  BY <1>t, ServerLeftAlone
<1>u. ASSUME UNCHANGED <<doing, review>>, reading'["diff"] = reading["diff"], Here'.pending = Here.pending
      PROVE  ReviewIsSo'
  BY <1>u DEF ReviewIsSo, UnderWay
(* Nothing is under way while the review is open.                            *)
<1>o. ASSUME NEW k \in PanelCalls, doing[k].stage # "none", review' = review PROVE ReviewIsSo'
  <2>1. ~review.open
    BY <1>o DEF ReviewIsSo, UnderWay, Free
  <2> QED BY <1>o, <2>1 DEF ReviewIsSo
<1>1. CASE Review
  <2>1. UnderWay = {} /\ UNCHANGED doing
    BY <1>1 DEF Review
  <2>2. reading'["diff"] = Wanted
    BY <1>1, <1>t DEF Review
  <2> QED BY <2>1, <2>2 DEF ReviewIsSo, UnderWay, Wanted, NoRead
<1>2. CASE CloseReview
  BY <1>2 DEF CloseReview, ReviewIsSo
<1>3. CASE ToggleMenu
  BY <1>3 DEF ToggleMenu, ReviewIsSo
<1>4. CASE InfoLands \/ ListLands
  <2>1. reading'["diff"] = reading["diff"]
    BY <1>4, <1>t DEF InfoLands, ListLands
  <2>2. UNCHANGED <<doing, review>> /\ Here' = Here
    BY <1>4, <1>s DEF InfoLands, ListLands
  <2> QED BY <2>1, <2>2, <1>u
<1>5. CASE DiffLands
  <2>1. /\ reading["diff"].stage = "answered" /\ UNCHANGED doing /\ Here' = Here
        /\ review' = [review EXCEPT !.files = {reading["diff"].says}]
    BY <1>5, <1>s DEF DiffLands
  <2>2. reading'["diff"] = NoRead
    BY <1>5, <1>t DEF DiffLands
  <2>3. review'.open = review.open /\ review'.files = {reading["diff"].says}
    BY <2>1, <1>t
  <2> QED BY <2>1, <2>2, <2>3 DEF ReviewIsSo, UnderWay, NoRead
<1>6. CASE HappensElsewhere
  BY <1>6, <1>u DEF HappensElsewhere
<1>7. CASE UNCHANGED panelVars
  BY <1>7, <1>s, <1>u DEF panelVars, serverVars
<1>8. ASSUME NEW r \in PanelReads, ServeRead(r) PROVE ReviewIsSo'
  <2>1. UNCHANGED <<doing, review>> /\ Here' = Here
    BY <1>8, <1>s DEF ServeRead
  <2>2. CASE r = "diff"
    <3>1. reading'["diff"] = [stage |-> "answered", says |-> DiffNow]
      BY <1>8, <2>2, <1>t DEF ServeRead
    <3>2. reading'["diff"] # NoRead /\ reading'["diff"].says = Here.pending
      BY <3>1 DEF NoRead, DiffNow
    <3> QED BY <2>1, <3>2 DEF ReviewIsSo, UnderWay
  <2>3. CASE r # "diff"
    <3>1. reading'["diff"] = reading["diff"]
      BY <1>8, <2>3, <1>t DEF ServeRead
    <3> QED BY <2>1, <3>1, <1>u
  <2> QED BY <2>2, <2>3
<1>9. ASSUME NEW k \in PanelCalls, Pushes(k) PROVE ReviewIsSo'
  BY <1>9 DEF Pushes, ReviewIsSo
<1>10. ASSUME NEW k \in PanelCalls, ServingHolds(k) PROVE ReviewIsSo'
  BY <1>10, <1>o DEF ServingHolds, Serves
<1>11. ASSUME NEW k \in PanelCalls, ServeRefresh(k) \/ AnswerMove(k) \/ AnswerFiles(k) \/ AnswerRefused(k) \/ Refreshed(k)
       PROVE  ReviewIsSo'
  BY <1>11, <1>o DEF ServeRefresh, AnswerMove, AnswerFiles, AnswerRefused, Refreshed
<1>12. CASE AnswerSync
  BY <1>12, <1>t, <1>o DEF AnswerSync
<1>13. CASE AnswerCheck
  BY <1>13, <1>t, <1>o DEF AnswerCheck
<1> QED
  BY <1>1, <1>2, <1>3, <1>4, <1>5, <1>6, <1>7, <1>8, <1>9, <1>10, <1>11, <1>12, <1>13 DEF PanelSteps

LEMMA CommitStep ==
  ASSUME PanelTypes, PanelSteps, ~hurried, AloneUnderWay, BundleIsSo, ReviewIsSo, CommitIsSo
  PROVE  CommitIsSo'
<1>t. LinesHold /\ DOMAIN doing = PanelCalls /\ "commit" \in PanelCalls
      /\ "sync" \in PanelCalls /\ "check" \in PanelCalls
  BY DEF PanelTypes, CallsAreAbout, PanelCalls
<1>s. UNCHANGED serverVars => Here' = Here /\ behindSketch' = behindSketch
  BY <1>t, ServerLeftAlone
<1>u. ASSUME UNCHANGED <<doing, behindSketch>>, Here'.pending = Here.pending, Here'.clash = Here.clash
      PROVE  CommitIsSo'
  BY <1>u DEF CommitIsSo
(* The call whose step it is was not just sent, and the commit was not, or   *)
(* it is the commit.                                                         *)
<1>o. ASSUME NEW k \in PanelCalls, OfCall(k), doing'[k].stage # "sent" PROVE CommitIsSo'
  <2>1. \A j \in PanelCalls \ {k} : doing'[j].stage = "none"
    BY <1>o, TheOthersAreFree DEF OfCall, OtherCalls
  <2> QED BY <1>o, <2>1, <1>t DEF CommitIsSo
<1>1. CASE Review \/ CloseReview \/ ToggleMenu \/ InfoLands \/ ListLands \/ DiffLands
  BY <1>1, <1>s, <1>u DEF Review, CloseReview, ToggleMenu, InfoLands, ListLands, DiffLands
<1>2. CASE HappensElsewhere
  BY <1>2, <1>u DEF HappensElsewhere
<1>3. CASE UNCHANGED panelVars
  BY <1>3, <1>s, <1>u DEF panelVars, serverVars
<1>4. CASE \E r \in PanelReads : ServeRead(r)
  BY <1>4, <1>s, <1>u DEF ServeRead
<1>5. ASSUME NEW k \in PanelCalls, Pushes(k) PROVE CommitIsSo'
  <2>1. \A j \in PanelCalls : doing[j].stage = "none"
    BY <1>5 DEF Pushes, UnderWay, Free
  <2>2. Here' = Here /\ behindSketch' = behindSketch
    BY <1>5, <1>s DEF Pushes
  <2>3. CASE k # "commit"
    <3>1. doing'["commit"].stage = "none"
      BY <1>5, <2>1, <2>3, <1>t DEF Pushes, OtherCalls
    <3> QED BY <3>1 DEF CommitIsSo
  <2>4. CASE k = "commit" /\ ~Blocked /\ doing'[k].what = "panel"
    <3>1. bundle = BundleNow
      BY <2>1 DEF BundleIsSo, Changes
    <3>2. bundle.pending # {} /\ bundle.clash = {} /\ ~bundle.stale
      BY <2>4 DEF Blocked, Unapplied
    <3>3. Here.pending # {} /\ Here.clash = {} /\ ~behindSketch
      BY <3>1, <3>2 DEF BundleNow
    <3> QED BY <2>2, <2>4, <3>3 DEF CommitIsSo
  <2>5. CASE k = "commit" /\ review.open /\ doing'[k].what = "review" /\ doing'[k].arg = UNION review.files
    <3>1. reading["diff"] = NoRead
      BY <1>5 DEF Pushes, PanelReads
    <3>2. review.files = {Here.pending}
      BY <2>5, <3>1 DEF ReviewIsSo
    <3>3. Here.pending \subseteq doing'[k].arg
      BY <2>5, <3>2
    <3> QED BY <2>2, <2>5, <3>3 DEF CommitIsSo
  <2> QED BY <1>5, <2>3, <2>4, <2>5 DEF Pushes
<1>6. ASSUME NEW k \in PanelCalls, ServingHolds(k) PROVE CommitIsSo'
  BY <1>6, <1>o DEF ServingHolds, Serves, OfCall
<1>7. ASSUME NEW k \in PanelCalls, ServeRefresh(k) \/ AnswerMove(k) \/ AnswerFiles(k) \/ AnswerRefused(k) \/ Refreshed(k)
      PROVE  CommitIsSo'
  <2>1. OfCall(k) /\ doing'[k].stage # "sent"
    BY <1>7, <1>t
    DEF ServeRefresh, AnswerMove, AnswerFiles, AnswerRefused, Refreshed, Refreshing, Free, OfCall, OtherCalls
  <2> QED BY <2>1, <1>o
<1>8. CASE AnswerSync
  <2>1. OfCall("sync") /\ doing'["sync"].stage # "sent"
    BY <1>8, <1>t DEF AnswerSync, Refreshing, Free, OfCall, OtherCalls
  <2> QED BY <2>1, <1>t, <1>o
<1>9. CASE AnswerCheck
  <2>1. OfCall("check") /\ doing'["check"].stage # "sent"
    BY <1>9, <1>t DEF AnswerCheck, Free, OfCall, OtherCalls
  <2> QED BY <2>1, <1>t, <1>o
<1> QED BY <1>1, <1>2, <1>3, <1>4, <1>5, <1>6, <1>7, <1>8, <1>9 DEF PanelSteps

PanelInv == PanelTypes /\ InfoInv /\ MenuInv /\ PatientInv

LEMMA PanelStep == PanelInv /\ [PanelNext]_panelVars => PanelInv'
<1> SUFFICES ASSUME PanelInv, [PanelNext]_panelVars PROVE PanelInv'
  OBVIOUS
<1>1. PanelTypes' /\ InfoInv' /\ MenuInv'
  BY PanelTypeStep, InfoStep, MenuStep DEF PanelInv
<1>2. PanelTypes /\ PanelSteps
  BY EveryPanelStep DEF PanelInv
<1>3. hurried' = hurried
  BY <1>2, WhoseStepItIs
<1>4. ASSUME ~hurried
      PROVE  AloneUnderWay' /\ BundleIsSo' /\ CheckIsSo' /\ CommitIsSo' /\ ReviewIsSo'
  <2>1. AloneUnderWay /\ BundleIsSo /\ CheckIsSo /\ CommitIsSo /\ ReviewIsSo
    BY <1>4 DEF PanelInv, PatientInv
  <2> QED BY <1>2, <1>4, <2>1, AloneStep, BundleStep, CheckStep, CommitStep, ReviewStep
<1>5. PatientInv'
  BY <1>3, <1>4 DEF PatientInv
<1> QED BY <1>1, <1>5 DEF PanelInv

LEMMA PanelAlways == PanelSpec => []PanelInv
<1>1. PanelInit => PanelInv
  BY PanelInitTypes, PanelInitInv DEF PanelInv
<1>2. PanelInv /\ [PanelNext]_panelVars => PanelInv'
  BY PanelStep
<1> QED BY <1>1, <1>2, PTL DEF PanelSpec

LEMMA ThePanelIsSo == PanelInv => PanelTypeOK /\ InfoIsSo /\ PanelIsSo
<1> SUFFICES ASSUME PanelInv PROVE PanelTypeOK /\ InfoIsSo /\ PanelIsSo
  OBVIOUS
<1>1. PanelTypeOK
  BY PanelTypesMean DEF PanelInv
<1>2. InfoIsSo
  BY DEF PanelInv, InfoInv, InfoIsSo
<1>3. ASSUME ~hurried
      PROVE  /\ Resting => bundle = BundleNow
             /\ \A c \in check : MovedUnanswered \/ c.head = Here.head
             /\ Resting /\ menu.open => menu.list # {} /\ \A l \in menu.list : l.current = onBranch
  <2>1. BundleIsSo /\ CheckIsSo
    BY <1>3 DEF PanelInv, PatientInv
  <2>2. ASSUME Resting PROVE \A k \in PanelCalls : doing[k].stage = "none"
    BY <2>2 DEF Resting, UnderWay, Free
  <2>3. Resting => bundle = BundleNow
    BY <2>1, <2>2 DEF BundleIsSo, Changes
  <2>4. Resting /\ menu.open => menu.list # {} /\ \A l \in menu.list : l.current = onBranch
    <3>1. "branch" \in PanelCalls /\ "list" \in PanelReads
      BY DEF PanelCalls, PanelReads
    <3> QED BY <2>2, <3>1 DEF PanelInv, MenuInv, Resting
  <2> QED BY <2>1, <2>3, <2>4 DEF CheckIsSo
<1>4. PanelIsSo
  BY <1>3 DEF PanelIsSo
<1> QED BY <1>1, <1>2, <1>4

(* The action of CommitIsAsShown.                                            *)
AsShown ==
    ~hurried /\ CommitServed =>
        IF doing["commit"].what = "review" THEN Here.pending \subseteq doing["commit"].arg
        ELSE Here.head = Here.tip => doing'["commit"].stage = "answered"

LEMMA CommitAsShownStep == PanelInv /\ [PanelNext]_panelVars => [AsShown]_panelVars
<1> SUFFICES ASSUME PanelInv, [PanelNext]_panelVars, ~hurried, CommitServed
             PROVE  IF doing["commit"].what = "review" THEN Here.pending \subseteq doing["commit"].arg
                    ELSE Here.head = Here.tip => doing'["commit"].stage = "answered"
  BY DEF AsShown
<1>1. PanelTypes /\ PanelSteps /\ CommitIsSo /\ AloneUnderWay
  BY EveryPanelStep DEF PanelInv, PatientInv
<1>t. DOMAIN doing = PanelCalls /\ "commit" \in PanelCalls
  BY <1>1 DEF PanelTypes, CallsAreAbout, PanelCalls
<1>2. doing["commit"].stage = "sent" /\ doing'["commit"].stage # "sent"
  BY DEF CommitServed
<1>3. ServingHolds("commit")
  <2>1. ASSUME NEW k \in PanelCalls, OfCall(k) PROVE k = "commit"
    BY <2>1, <1>1, <1>2, <1>t, TheOthersAreFree DEF OfCall
  <2>2. ASSUME NEW k \in PanelCalls, Pushes(k) PROVE FALSE
    BY <2>2, <1>2, <1>t DEF Pushes, Free, OtherCalls
  <2>3. ASSUME NEW k \in PanelCalls, ServingHolds(k) PROVE ServingHolds("commit")
    BY <2>3, <2>1 DEF ServingHolds, Serves, OfCall
  <2>4. ASSUME NEW k \in PanelCalls, ServeRefresh(k) \/ AnswerMove(k) \/ AnswerFiles(k) \/ AnswerRefused(k) \/ Refreshed(k)
        PROVE  FALSE
    <3>1. OfCall(k)
      BY <2>4, <1>t DEF ServeRefresh, AnswerMove, AnswerFiles, AnswerRefused, Refreshed, Refreshing, OtherCalls, OfCall
    <3>2. k = "commit"
      BY <2>1, <3>1
    <3> QED BY <2>4, <3>2, <1>2 DEF ServeRefresh, AnswerMove, AnswerFiles, AnswerRefused, Refreshed
  <2>5. CASE AnswerSync
    BY <2>5, <1>2, <1>t DEF AnswerSync, Refreshing
  <2>6. CASE AnswerCheck
    BY <2>6, <1>2, <1>t DEF AnswerCheck
  <2>7. CASE doing' = doing
    BY <2>7, <1>2
  <2>8. CASE (\E r \in PanelReads : ServeRead(r)) \/ Review \/ CloseReview \/ ToggleMenu \/ InfoLands \/ ListLands
             \/ DiffLands \/ HappensElsewhere \/ UNCHANGED panelVars
    BY <2>7, <2>8
    DEF ServeRead, Review, CloseReview, ToggleMenu, InfoLands, ListLands, DiffLands, HappensElsewhere, panelVars
  <2> QED BY <1>1, <2>2, <2>3, <2>4, <2>5, <2>6, <2>8 DEF PanelSteps
<1>4. doing["commit"].what # "review" => Here.pending # {} /\ Here.clash = {} /\ ~behindSketch
  BY <1>1, <1>2 DEF CommitIsSo
<1>5. doing["commit"].what = "review" => Here.pending \subseteq doing["commit"].arg
  BY <1>1, <1>2 DEF CommitIsSo
<1>6. \/ doing'["commit"].stage = "answered"
      \/ ~(Here.pending # {} /\ Here.clash = {} /\ ~behindSketch /\ Here.head = Here.tip)
  BY <1>3 DEF ServingHolds, Serves
<1> QED BY <1>4, <1>5, <1>6

(* What source control shows is so, and a commit is of what it showed, for   *)
(* every set of branches and files and any number of commits.                *)
THEOREM SourceControlShowsWhatIs ==
  PanelSpec => [](InfoIsSo /\ PanelIsSo) /\ CommitIsAsShown
<1>1. PanelSpec => []PanelInv
  BY PanelAlways
<1>2. PanelInv => InfoIsSo /\ PanelIsSo
  BY ThePanelIsSo
<1>3. PanelInv /\ [PanelNext]_panelVars => [AsShown]_panelVars
  BY CommitAsShownStep
<1> QED BY <1>1, <1>2, <1>3, PTL DEF PanelSpec, CommitIsAsShown, AsShown

HIDE GitPanelAssumption

-----------------------------------------------------------------------------
(* The processes of the app that is run (Processes).                         *)

LEMMA LeastOf ==
  ASSUME NEW T \in SUBSET Nat, T # {}
  PROVE  \E x \in T : \A y \in T : x <= y
  <1> DEFINE R == OpToRel(<, Nat)
  <1>1. IsWellFoundedOn(R, Nat)
    BY NatLessThanWellFounded
  <1> HIDE DEF R
  <1>2. PICK x \in T : \A y \in T : ~(<<y, x>> \in R)
    BY <1>1, WFMin, Zenon
  <1>3. \A m, n \in Nat : m < n => <<m, n>> \in R
    BY DEF R, OpToRel
  <1>4. ASSUME NEW y \in T PROVE x <= y
    <2>1. x \in Nat /\ y \in Nat
      OBVIOUS
    <2>2. ~(y < x)
      BY <1>2, <1>3, <2>1
    <2> QED
      BY <2>1, <2>2
  <1> QED
    BY <1>4

-----------------------------------------------------------------------------
(* What is run, and at which address (Processes).                            *)

(* Counting up to a number.                                                  *)
LEMMA CountingUp ==
    ASSUME NEW last \in Nat, NEW S, 0 \in S, \A n \in 0 .. last : n # last /\ n \in S => n + 1 \in S
    PROVE  \A n \in 0 .. last : n \in S
  <1> DEFINE T == {n \in 0 .. last : n \notin S}
  <1>1. SUFFICES ASSUME T # {} PROVE FALSE
    OBVIOUS
  <1>2. PICK m \in T : \A n \in T : m <= n
    <2>1. T \in SUBSET Nat
      OBVIOUS
    <2> HIDE DEF T
    <2> QED
      BY <1>1, <2>1, LeastOf
  <1>3. m # 0 /\ m - 1 \in 0 .. last /\ m - 1 # last /\ m - 1 \notin T
    BY <1>2
  <1>4. m \in S
    <2>1. (m - 1) + 1 \in S
      BY <1>3
    <2> QED
      BY <1>2, <1>3, <2>1
  <1> QED
    BY <1>2, <1>4

(* What Kept has kept of the first n.                                        *)
KeptThen(k, seq, S, n) ==
    IF n = 0 THEN <<>>
    ELSE IF seq[n] \in S THEN Append(k[n - 1], seq[n]) ELSE k[n - 1]

KeptSoFar(k, seq, S, n) == k = [i \in 0 .. n |-> KeptThen(k, seq, S, i)]

(* The recursion is a function, however long the sequence.                   *)
LEMMA KeptIsAFunction ==
    ASSUME NEW seq, NEW S, NEW last \in Nat
    PROVE  \E k : KeptSoFar(k, seq, S, last)
  <1> DEFINE T == {n \in 0 .. last : \E k : KeptSoFar(k, seq, S, n)}
  <1>1. 0 \in T
    <2>1. KeptSoFar([i \in 0 .. 0 |-> <<>>], seq, S, 0)
      BY DEF KeptSoFar, KeptThen
    <2> QED
      BY <2>1
  <1>2. ASSUME NEW n \in 0 .. last, n # last, n \in T PROVE n + 1 \in T
    <2>1. PICK k : KeptSoFar(k, seq, S, n)
      BY <1>2
    <2> DEFINE more == [i \in 0 .. n + 1 |-> IF i = n + 1 THEN KeptThen(k, seq, S, n + 1) ELSE k[i]]
    <2>2. ASSUME NEW i \in 0 .. n + 1 PROVE more[i] = KeptThen(more, seq, S, i)
      <3>1. i # 0 => i - 1 \in 0 .. n /\ more[i - 1] = k[i - 1]
        OBVIOUS
      <3>2. KeptThen(more, seq, S, i) = KeptThen(k, seq, S, i)
        <4> HIDE DEF more
        <4> QED
          BY <3>1 DEF KeptThen
      <3>3. CASE i = n + 1
        BY <3>2, <3>3
      <3>4. CASE i # n + 1
        <4>1. i \in 0 .. n
          BY <3>4
        <4>2. k[i] = KeptThen(k, seq, S, i)
          BY <2>1, <4>1 DEF KeptSoFar
        <4> QED
          BY <3>2, <3>4, <4>2
      <3> QED
        BY <3>3, <3>4
    <2>3. KeptSoFar(more, seq, S, n + 1)
      BY <2>2 DEF KeptSoFar
    <2> QED
      BY <1>2, <2>3
  <1>3. \A n \in 0 .. last : n \in T
    <2> HIDE DEF T
    <2> QED
      BY <1>1, <1>2, CountingUp
  <1> QED
    BY <1>3

LEMMA KeptIs ==
    ASSUME NEW U, NEW seq \in Seq(U), NEW S
    PROVE  \E k : KeptSoFar(k, seq, S, Len(seq)) /\ Kept(seq, S) = k[Len(seq)]
  <1> DEFINE k == CHOOSE f : KeptSoFar(f, seq, S, Len(seq))
  <1>1. KeptSoFar(k, seq, S, Len(seq))
    <2>1. Len(seq) \in Nat
      OBVIOUS
    <2> QED
      BY <2>1, KeptIsAFunction
  <1>2. Kept(seq, S) = k[Len(seq)]
    BY DEF Kept, KeptSoFar, KeptThen
  <1> QED
    BY <1>1, <1>2

(* What is kept is in the sequence and in the set, all of it, and once if it *)
(* was there once.                                                           *)
KeptFrom(s, seq, S, n) ==
    /\ s \in Seq(S) /\ Len(s) <= n
    /\ \A i \in 1 .. Len(s) : \E j \in 1 .. n : s[i] = seq[j]
    /\ \A j \in 1 .. n : seq[j] \in S => \E i \in 1 .. Len(s) : s[i] = seq[j]
    /\ Each(seq) => \A i, j \in 1 .. Len(s) : s[i] = s[j] => i = j

LEMMA KeptIsFrom ==
    ASSUME NEW U, NEW seq \in Seq(U), NEW S
    PROVE  KeptFrom(Kept(seq, S), seq, S, Len(seq))
  <1>1. PICK k : KeptSoFar(k, seq, S, Len(seq)) /\ Kept(seq, S) = k[Len(seq)]
    BY KeptIs
  <1>2. \A n \in 0 .. Len(seq) : k[n] = KeptThen(k, seq, S, n)
    BY <1>1 DEF KeptSoFar
  <1>9. Len(seq) \in Nat
    OBVIOUS
  <1> DEFINE T == {n \in 0 .. Len(seq) : KeptFrom(k[n], seq, S, n)}
  <1> HIDE DEF T
  <1>3. 0 \in T
    <2>1. k[0] = <<>>
      BY <1>2, <1>9 DEF KeptThen
    <2>2. KeptFrom(<<>>, seq, S, 0)
      BY DEF KeptFrom
    <2>3. 0 \in 0 .. Len(seq)
      BY <1>9
    <2> QED
      BY <2>1, <2>2, <2>3 DEF T
  <1>4. ASSUME NEW n \in 0 .. Len(seq), n # Len(seq), n \in T PROVE n + 1 \in T
    <2>0. n + 1 \in 1 .. Len(seq) /\ n + 1 \in 0 .. Len(seq) /\ n \in Nat
      BY <1>4, <1>9
    <2>1. KeptFrom(k[n], seq, S, n) /\ n + 1 \in 1 .. Len(seq)
      BY <1>4, <2>0 DEF T
    <2>2. k[n + 1] = IF seq[n + 1] \in S THEN Append(k[n], seq[n + 1]) ELSE k[n]
      BY <1>2, <1>9, <2>1 DEF KeptThen
    <2> DEFINE s == k[n]
    <2>s. /\ s \in Seq(S) /\ Len(s) \in Nat /\ Len(s) <= n
          /\ \A i \in 1 .. Len(s) : \E j \in 1 .. n : s[i] = seq[j]
          /\ \A j \in 1 .. n : seq[j] \in S => \E i \in 1 .. Len(s) : s[i] = seq[j]
          /\ Each(seq) => \A i, j \in 1 .. Len(s) : s[i] = s[j] => i = j
      BY <2>1 DEF KeptFrom
    <2> HIDE DEF s
    <2>3. CASE seq[n + 1] \notin S
      <3>1. k[n + 1] = s
        BY <2>2, <2>3 DEF s
      <3>2. KeptFrom(s, seq, S, n + 1)
        <4>1. \A j \in 1 .. n + 1 : j \in 1 .. n \/ j = n + 1
          OBVIOUS
        <4>2. \A j \in 1 .. n : j \in 1 .. n + 1
          OBVIOUS
        <4> QED
          BY <2>s, <2>3, <4>1, <4>2 DEF KeptFrom
      <3> QED
        BY <2>0, <3>1, <3>2 DEF T
    <2>4. CASE seq[n + 1] \in S
      <3> DEFINE t == Append(s, seq[n + 1])
      <3>1. k[n + 1] = t
        BY <2>2, <2>4 DEF s
      <3>2. /\ t \in Seq(S) /\ Len(t) = Len(s) + 1 /\ t[Len(s) + 1] = seq[n + 1]
            /\ \A i \in 1 .. Len(s) : t[i] = s[i]
        BY <2>4, <2>s
      <3> HIDE DEF t
      <3>3. ASSUME NEW i \in 1 .. Len(t) PROVE \E j \in 1 .. n + 1 : t[i] = seq[j]
        <4>1. CASE i = Len(s) + 1
          BY <3>2, <4>1, <2>1
        <4>2. CASE i # Len(s) + 1
          <5>1. i \in 1 .. Len(s)
            BY <2>s, <3>2, <4>2
          <5>2. PICK j \in 1 .. n : s[i] = seq[j]
            BY <2>s, <5>1
          <5> QED
            BY <3>2, <5>1, <5>2
        <4> QED
          BY <4>1, <4>2
      <3>4. ASSUME NEW j \in 1 .. n + 1, seq[j] \in S PROVE \E i \in 1 .. Len(t) : t[i] = seq[j]
        <4>1. CASE j = n + 1
          <5>1. Len(s) + 1 \in 1 .. Len(t)
            BY <2>s, <3>2
          <5> QED
            BY <3>2, <4>1, <5>1
        <4>2. CASE j # n + 1
          <5>1. j \in 1 .. n
            BY <4>2
          <5>2. PICK i \in 1 .. Len(s) : s[i] = seq[j]
            BY <2>s, <3>4, <5>1
          <5> QED
            BY <2>s, <3>2, <5>2
        <4> QED
          BY <4>1, <4>2
      <3>5. ASSUME Each(seq), NEW i \in 1 .. Len(t), NEW j \in 1 .. Len(t), t[i] = t[j] PROVE i = j
        <4>1. \A l \in 1 .. Len(s) : s[l] # seq[n + 1]
          <5> SUFFICES ASSUME NEW l \in 1 .. Len(s), s[l] = seq[n + 1] PROVE FALSE
            OBVIOUS
          <5>1. PICK o \in 1 .. n : s[l] = seq[o]
            BY <2>s
          <5>2. o \in DOMAIN seq /\ n + 1 \in DOMAIN seq /\ o # n + 1
            BY <2>0
          <5> QED
            BY <3>5, <5>1, <5>2 DEF Each
        <4>2. \A l \in 1 .. Len(t) : l \in 1 .. Len(s) \/ l = Len(s) + 1
          BY <2>s, <3>2
        <4> QED
          BY <2>s, <3>2, <3>5, <4>1, <4>2
      <3>6. KeptFrom(t, seq, S, n + 1)
        BY <2>s, <3>2, <3>3, <3>4, <3>5 DEF KeptFrom
      <3> QED
        BY <2>0, <3>1, <3>6 DEF T
    <2> QED
      BY <2>3, <2>4
  <1>5. Len(seq) \in T
    <2>1. \A n \in 0 .. Len(seq) : n # Len(seq) /\ n \in T => n + 1 \in T
      BY <1>4
    <2>2. \A n \in 0 .. Len(seq) : n \in T
      BY <1>3, <1>9, <2>1, CountingUp
    <2> QED
      BY <1>9, <2>2
  <1> QED
    BY <1>1, <1>5 DEF T

(* Of a sequence whose elements in the set are those from lo to hi, these    *)
(* are kept.                                                                 *)
LEMMA KeptStretch ==
    ASSUME NEW U, NEW seq \in Seq(U), NEW S, NEW lo \in Nat, NEW hi \in Nat,
           1 <= lo, lo <= hi + 1, hi <= Len(seq),
           \A i \in 1 .. Len(seq) : seq[i] \in S <=> i \in lo .. hi
    PROVE  Kept(seq, S) = SubSeq(seq, lo, hi)
  <1>1. PICK k : KeptSoFar(k, seq, S, Len(seq)) /\ Kept(seq, S) = k[Len(seq)]
    BY KeptIs
  <1>2. \A n \in 0 .. Len(seq) : k[n] = KeptThen(k, seq, S, n)
    BY <1>1 DEF KeptSoFar
  <1>9. Len(seq) \in Nat
    OBVIOUS
  <1> DEFINE UpTo(n) == SubSeq(seq, lo, IF n < hi THEN n ELSE hi)
             T == {n \in 0 .. Len(seq) : k[n] = UpTo(n)}
  <1> HIDE DEF T, UpTo
  <1>n. \A n \in 0 .. Len(seq) : n < lo => SubSeq(seq, lo, n) = <<>>
    OBVIOUS
  <1>3. 0 \in T
    <2>1. k[0] = <<>>
      BY <1>2, <1>9 DEF KeptThen
    <2>2. UpTo(0) = SubSeq(seq, lo, 0)
      BY <1>9 DEF UpTo
    <2>3. 0 \in 0 .. Len(seq) /\ UpTo(0) = <<>>
      BY <1>9, <1>n, <2>2
    <2> QED
      BY <2>1, <2>3 DEF T
  <1>4. ASSUME NEW n \in 0 .. Len(seq), n # Len(seq), n \in T PROVE n + 1 \in T
    <2>0. n + 1 \in 1 .. Len(seq) /\ n + 1 \in 0 .. Len(seq) /\ n \in Nat
      BY <1>4, <1>9
    <2>1. k[n] = UpTo(n) /\ n + 1 \in 1 .. Len(seq)
      BY <1>4, <2>0 DEF T
    <2>2. k[n + 1] = IF seq[n + 1] \in S THEN Append(k[n], seq[n + 1]) ELSE k[n]
      BY <1>2, <1>9, <2>1 DEF KeptThen
    <2>3. CASE n + 1 \in lo .. hi
      <3>1. UpTo(n) = SubSeq(seq, lo, n) /\ UpTo(n + 1) = SubSeq(seq, lo, n + 1)
        BY <2>0, <2>3 DEF UpTo
      <3>2. Append(SubSeq(seq, lo, n), seq[n + 1]) = SubSeq(seq, lo, n + 1)
        <4> DEFINE s == Append(SubSeq(seq, lo, n), seq[n + 1])
                   t == SubSeq(seq, lo, n + 1)
        <4>1. s \in Seq(U) /\ t \in Seq(U) /\ Len(s) = n + 2 - lo /\ Len(t) = n + 2 - lo
          BY <2>1, <2>3
        <4>2. \A i \in 1 .. n + 2 - lo : s[i] = t[i]
          BY <2>1, <2>3
        <4> HIDE DEF s, t
        <4>3. s = t
          BY <4>1, <4>2, SeqEqual
        <4> QED
          BY <4>3 DEF s, t
      <3>3. k[n + 1] = UpTo(n + 1)
        BY <1>9, <2>1, <2>2, <2>3, <3>1, <3>2
      <3> QED
        BY <2>0, <3>3 DEF T
    <2>4. CASE n + 1 \notin lo .. hi
      <3>1. k[n + 1] = UpTo(n)
        BY <2>1, <2>2, <2>4
      <3>2. UpTo(n + 1) = UpTo(n)
        <4>1. CASE n + 1 < lo
          <5>1. CASE n + 1 < hi \/ n + 1 = hi
            <6>1. UpTo(n + 1) = SubSeq(seq, lo, n + 1) /\ UpTo(n) = SubSeq(seq, lo, n)
              BY <2>0, <5>1 DEF UpTo
            <6> QED
              BY <1>n, <2>0, <4>1, <6>1
          <5>2. CASE n = hi
            BY <2>0, <5>2 DEF UpTo
          <5>3. CASE n > hi
            BY <2>0, <5>3 DEF UpTo
          <5> QED
            BY <2>0, <5>1, <5>2, <5>3
        <4>2. CASE n + 1 > hi
          <5>1. n = hi \/ n > hi
            BY <2>0, <4>2
          <5> QED
            BY <2>0, <5>1 DEF UpTo
        <4> QED
          BY <2>0, <2>4, <4>1, <4>2
      <3> QED
        BY <2>0, <3>1, <3>2 DEF T
    <2> QED
      BY <2>3, <2>4
  <1>5. Len(seq) \in T
    <2>1. \A n \in 0 .. Len(seq) : n # Len(seq) /\ n \in T => n + 1 \in T
      BY <1>4
    <2>2. \A n \in 0 .. Len(seq) : n \in T
      BY <1>3, <1>9, <2>1, CountingUp
    <2> QED
      BY <1>9, <2>2
  <1>6. UpTo(Len(seq)) = SubSeq(seq, lo, hi)
    <2>1. hi = Len(seq) \/ hi < Len(seq)
      BY <1>9
    <2> QED
      BY <1>9, <2>1 DEF UpTo
  <1> QED
    BY <1>1, <1>5, <1>6 DEF T

-----------------------------------------------------------------------------
(* What deriveProcesses makes of documents.                                  *)

LEMMA RangeIsFinite ==
    ASSUME NEW U, NEW seq \in Seq(U)
    PROVE  IsFiniteSet(ToSet(seq))
  <1>1. Len(seq) \in Nat
    OBVIOUS
  <1>2. IsFiniteSet(1 .. Len(seq))
    BY <1>1, FS_Interval
  <1>3. seq \in Surjection(1 .. Len(seq), ToSet(seq))
    <2>1. DOMAIN seq = 1 .. Len(seq)
      OBVIOUS
    <2>2. seq = [i \in DOMAIN seq |-> seq[i]]
      OBVIOUS
    <2> QED
      BY <2>1, <2>2 DEF Surjection, ToSet
  <1> QED
    BY <1>2, <1>3, FS_Surjection

LEMMA SetsAreFinite ==
    /\ IsFiniteSet(CompositionNodes) /\ IsFiniteSet(WebClients) /\ IsFiniteSet(ApiBoundaries)
    /\ IsFiniteSet(ServerFiles)
  <1>1. IsFiniteSet(CompositionNodes) /\ IsFiniteSet(ServerFiles)
    <2>1. IsFiniteSet(ToSet(NodeOrder))
      BY ProcessesAssumption, RangeIsFinite
    <2>2. IsFiniteSet(ToSet(ServerOrder))
      BY ProcessesAssumption, RangeIsFinite
    <2> QED
      BY <2>1, <2>2, ProcessesAssumption
  <1>2. WebClients \in SUBSET CompositionNodes /\ ApiBoundaries \in SUBSET CompositionNodes
    BY DEF CompositionNodes
  <1> QED
    BY <1>1, <1>2, FS_Subset

(* A sequence of different elements is no longer than its set.               *)
LEMMA NoLonger ==
    ASSUME NEW U, IsFiniteSet(U), NEW seq \in Seq(U),
           \A i, j \in 1 .. Len(seq) : seq[i] = seq[j] => i = j
    PROVE  Len(seq) <= Cardinality(U)
  <1>1. Len(seq) \in Nat
    OBVIOUS
  <1>2. Cardinality(1 .. Len(seq)) = Len(seq)
    <2>1. Cardinality(1 .. Len(seq)) = IF 1 > Len(seq) THEN 0 ELSE Len(seq) - 1 + 1
      BY <1>1, FS_Interval
    <2> QED
      BY <1>1, <2>1
  <1>3. seq \in Injection(1 .. Len(seq), U)
    BY DEF Injection, IsInjective
  <1>4. Cardinality(1 .. Len(seq)) <= Cardinality(U)
    BY <1>3, FS_Injection
  <1> QED
    BY <1>2, <1>4

LEMMA ClientsAre ==
    ASSUME NEW nodes \in SUBSET CompositionNodes
    PROVE  /\ Clients(nodes) \in Seq(nodes \cap WebClients)
           /\ Len(Clients(nodes)) <= Cardinality(WebClients)
  <1> DEFINE C == Clients(nodes)
  <1>1. KeptFrom(C, NodeOrder, nodes \cap WebClients, Len(NodeOrder))
    BY ProcessesAssumption, KeptIsFrom DEF Clients
  <1> HIDE DEF C
  <1>2. C \in Seq(nodes \cap WebClients) /\ \A i, j \in 1 .. Len(C) : C[i] = C[j] => i = j
    BY <1>1, ProcessesAssumption DEF KeptFrom
  <1>3. C \in Seq(WebClients)
    BY <1>2
  <1>4. Len(C) <= Cardinality(WebClients)
    BY <1>2, <1>3, SetsAreFinite, NoLonger
  <1> QED
    BY <1>2, <1>4 DEF C

LEMMA ServersAre ==
    ASSUME NEW files \in SUBSET ServerFiles
    PROVE  /\ Servers(files) \in Seq(files)
           /\ Len(Servers(files)) <= Cardinality(ServerFiles)
           /\ \A f \in files : \E j \in 1 .. Len(Servers(files)) : Servers(files)[j] = f
           /\ \A i, j \in 1 .. Len(Servers(files)) : Servers(files)[i] = Servers(files)[j] => i = j
  <1> DEFINE V == Servers(files)
  <1>1. KeptFrom(V, ServerOrder, files, Len(ServerOrder))
    BY ProcessesAssumption, KeptIsFrom DEF Servers
  <1> HIDE DEF V
  <1>2. V \in Seq(files) /\ \A i, j \in 1 .. Len(V) : V[i] = V[j] => i = j
    BY <1>1, ProcessesAssumption DEF KeptFrom
  <1>3. ASSUME NEW f \in files PROVE \E j \in 1 .. Len(V) : V[j] = f
    <2>1. PICK o \in DOMAIN ServerOrder : ServerOrder[o] = f
      BY ProcessesAssumption DEF ToSet
    <2>2. o \in 1 .. Len(ServerOrder)
      BY <2>1, ProcessesAssumption
    <2> QED
      BY <1>1, <2>1, <2>2 DEF KeptFrom
  <1>4. V \in Seq(ServerFiles)
    BY <1>2
  <1>5. Len(V) <= Cardinality(ServerFiles)
    BY <1>2, <1>4, SetsAreFinite, NoLonger
  <1> QED
    BY <1>2, <1>3, <1>5 DEF V

(* The server that clients are told of is one of them, and where there are   *)
(* several it is named like the only api boundary.                           *)
LEMMA ApiServerIs ==
    ASSUME NEW nodes \in SUBSET CompositionNodes, NEW files \in SUBSET ServerFiles
    PROVE  \/ ApiServer(nodes, files) = NoServer
           \/ /\ ApiServer(nodes, files) \in 1 .. Len(Servers(files))
              /\ Len(Servers(files)) # 1 =>
                    /\ Cardinality(Apis(nodes)) = 1
                    /\ StemOf[Servers(files)[ApiServer(nodes, files)]] \in Apis(nodes)
  <1> DEFINE V == Servers(files)
             named == {j \in DOMAIN V : StemOf[V[j]] \in Apis(nodes)}
  <1>1. Len(V) \in Nat
    BY ServersAre
  <1>2. DOMAIN V = 1 .. Len(V)
    BY ServersAre
  <1>3. CASE Len(V) = 1
    BY <1>3 DEF ApiServer
  <1>4. CASE Len(V) # 1 /\ Cardinality(Apis(nodes)) = 1 /\ named # {}
    <2>1. ApiServer(nodes, files) = CHOOSE j \in named : \A k \in named : j <= k
      BY <1>4 DEF ApiServer
    <2>2. named \in SUBSET Nat
      BY <1>2
    <2>3. named \subseteq 1 .. Len(V) /\ \A j \in named : StemOf[V[j]] \in Apis(nodes)
      BY <1>2
    <2> HIDE DEF named, V
    <2>4. \E j \in named : \A k \in named : j <= k
      BY <1>4, <2>2, LeastOf
    <2>5. ApiServer(nodes, files) \in named
      BY <2>1, <2>4
    <2> QED
      BY <1>4, <2>3, <2>5 DEF V
  <1>5. CASE Len(V) # 1 /\ ~(Cardinality(Apis(nodes)) = 1 /\ named # {})
    BY <1>5 DEF ApiServer
  <1> QED
    BY <1>3, <1>4, <1>5

(* A sequence made of two.                                                   *)
LEMMA TwoJoined ==
    ASSUME NEW U, NEW m \in Nat, NEW n \in Nat, NEW s \in [1 .. m -> U], NEW t \in [1 .. n -> U]
    PROVE  /\ s \in Seq(U) /\ t \in Seq(U) /\ Len(s) = m /\ Len(t) = n
           /\ s \o t \in Seq(U) /\ Len(s \o t) = m + n
           /\ \A i \in 1 .. m : (s \o t)[i] = s[i]
           /\ \A i \in 1 .. n : (s \o t)[m + i] = t[i]
  <1>2. s \in Seq(U) /\ Len(s) = m
    OBVIOUS
  <1>3. t \in Seq(U) /\ Len(t) = n
    OBVIOUS
  <1>4. s \o t \in Seq(U) /\ Len(s \o t) = m + n
    BY <1>2, <1>3
  <1>5. \A i \in 1 .. m : (s \o t)[i] = s[i]
    BY <1>2, <1>3
  <1>6. \A i \in 1 .. n : (s \o t)[m + i] = t[i]
    BY <1>2, <1>3
  <1> QED
    BY <1>2, <1>3, <1>4, <1>5, <1>6

(* The processes of an app: clients, then servers, ports counted up.         *)
Derived(procs, nodes, files) ==
    LET c == Len(Clients(nodes))
        n == Len(Servers(files))
    IN /\ \E U : procs \in Seq(U)
       /\ Len(procs) = c + n
       /\ \A i \in 1 .. c + n : procs[i].port = PortBase + i - 1
       /\ \A i \in 1 .. c : /\ procs[i].name = Clients(nodes)[i] /\ procs[i].client
                            /\ procs[i].api = IF ApiServer(nodes, files) = NoServer THEN 0
                                              ELSE PortBase + c + ApiServer(nodes, files) - 1
       /\ \A j \in 1 .. n : /\ procs[c + j].name = ServerName(nodes, files, Servers(files)[j])
                            /\ ~procs[c + j].client /\ procs[c + j].api = 0
                            /\ procs[c + j].origins = {PortBase + i - 1 : i \in 1 .. c}

LEMMA ProcsAre ==
    ASSUME NEW nodes \in SUBSET CompositionNodes, NEW files \in SUBSET ServerFiles
    PROVE  /\ Len(Clients(nodes)) \in Nat /\ Len(Servers(files)) \in Nat
           /\ DOMAIN ClientProcs(nodes, files) = 1 .. Len(Clients(nodes))
           /\ DOMAIN ServerProcs(nodes, files) = 1 .. Len(Servers(files))
           /\ ClientProcs(nodes, files) =
                 [i \in 1 .. Len(Clients(nodes)) |-> ClientProcs(nodes, files)[i]]
           /\ ServerProcs(nodes, files) =
                 [i \in 1 .. Len(Servers(files)) |-> ServerProcs(nodes, files)[i]]
           /\ \A i \in 1 .. Len(Clients(nodes)) : ClientProcs(nodes, files)[i] =
                 [name |-> Clients(nodes)[i], port |-> ClientPort(i), client |-> TRUE, origins |-> {},
                  api |-> IF ApiServer(nodes, files) = NoServer THEN 0
                          ELSE ServerPort(nodes, ApiServer(nodes, files))]
           /\ \A j \in 1 .. Len(Servers(files)) : ServerProcs(nodes, files)[j] =
                 [name |-> ServerName(nodes, files, Servers(files)[j]), port |-> ServerPort(nodes, j),
                  client |-> FALSE, origins |-> {ClientPort(i) : i \in 1 .. Len(Clients(nodes))}, api |-> 0]
  <1>1. Len(Clients(nodes)) \in Nat /\ Len(Servers(files)) \in Nat
    BY ClientsAre, ServersAre
  <1>2. DOMAIN Clients(nodes) = 1 .. Len(Clients(nodes))
    BY ClientsAre
  <1>3. DOMAIN Servers(files) = 1 .. Len(Servers(files))
    BY ServersAre
  <1> QED
    BY <1>1, <1>2, <1>3 DEF ClientProcs, ServerProcs

LEMMA ServersNamed ==
    ASSUME NEW nodes \in SUBSET CompositionNodes, NEW files \in SUBSET ServerFiles,
           NEW j \in 1 .. Len(Servers(files))
    PROVE  ServerProcs(nodes, files)[j].name = ServerName(nodes, files, Servers(files)[j])
  <1> DEFINE t == ServerProcs(nodes, files)
  <1>1. t[j] = [name |-> ServerName(nodes, files, Servers(files)[j]), port |-> ServerPort(nodes, j),
                client |-> FALSE, origins |-> {ClientPort(i) : i \in 1 .. Len(Clients(nodes))}, api |-> 0]
    BY ProcsAre
  <1> HIDE DEF t
  <1>2. t[j].name = ServerName(nodes, files, Servers(files)[j])
    BY <1>1
  <1> QED
    BY <1>2 DEF t

LEMMA DerivedIs ==
    ASSUME NEW nodes \in SUBSET CompositionNodes, NEW files \in SUBSET ServerFiles
    PROVE  Derived(DeriveProcesses(nodes, files), nodes, files)
  <1> DEFINE s == ClientProcs(nodes, files)
             t == ServerProcs(nodes, files)
             c == Len(Clients(nodes))
             n == Len(Servers(files))
             U == {s[i] : i \in 1 .. c} \cup {t[i] : i \in 1 .. n}
             procs == DeriveProcesses(nodes, files)
  <1>1. /\ c \in Nat /\ n \in Nat /\ DOMAIN s = 1 .. c /\ DOMAIN t = 1 .. n
        /\ s = [i \in 1 .. c |-> s[i]] /\ t = [i \in 1 .. n |-> t[i]]
    BY ProcsAre
  <1>2. \A i \in 1 .. c : /\ s[i].name = Clients(nodes)[i] /\ s[i].client
                          /\ s[i].port = PortBase + i - 1
                          /\ s[i].api = IF ApiServer(nodes, files) = NoServer THEN 0
                                        ELSE PortBase + c + ApiServer(nodes, files) - 1
    <2> TAKE i \in 1 .. c
    <2>1. s[i] = [name |-> Clients(nodes)[i], port |-> PortBase + i - 1, client |-> TRUE, origins |-> {},
                  api |-> IF ApiServer(nodes, files) = NoServer THEN 0
                          ELSE PortBase + c + ApiServer(nodes, files) - 1]
      BY ProcsAre DEF ClientPort, ServerPort
    <2> HIDE DEF s, c
    <2> QED
      BY <2>1
  <1>3. \A j \in 1 .. n : /\ t[j].name = ServerName(nodes, files, Servers(files)[j])
                          /\ ~t[j].client /\ t[j].api = 0 /\ t[j].port = PortBase + c + j - 1
                          /\ t[j].origins = {PortBase + i - 1 : i \in 1 .. c}
    <2> TAKE j \in 1 .. n
    <2>1. t[j] = [name |-> ServerName(nodes, files, Servers(files)[j]), port |-> PortBase + c + j - 1,
                  client |-> FALSE, origins |-> {PortBase + i - 1 : i \in 1 .. c}, api |-> 0]
      BY ProcsAre DEF ClientPort, ServerPort
    <2> HIDE DEF t, c, n
    <2> QED
      BY <2>1
  <1>4. procs = s \o t
    BY DEF DeriveProcesses
  <1> HIDE DEF s, t, c, n, U, procs
  <1>5. /\ s \o t \in Seq(U) /\ Len(s \o t) = c + n
        /\ \A i \in 1 .. c : (s \o t)[i] = s[i]
        /\ \A i \in 1 .. n : (s \o t)[c + i] = t[i]
    <2>1. s \in [1 .. c -> U] /\ t \in [1 .. n -> U]
      BY <1>1 DEF U
    <2> QED
      BY <1>1, <2>1, TwoJoined
  <1>6. /\ procs \in Seq(U) /\ Len(procs) = c + n
        /\ \A i \in 1 .. c : procs[i] = s[i]
        /\ \A i \in 1 .. n : procs[c + i] = t[i]
    BY <1>4, <1>5
  <1>7. ASSUME NEW i \in 1 .. c + n PROVE procs[i].port = PortBase + i - 1
    <2>1. CASE i \in 1 .. c
      BY <1>2, <1>6, <2>1
    <2>2. CASE i \notin 1 .. c
      <3>1. i - c \in 1 .. n /\ c + (i - c) = i
        BY <1>1, <2>2
      <3>2. procs[i] = t[i - c] /\ t[i - c].port = PortBase + c + (i - c) - 1
        BY <1>3, <1>6, <3>1
      <3>3. PortBase + c + (i - c) - 1 = PortBase + i - 1
        BY <1>1, <3>1, ProcessesAssumption
      <3> QED
        BY <3>2, <3>3
    <2> QED
      BY <2>1, <2>2
  <1>8. \A i \in 1 .. c : /\ procs[i].name = Clients(nodes)[i] /\ procs[i].client
                          /\ procs[i].api = IF ApiServer(nodes, files) = NoServer THEN 0
                                            ELSE PortBase + c + ApiServer(nodes, files) - 1
    BY <1>2, <1>6
  <1>9. \A j \in 1 .. n : /\ procs[c + j].name = ServerName(nodes, files, Servers(files)[j])
                          /\ ~procs[c + j].client /\ procs[c + j].api = 0
                          /\ procs[c + j].origins = {PortBase + i - 1 : i \in 1 .. c}
    BY <1>3, <1>6
  <1> QED
    BY <1>6, <1>7, <1>8, <1>9 DEF Derived, c, n, procs

(* What is derived has the type that ProcessesTypeOK says.                   *)
LEMMA DerivedTypes ==
    ASSUME NEW nodes \in SUBSET CompositionNodes, NEW files \in SUBSET ServerFiles, NEW procs,
           Derived(procs, nodes, files)
    PROVE  /\ DOMAIN procs = 1 .. Len(Clients(nodes)) + Len(Servers(files))
           /\ \A i \in DOMAIN procs :
                 procs[i].port \in PortBase .. PortBase + Cardinality(WebClients) + Cardinality(ServerFiles) - 1
  <1> DEFINE c == Len(Clients(nodes))
             n == Len(Servers(files))
             w == Cardinality(WebClients)
             v == Cardinality(ServerFiles)
  <1>1. c \in Nat /\ n \in Nat /\ c <= w /\ n <= v
    <2>1. c \in Nat /\ n \in Nat
      BY ProcsAre
    <2>2. c <= w
      BY ClientsAre
    <2>3. n <= v
      BY ServersAre
    <2> QED
      BY <2>1, <2>2, <2>3
  <1>2. w \in Nat /\ v \in Nat
    BY SetsAreFinite, FS_CardinalityType
  <1>3. PICK U : procs \in Seq(U)
    BY DEF Derived
  <1>4. Len(procs) = c + n /\ \A i \in 1 .. c + n : procs[i].port = PortBase + i - 1
    BY DEF Derived
  <1> HIDE DEF c, n, w, v
  <1>5. DOMAIN procs = 1 .. c + n
    BY <1>3, <1>4
  <1>6. ASSUME NEW i \in 1 .. c + n PROVE procs[i].port \in PortBase .. PortBase + w + v - 1
    <2>1. PortBase + i - 1 \in PortBase .. PortBase + w + v - 1
      BY <1>1, <1>2, ProcessesAssumption
    <2> QED
      BY <1>4, <2>1
  <1> QED
    BY <1>5, <1>6 DEF c, n, w, v

LEMMA AddressesOfDerived ==
    ASSUME NEW nodes \in SUBSET CompositionNodes, NEW files \in SUBSET ServerFiles,
           app.procs = DeriveProcesses(nodes, files)
    PROVE  AddressesPair
  <1> DEFINE procs == app.procs
             c == Len(Clients(nodes))
             n == Len(Servers(files))
             told == ApiServer(nodes, files)
  <1>1. Derived(procs, nodes, files)
    BY DerivedIs
  <1>2. c \in Nat /\ n \in Nat /\ PortBase \in Nat \ {0}
    BY ClientsAre, ServersAre, ProcessesAssumption
  <1>3. DOMAIN procs = 1 .. c + n /\ \A i \in 1 .. c + n : procs[i].port = PortBase + i - 1
    BY <1>1, DerivedTypes DEF Derived
  <1>4. /\ \A i \in 1 .. c : procs[i].api = IF told = NoServer THEN 0 ELSE PortBase + c + told - 1
        /\ \A j \in 1 .. n : /\ ~procs[c + j].client /\ procs[c + j].api = 0
                             /\ procs[c + j].origins = {PortBase + i - 1 : i \in 1 .. c}
    BY <1>1 DEF Derived
  <1>5. told = NoServer \/ told \in 1 .. n
    BY ApiServerIs
  <1> HIDE DEF c, n, told, procs
  <1>6. \A i, j \in 1 .. c + n : i # j => procs[i].port # procs[j].port
    BY <1>2, <1>3
  <1>7. ASSUME NEW i \in 1 .. c + n, procs[i].api # 0
        PROVE  \E j \in 1 .. c + n : /\ procs[j].port = procs[i].api /\ ~procs[j].client
                                     /\ procs[i].port \in procs[j].origins
    <2>1. i \in 1 .. c
      <3> SUFFICES ASSUME i \notin 1 .. c PROVE FALSE
        OBVIOUS
      <3>1. i - c \in 1 .. n /\ c + (i - c) = i
        BY <1>2
      <3>2. procs[c + (i - c)].api = 0
        BY <1>4, <3>1
      <3> QED
        BY <1>7, <3>1, <3>2
    <2>2. told \in 1 .. n /\ procs[i].api = PortBase + c + told - 1
      BY <1>4, <1>5, <1>7, <2>1
    <2>3. c + told \in 1 .. c + n /\ procs[c + told].port = procs[i].api
      <3>1. c + told \in 1 .. c + n /\ PortBase + (c + told) - 1 = PortBase + c + told - 1
        BY <1>2, <2>2
      <3> QED
        BY <1>3, <2>2, <3>1
    <2>4. ~procs[c + told].client /\ procs[i].port \in procs[c + told].origins
      BY <1>3, <1>4, <2>1, <2>2
    <2> QED
      BY <2>3, <2>4
  <1> QED
    BY <1>3, <1>6, <1>7 DEF AddressesPair, procs

LEMMA OneApi ==
    ASSUME NEW nodes \in SUBSET CompositionNodes, Cardinality(Apis(nodes)) = 1
    PROVE  /\ Apis(nodes) \subseteq ApiBoundaries /\ (CHOOSE u \in Apis(nodes) : TRUE) \in Apis(nodes)
           /\ \A u \in Apis(nodes) : Apis(nodes) = {u}
  <1>1. Apis(nodes) \in SUBSET ApiBoundaries
    BY DEF Apis
  <1>2. IsFiniteSet(Apis(nodes))
    BY <1>1, SetsAreFinite, FS_Subset
  <1>3. PICK u : Apis(nodes) = {u}
    BY <1>2, FS_Singleton
  <1> QED
    BY <1>1, <1>3

LEMMA ApiOfDerived ==
    ASSUME NEW nodes \in SUBSET CompositionNodes, NEW files \in SUBSET ServerFiles,
           app.nodes = nodes, app.servers = files, app.procs = DeriveProcesses(nodes, files)
    PROVE  ClientsReachTheApi
  <1> DEFINE procs == app.procs
             c == Len(Clients(nodes))
             n == Len(Servers(files))
             told == ApiServer(nodes, files)
  <1>1. Derived(procs, nodes, files)
    BY DerivedIs
  <1>2. c \in Nat /\ n \in Nat /\ PortBase \in Nat \ {0}
    BY ClientsAre, ServersAre, ProcessesAssumption
  <1>3. DOMAIN procs = 1 .. c + n /\ \A i \in 1 .. c + n : procs[i].port = PortBase + i - 1
    BY <1>1, DerivedTypes DEF Derived
  <1>4. /\ \A i \in 1 .. c : procs[i].api = IF told = NoServer THEN 0 ELSE PortBase + c + told - 1
        /\ \A j \in 1 .. n : /\ procs[c + j].name = ServerName(nodes, files, Servers(files)[j])
                             /\ procs[c + j].api = 0
    BY <1>1 DEF Derived
  <1>5. \/ told = NoServer
        \/ told \in 1 .. n /\ (n # 1 => Cardinality(Apis(nodes)) = 1 /\ StemOf[Servers(files)[told]] \in Apis(nodes))
    BY ApiServerIs
  <1>6. Cardinality(files) > 1 => n # 1
    <2> SUFFICES ASSUME n = 1 PROVE Cardinality(files) = 1
      OBVIOUS
    <2>1. \A f \in files : Servers(files)[1] = f
      BY ServersAre
    <2>2. Servers(files)[1] \in files
      BY ServersAre
    <2>3. files = {Servers(files)[1]}
      BY <2>1, <2>2
    <2> QED
      BY <2>3, FS_Singleton
  <1> HIDE DEF c, n, told, procs
  <1>7. ASSUME NEW i \in 1 .. c + n, NEW j \in 1 .. c + n, procs[i].api = procs[j].port, Cardinality(files) > 1
        PROVE  Apis(nodes) = {procs[j].name}
    <2>1. procs[j].port = PortBase + j - 1 /\ PortBase + j - 1 > 0
      BY <1>2, <1>3
    <2>2. i \in 1 .. c
      <3> SUFFICES ASSUME i \notin 1 .. c PROVE FALSE
        OBVIOUS
      <3>1. i - c \in 1 .. n /\ c + (i - c) = i
        BY <1>2
      <3>2. procs[c + (i - c)].api = 0
        BY <1>4, <3>1
      <3> QED
        BY <1>7, <2>1, <3>1, <3>2
    <2>3. /\ told \in 1 .. n /\ n # 1 /\ procs[i].api = PortBase + c + told - 1
          /\ Cardinality(Apis(nodes)) = 1 /\ StemOf[Servers(files)[told]] \in Apis(nodes)
      BY <1>4, <1>5, <1>6, <1>7, <2>1, <2>2
    <2>4. j = c + told
      BY <1>2, <1>7, <2>1, <2>3
    <2>5. procs[j].name = ServerName(nodes, files, Servers(files)[told])
      BY <1>4, <2>3, <2>4
    <2>6. Cardinality(files) # 1
      <3>1. files \in SUBSET ServerFiles /\ IsFiniteSet(ServerFiles)
        BY SetsAreFinite
      <3>2. Cardinality(files) \in Nat
        BY <3>1, FS_Subset, FS_CardinalityType
      <3> QED
        BY <1>7, <3>2
    <2>7. procs[j].name = StemOf[Servers(files)[told]]
      BY <2>5, <2>6 DEF ServerName
    <2> QED
      BY <2>3, <2>7, OneApi
  <1> QED
    BY <1>3, <1>7 DEF ClientsReachTheApi, procs

-----------------------------------------------------------------------------
(* Names.  The code takes a server's from its file and a client's from its   *)
(* node, and nothing in it tells two of one name apart; where they differ,   *)
NamesDiffer ==
    /\ \A f, o \in ServerFiles : StemOf[f] = StemOf[o] => f = o
    /\ \A f \in ServerFiles : StemOf[f] \notin WebClients

LEMMA ServerNames ==
    ASSUME NamesDiffer, NEW nodes \in SUBSET CompositionNodes, NEW files \in SUBSET ServerFiles
    PROVE  /\ \A f \in files : ServerName(nodes, files, f) \notin WebClients
           /\ \A f, o \in files : ServerName(nodes, files, f) = ServerName(nodes, files, o) => f = o
  <1>1. CASE Cardinality(files) = 1 /\ Cardinality(Apis(nodes)) = 1
    <2>1. IsFiniteSet(files)
      BY SetsAreFinite, FS_Subset
    <2>2. PICK u : files = {u}
      BY <1>1, <2>1, FS_Singleton
    <2>3. \A f \in files : ServerName(nodes, files, f) \in ApiBoundaries
      BY <1>1, OneApi DEF ServerName
    <2> QED
      BY <2>2, <2>3, ProcessesAssumption
  <1>2. CASE ~(Cardinality(files) = 1 /\ Cardinality(Apis(nodes)) = 1)
    <2>1. \A f \in files : ServerName(nodes, files, f) = StemOf[f]
      BY <1>2 DEF ServerName
    <2> QED
      BY <2>1 DEF NamesDiffer
  <1> QED
    BY <1>1, <1>2

(* Each process of an app has a name of its own among its servers, and none  *)
(* of a server is a client's.                                                *)
NamedApart(procs, nodes, files) ==
    /\ \A i \in 1 .. Len(Clients(nodes)) : procs[i].name \in nodes \cap WebClients
    /\ \A j \in 1 .. Len(Servers(files)) : procs[Len(Clients(nodes)) + j].name \notin WebClients
    /\ \A j, k \in 1 .. Len(Servers(files)) :
          procs[Len(Clients(nodes)) + j].name = procs[Len(Clients(nodes)) + k].name => j = k

LEMMA NamesOfDerived ==
    ASSUME NamesDiffer, NEW nodes \in SUBSET CompositionNodes, NEW files \in SUBSET ServerFiles,
           NEW procs, Derived(procs, nodes, files)
    PROVE  NamedApart(procs, nodes, files)
  <1> DEFINE C == Clients(nodes)
             V == Servers(files)
             c == Len(C)
             n == Len(V)
  <1>1. C \in Seq(nodes \cap WebClients) /\ c \in Nat
    BY ClientsAre
  <1>2. V \in Seq(files) /\ n \in Nat /\ \A j, k \in 1 .. n : V[j] = V[k] => j = k
    BY ServersAre
  <1>3. /\ \A i \in 1 .. c : procs[i].name = C[i]
        /\ \A j \in 1 .. n : procs[c + j].name = ServerName(nodes, files, V[j])
    BY DEF Derived
  <1> HIDE DEF C, V
  <1>4. \A i \in 1 .. c : C[i] \in nodes \cap WebClients
    BY <1>1
  <1>5. \A j \in 1 .. n : V[j] \in files
    BY <1>2
  <1>6. /\ \A f \in files : ServerName(nodes, files, f) \notin WebClients
        /\ \A f, o \in files : ServerName(nodes, files, f) = ServerName(nodes, files, o) => f = o
    BY ServerNames
  <1> QED
    BY <1>2, <1>3, <1>4, <1>5, <1>6 DEF C, V, NamedApart

NamedAsThere(s, seq, lo, m) ==
    /\ DOMAIN s = 1 .. m
    /\ \A j \in 1 .. m : s[j].name = seq[lo + j].name /\ s[j].port = seq[lo + j].port

(* The addresses of a stretch of a sequence are those of what is named and   *)
(* listens as its elements do.                                               *)
LEMMA AddressOfStretch ==
    ASSUME NEW U, NEW seq \in Seq(U), NEW lo \in Nat, NEW m \in Nat, lo + m <= Len(seq),
           NEW s, NamedAsThere(s, seq, lo, m)
    PROVE  Address(SubSeq(seq, lo + 1, lo + m)) = Address(s)
  <1> DEFINE q == SubSeq(seq, lo + 1, lo + m)
  <1>1. \A k \in lo + 1 .. lo + m : seq[k] \in U
    <2>1. \A k \in lo + 1 .. lo + m : k \in 1 .. Len(seq)
      OBVIOUS
    <2> QED
      BY <2>1
  <1>2. /\ q \in Seq(U) /\ Len(q) = IF lo + 1 <= lo + m THEN lo + m - (lo + 1) + 1 ELSE 0
        /\ \A j \in 1 .. lo + m - (lo + 1) + 1 : q[j] = seq[lo + 1 + j - 1]
    BY <1>1, SubSeqProperties
  <1> HIDE DEF q
  <1>3. Len(q) = m /\ \A j \in 1 .. m : q[j] = seq[lo + j]
    <2>1. (IF lo + 1 <= lo + m THEN lo + m - (lo + 1) + 1 ELSE 0) = m /\ lo + m - (lo + 1) + 1 = m
      OBVIOUS
    <2>2. \A j \in 1 .. m : lo + 1 + j - 1 = lo + j
      OBVIOUS
    <2> QED
      BY <1>2, <2>1, <2>2
  <1>4. DOMAIN q = 1 .. m
    BY <1>2, <1>3
  <1>5. \A j \in 1 .. m : q[j].name = s[j].name /\ q[j].port = s[j].port
    BY <1>3 DEF NamedAsThere
  <1>6. DOMAIN s = 1 .. m
    BY DEF NamedAsThere
  <1>7. Address(q) = Address(s)
    BY <1>4, <1>5, <1>6 DEF Address
  <1> QED
    BY <1>7 DEF q

(* GET session shows what POST session did.                                  *)
PreviewsOf(procs, nodes) == {proc \in ToSet(procs) : proc.name \in nodes \cap WebClients}

AgreeOn(procs, nodes, files, S) ==
    /\ Address(Kept(procs, S)) = Address(ClientProcs(nodes, files))
    /\ Address(Kept(procs, ToSet(procs) \ S)) = Address(ServerProcs(nodes, files))

LEMMA RoutesAgreeOn ==
    ASSUME NamesDiffer, NEW nodes \in SUBSET CompositionNodes, NEW files \in SUBSET ServerFiles,
           NEW procs, procs = DeriveProcesses(nodes, files), NEW S, S = PreviewsOf(procs, nodes)
    PROVE  AgreeOn(procs, nodes, files, S)
  <1>s. S = {proc \in ToSet(procs) : proc.name \in nodes \cap WebClients}
    BY DEF PreviewsOf
  <1> DEFINE c == Len(Clients(nodes))
             n == Len(Servers(files))
             s == ClientProcs(nodes, files)
             t == ServerProcs(nodes, files)
  <1>1. Derived(procs, nodes, files)
    BY DerivedIs
  <1>2. PICK U : procs \in Seq(U)
    BY <1>1 DEF Derived
  <1>3. c \in Nat /\ n \in Nat /\ Len(procs) = c + n
    BY <1>1, ClientsAre, ServersAre DEF Derived
  <1>4. /\ DOMAIN s = 1 .. c /\ DOMAIN t = 1 .. n
        /\ \A i \in 1 .. c : s[i].name = procs[i].name /\ s[i].port = procs[i].port
        /\ \A j \in 1 .. n : t[j].name = procs[c + j].name /\ t[j].port = procs[c + j].port
    <2>1. DOMAIN s = 1 .. c /\ DOMAIN t = 1 .. n
      BY ProcsAre
    <2>2. ASSUME NEW i \in 1 .. c PROVE s[i].name = procs[i].name /\ s[i].port = procs[i].port
      <3>1. s[i].name = Clients(nodes)[i] /\ s[i].port = PortBase + i - 1
        <4>1. s[i] = [name |-> Clients(nodes)[i], port |-> ClientPort(i), client |-> TRUE, origins |-> {},
                      api |-> IF ApiServer(nodes, files) = NoServer THEN 0
                              ELSE ServerPort(nodes, ApiServer(nodes, files))]
          BY ProcsAre
        <4> HIDE DEF s
        <4> QED
          BY <4>1 DEF ClientPort
      <3>2. i \in 1 .. c + n
        BY <1>3
      <3>3. procs[i].name = Clients(nodes)[i] /\ procs[i].port = PortBase + i - 1
        BY <1>1, <3>2 DEF Derived
      <3> QED
        BY <3>1, <3>3
    <2>3. ASSUME NEW j \in 1 .. n PROVE t[j].name = procs[c + j].name /\ t[j].port = procs[c + j].port
      <3>1. /\ t[j].name = ServerName(nodes, files, Servers(files)[j])
            /\ t[j].port = PortBase + c + j - 1
        <4>1. t[j] = [name |-> ServerName(nodes, files, Servers(files)[j]), port |-> ServerPort(nodes, j),
                      client |-> FALSE, origins |-> {ClientPort(i) : i \in 1 .. c}, api |-> 0]
          BY ProcsAre
        <4> HIDE DEF t
        <4> QED
          BY <4>1 DEF ServerPort
      <3>2. c + j \in 1 .. c + n
        BY <1>3
      <3>3. /\ procs[c + j].name = ServerName(nodes, files, Servers(files)[j])
            /\ procs[c + j].port = PortBase + (c + j) - 1
        BY <1>1, <3>2 DEF Derived
      <3>4. PortBase + (c + j) - 1 = PortBase + c + j - 1
        BY <1>3, ProcessesAssumption
      <3> QED
        BY <3>1, <3>3, <3>4
    <2> QED
      BY <2>1, <2>2, <2>3
  <1>5. /\ \A i \in 1 .. c : procs[i].name \in nodes \cap WebClients
        /\ \A j \in 1 .. n : procs[c + j].name \notin nodes \cap WebClients
    <2>1. NamedApart(procs, nodes, files)
      BY <1>1, NamesOfDerived
    <2> QED
      BY <2>1 DEF NamedApart
  <1> HIDE DEF c, n, s, t
  <1>d. DOMAIN procs = 1 .. c + n
    BY <1>2, <1>3
  <1>6. ASSUME NEW i \in 1 .. c + n
        PROVE  /\ procs[i] \in S <=> i \in 1 .. c
               /\ procs[i] \in ToSet(procs) \ S <=> i \in c + 1 .. c + n
    <2>1. procs[i] \in ToSet(procs)
      BY <1>d DEF ToSet
    <2>2. CASE i \in 1 .. c
      BY <1>3, <1>5, <1>s, <2>1, <2>2
    <2>3. CASE i \notin 1 .. c
      <3>1. i - c \in 1 .. n /\ c + (i - c) = i /\ i \in c + 1 .. c + n
        BY <1>3, <2>3
      <3>2. procs[c + (i - c)].name \notin nodes \cap WebClients
        BY <1>5, <3>1
      <3> QED
        BY <1>s, <2>1, <2>3, <3>1, <3>2
    <2> QED
      BY <2>2, <2>3
  <1>7. Kept(procs, S) = SubSeq(procs, 1, c)
    <2>1. 1 \in Nat /\ 1 <= 1 /\ 1 <= c + 1 /\ c <= Len(procs)
      BY <1>3
    <2>2. \A i \in 1 .. Len(procs) : procs[i] \in S <=> i \in 1 .. c
      BY <1>3, <1>6
    <2> QED
      BY <1>2, <1>3, <2>1, <2>2, KeptStretch
  <1>8. Kept(procs, ToSet(procs) \ S) = SubSeq(procs, c + 1, c + n)
    <2> DEFINE rest == ToSet(procs) \ S
               lo == c + 1
               hi == c + n
    <2>1. lo \in Nat /\ hi \in Nat /\ 1 <= lo /\ lo <= hi + 1 /\ hi <= Len(procs)
      BY <1>3
    <2>2. \A i \in 1 .. Len(procs) : procs[i] \in rest <=> i \in lo .. hi
      BY <1>3, <1>6
    <2> HIDE DEF rest, lo, hi
    <2>3. Kept(procs, rest) = SubSeq(procs, lo, hi)
      BY <1>2, <2>1, <2>2, KeptStretch
    <2> QED
      BY <2>3 DEF rest, lo, hi
  <1>9. Address(SubSeq(procs, 1, c)) = Address(s)
    <2>1. 0 + 1 = 1 /\ 0 + c = c /\ 0 + c <= Len(procs) /\ \A i \in 1 .. c : 0 + i = i
      BY <1>3
    <2>2. NamedAsThere(s, procs, 0, c)
      BY <1>4, <2>1 DEF NamedAsThere
    <2>3. 0 \in Nat /\ c \in Nat
      BY <1>3
    <2>4. Address(SubSeq(procs, 0 + 1, 0 + c)) = Address(s)
      BY ONLY <1>2, <2>1, <2>2, <2>3, AddressOfStretch
    <2> QED
      BY <2>1, <2>4
  <1>10. Address(SubSeq(procs, c + 1, c + n)) = Address(t)
    <2>1. c + n <= Len(procs) /\ c \in Nat /\ n \in Nat
      BY <1>3
    <2>2. NamedAsThere(t, procs, c, n)
      BY <1>4 DEF NamedAsThere
    <2> QED
      BY ONLY <1>2, <2>1, <2>2, AddressOfStretch
  <1> QED
    BY <1>7, <1>8, <1>9, <1>10 DEF s, t, AgreeOn

-----------------------------------------------------------------------------
(* The app that is up is the one derived when it was started, and has every  *)
(* file of the last emission.                                                *)
DocumentsInv ==
    /\ composition \in SUBSET CompositionNodes /\ emitted \in SUBSET ServerFiles
    /\ travels \in [ToSet(Sources) -> BOOLEAN]

AppInv ==
    /\ app = [up |-> app.up, procs |-> app.procs, files |-> app.files, nodes |-> app.nodes,
              servers |-> app.servers]
    /\ app.up \in BOOLEAN
    /\ app.nodes \in SUBSET CompositionNodes /\ app.servers \in SUBSET ServerFiles
    /\ app.files \subseteq ToSet(Sources) \cup ServerFiles
    /\ app.procs = DeriveProcesses(app.nodes, app.servers)

AnswerInv ==
    /\ answer = [by |-> answer.by, previews |-> answer.previews, boundaries |-> answer.boundaries]
    /\ restarted \subseteq DOMAIN app.procs

ProcessesInv == DocumentsInv /\ AppInv /\ AnswerInv /\ EmissionTravels

LEMMA GatheredAre == ASSUME DocumentsInv PROVE Gathered \subseteq ToSet(Sources)
  <1> DEFINE S == {f \in ToSet(Sources) : travels[f]}
             good == Kept(Sources, S)
  <1>1. KeptFrom(good, Sources, S, Len(Sources))
    BY ProcessesAssumption, KeptIsFrom
  <1>2. good \in Seq(S) /\ Len(good) \in Nat /\ S \subseteq ToSet(Sources)
    BY <1>1 DEF KeptFrom
  <1> HIDE DEF good, S
  <1>3. \A i \in 1 .. Len(good) : good[i] \in ToSet(Sources)
    BY <1>2
  <1>4. Gathered = {good[i] : i \in 1 .. (IF Len(good) < FileLimit THEN Len(good) ELSE FileLimit)}
    BY DEF Gathered, good, S
  <1>5. (1 .. (IF Len(good) < FileLimit THEN Len(good) ELSE FileLimit)) \subseteq 1 .. Len(good)
    BY <1>2, ProcessesAssumption
  <1> QED
    BY <1>3, <1>4, <1>5

LEMMA NothingDerived == DeriveProcesses({}, {}) = <<>>
  <1>1. Derived(DeriveProcesses({}, {}), {}, {})
    BY DerivedIs
  <1>2. Clients({}) \in Seq({} \cap WebClients) /\ Servers({}) \in Seq({})
    <2>1. {} \in SUBSET CompositionNodes /\ {} \in SUBSET ServerFiles
      OBVIOUS
    <2> QED
      BY <2>1, ClientsAre, ServersAre
  <1>3. Len(Clients({})) = 0 /\ Len(Servers({})) = 0
    BY <1>2
  <1> DEFINE procs == DeriveProcesses({}, {})
  <1>4. PICK U : procs \in Seq(U)
    BY <1>1 DEF Derived
  <1>5. Len(procs) = 0
    BY <1>1, <1>3 DEF Derived
  <1> HIDE DEF procs
  <1>6. procs = <<>>
    BY <1>4, <1>5
  <1> QED
    BY <1>6 DEF procs

LEMMA NoAppIs == ASSUME app = NoApp PROVE AppInv /\ EmissionTravels /\ DOMAIN app.procs = {}
  <1>1. /\ app.up = FALSE /\ app.procs = <<>> /\ app.files = {} /\ app.nodes = {} /\ app.servers = {}
        /\ app = [up |-> app.up, procs |-> app.procs, files |-> app.files, nodes |-> app.nodes,
                  servers |-> app.servers]
    BY DEF NoApp
  <1>2. AppInv
    BY <1>1, NothingDerived DEF AppInv
  <1> QED
    BY <1>1, <1>2 DEF EmissionTravels

LEMMA ProcessesInitially == ProcessesInit => ProcessesInv /\ RoutesAgree
  <1> SUFFICES ASSUME ProcessesInit PROVE ProcessesInv /\ RoutesAgree
    OBVIOUS
  <1>1. /\ composition = {} /\ emitted = {} /\ travels \in [ToSet(Sources) -> BOOLEAN]
        /\ app = NoApp /\ answer = NoAnswer /\ restarted = {}
    BY DEF ProcessesInit
  <1>2. AppInv /\ EmissionTravels
    BY <1>1, NoAppIs
  <1>3. AnswerInv
    BY <1>1 DEF AnswerInv, NoAnswer
  <1>4. RoutesAgree
    BY <1>1 DEF RoutesAgree, NoAnswer
  <1> QED
    BY <1>1, <1>2, <1>3, <1>4 DEF ProcessesInv, DocumentsInv

LEMMA ProcessesInvStep ==
    ASSUME ProcessesInv, [ProcessesNext]_processesVars
    PROVE  ProcessesInv'
  <1>1. DocumentsInv /\ AppInv /\ AnswerInv /\ EmissionTravels
    BY DEF ProcessesInv
  <1>2. ASSUME NEW u \in CompositionNodes, EditComposition(u) PROVE ProcessesInv'
    <2>1. composition' \in SUBSET CompositionNodes
      BY <1>1, <1>2 DEF EditComposition, DocumentsInv
    <2>2. answer' = NoAnswer /\ UNCHANGED <<emitted, travels, app, restarted>>
      BY <1>2 DEF EditComposition
    <2>3. DocumentsInv'
      BY <1>1, <2>1, <2>2 DEF DocumentsInv
    <2>4. AppInv' /\ EmissionTravels'
      BY <1>1, <2>2 DEF AppInv, EmissionTravels
    <2>5. AnswerInv'
      BY <1>1, <2>2 DEF AnswerInv, NoAnswer
    <2> QED
      BY <2>3, <2>4, <2>5 DEF ProcessesInv
  <1>3. ASSUME NEW files \in SUBSET ServerFiles, RunApp(files) PROVE ProcessesInv'
    <2>1. /\ emitted' = files /\ UNCHANGED <<composition, travels>> /\ restarted' = {}
          /\ app' = [up |-> TRUE, procs |-> DeriveProcesses(composition, files), files |-> SessionFiles(files),
                     nodes |-> composition, servers |-> files]
          /\ answer' = [by |-> "run", previews |-> Address(ClientProcs(composition, files)),
                        boundaries |-> Address(ServerProcs(composition, files))]
      BY <1>3 DEF RunApp
    <2>2. DocumentsInv'
      BY <1>1, <2>1 DEF DocumentsInv
    <2>3. SessionFiles(files) = Gathered \cup files /\ Gathered \subseteq ToSet(Sources)
      BY <1>1, GatheredAre DEF SessionFiles
    <2>4. composition \in SUBSET CompositionNodes
      BY <1>1 DEF DocumentsInv
    <2>5. AppInv'
      BY <2>1, <2>3, <2>4 DEF AppInv
    <2>6. EmissionTravels'
      BY <2>1, <2>3 DEF EmissionTravels
    <2>7. AnswerInv'
      BY <2>1 DEF AnswerInv
    <2> QED
      BY <2>2, <2>5, <2>6, <2>7 DEF ProcessesInv
  <1>4. ASSUME NEW files \in SUBSET ServerFiles, SyncToSession(files) PROVE ProcessesInv'
    <2>1. emitted' = files /\ UNCHANGED <<composition, travels>>
      BY <1>4 DEF SyncToSession
    <2>2. DocumentsInv'
      BY <1>1, <2>1 DEF DocumentsInv
    <2>3. CASE app.up
      <3>1. /\ app' = [app EXCEPT !.files = (@ \ emitted) \cup files]
            /\ restarted' \subseteq DOMAIN app.procs
            /\ answer' = [answer EXCEPT !.by = "sync"]
        BY <1>4, <2>3 DEF SyncToSession
      <3>2. /\ app' = [up |-> app.up, procs |-> app.procs, files |-> (app.files \ emitted) \cup files,
                       nodes |-> app.nodes, servers |-> app.servers]
        BY <1>1, <3>1 DEF AppInv
      <3>3. AppInv'
        BY <1>1, <3>2 DEF AppInv
      <3>4. EmissionTravels'
        BY <2>1, <3>2 DEF EmissionTravels
      <3>5. answer' = [by |-> "sync", previews |-> answer.previews, boundaries |-> answer.boundaries]
        BY <1>1, <3>1 DEF AnswerInv
      <3>6. AnswerInv'
        BY <3>1, <3>2, <3>5 DEF AnswerInv
      <3> QED
        BY <2>2, <3>3, <3>4, <3>6 DEF ProcessesInv
    <2>4. CASE ~app.up
      <3>1. UNCHANGED <<app, restarted, answer>>
        BY <1>4, <2>4 DEF SyncToSession
      <3>2. AppInv' /\ AnswerInv' /\ EmissionTravels'
        BY <1>1, <2>4, <3>1 DEF AppInv, AnswerInv, EmissionTravels
      <3> QED
        BY <2>2, <3>2 DEF ProcessesInv
    <2> QED
      BY <2>3, <2>4
  <1>5. CASE Status
    <2>1. /\ UNCHANGED <<composition, emitted, travels, app, restarted>>
          /\ answer' = [by |-> "status", previews |-> Address(Kept(app.procs, Previews)),
                        boundaries |-> Address(Kept(app.procs, ToSet(app.procs) \ Previews))]
      BY <1>5 DEF Status
    <2>2. DocumentsInv' /\ AppInv' /\ EmissionTravels'
      BY <1>1, <2>1 DEF DocumentsInv, AppInv, EmissionTravels
    <2>3. AnswerInv'
      BY <1>1, <2>1 DEF AnswerInv
    <2> QED
      BY <2>2, <2>3 DEF ProcessesInv
  <1>6. CASE StopApp
    <2>1. /\ UNCHANGED <<composition, emitted, travels>>
          /\ app' = NoApp /\ answer' = NoAnswer /\ restarted' = {}
      BY <1>6 DEF StopApp
    <2>2. DocumentsInv'
      BY <1>1, <2>1 DEF DocumentsInv
    <2>3. AppInv' /\ EmissionTravels'
      <3>1. /\ app'.up = FALSE /\ app'.procs = <<>> /\ app'.files = {} /\ app'.nodes = {} /\ app'.servers = {}
            /\ app' = [up |-> app'.up, procs |-> app'.procs, files |-> app'.files, nodes |-> app'.nodes,
                       servers |-> app'.servers]
        BY <2>1 DEF NoApp
      <3> QED
        BY <3>1, NothingDerived DEF AppInv, EmissionTravels
    <2>4. AnswerInv'
      BY <2>1 DEF AnswerInv, NoAnswer
    <2> QED
      BY <2>2, <2>3, <2>4 DEF ProcessesInv
  <1>7. CASE UNCHANGED processesVars
    BY <1>1, <1>7
       DEF processesVars, ProcessesInv, DocumentsInv, AppInv, AnswerInv, EmissionTravels
  <1> QED
    BY <1>2, <1>3, <1>4, <1>5, <1>6, <1>7 DEF ProcessesNext

LEMMA RoutesStep ==
    ASSUME NamesDiffer, ProcessesInv, RoutesAgree, [ProcessesNext]_processesVars
    PROVE  RoutesAgree'
  <1>1. CASE Status
    <2>1. /\ UNCHANGED <<composition, app>>
          /\ answer' = [by |-> "status", previews |-> Address(Kept(app.procs, Previews)),
                        boundaries |-> Address(Kept(app.procs, ToSet(app.procs) \ Previews))]
      BY <1>1 DEF Status
    <2> SUFFICES ASSUME composition = app.nodes
                 PROVE  /\ answer'.previews = Address(ClientProcs(app.nodes, app.servers))
                        /\ answer'.boundaries = Address(ServerProcs(app.nodes, app.servers))
      BY <2>1 DEF RoutesAgree
    <2>2. /\ app.nodes \in SUBSET CompositionNodes /\ app.servers \in SUBSET ServerFiles
          /\ app.procs = DeriveProcesses(app.nodes, app.servers)
      BY DEF ProcessesInv, AppInv
    <2>3. Previews = PreviewsOf(app.procs, app.nodes)
      BY DEF Previews, PreviewsOf
    <2>4. AgreeOn(app.procs, app.nodes, app.servers, Previews)
      BY <2>2, <2>3, RoutesAgreeOn
    <2> QED
      BY <2>1, <2>4 DEF AgreeOn
  <1>2. ASSUME NEW files \in SUBSET ServerFiles, SyncToSession(files) PROVE RoutesAgree'
    <2>1. CASE app.up
      <3>1. answer'.by = "sync"
        BY <1>2, <2>1 DEF SyncToSession, ProcessesInv, AnswerInv
      <3> QED
        BY <3>1 DEF RoutesAgree
    <2>2. CASE ~app.up
      BY <1>2, <2>2 DEF SyncToSession, RoutesAgree
    <2> QED
      BY <2>1, <2>2
  <1>3. CASE (\E u \in CompositionNodes : EditComposition(u)) \/ StopApp
    <2>1. answer'.by = "none"
      BY <1>3 DEF EditComposition, StopApp, NoAnswer
    <2> QED
      BY <2>1 DEF RoutesAgree
  <1>4. ASSUME NEW files \in SUBSET ServerFiles, RunApp(files) PROVE RoutesAgree'
    <2>1. answer'.by = "run"
      BY <1>4 DEF RunApp
    <2> QED
      BY <2>1 DEF RoutesAgree
  <1>5. CASE UNCHANGED processesVars
    BY <1>5 DEF processesVars, RoutesAgree
  <1> QED
    BY <1>1, <1>2, <1>3, <1>4, <1>5 DEF ProcessesNext

(* The action of RestartsTheServers.                                         *)
RestartsServers ==
    answer'.by = "sync" =>
        /\ \A i \in restarted' : ~app.procs[i].client
        /\ composition = app.nodes /\ emitted' = app.servers =>
              restarted' = {i \in DOMAIN app.procs : ~app.procs[i].client}

LEMMA RestartStep ==
    ASSUME NamesDiffer, ProcessesInv, [ProcessesNext]_processesVars
    PROVE  [RestartsServers]_<<app, answer, restarted>>
  <1>1. ASSUME NEW files \in SUBSET ServerFiles, SyncToSession(files), app.up PROVE RestartsServers
    <2> DEFINE procs == app.procs
               c == Len(Clients(app.nodes))
               n == Len(Servers(app.servers))
               R == RestartNames(composition, files)
    <2>1. /\ app.nodes \in SUBSET CompositionNodes /\ app.servers \in SUBSET ServerFiles
          /\ procs = DeriveProcesses(app.nodes, app.servers) /\ composition \in SUBSET CompositionNodes
      BY DEF ProcessesInv, AppInv, DocumentsInv
    <2>2. Derived(procs, app.nodes, app.servers)
      BY <2>1, DerivedIs
    <2>3. /\ \A i \in 1 .. c : procs[i].name \in app.nodes \cap WebClients
          /\ \A j \in 1 .. n : procs[c + j].name \notin WebClients
          /\ \A j, k \in 1 .. n : procs[c + j].name = procs[c + k].name => j = k
      <3>1. NamedApart(procs, app.nodes, app.servers)
        BY <2>1, <2>2, NamesOfDerived
      <3> QED
        BY <3>1 DEF NamedApart
    <2>4. c \in Nat /\ n \in Nat
      <3>1. Clients(app.nodes) \in Seq(app.nodes \cap WebClients)
        BY <2>1, ClientsAre
      <3>2. Servers(app.servers) \in Seq(app.servers)
        BY <2>1, ServersAre
      <3> QED
        BY <3>1, <3>2
    <2>5. /\ \A i \in 1 .. c : procs[i].client
          /\ \A j \in 1 .. n : ~procs[c + j].client /\
                               procs[c + j].name = ServerName(app.nodes, app.servers, Servers(app.servers)[j])
      BY <2>2 DEF Derived
    <2>6. DOMAIN procs = 1 .. c + n
      BY <2>1, <2>2, DerivedTypes
    <2>7. /\ emitted' = files
          /\ restarted' = {i \in DOMAIN procs :
                              /\ procs[i].name \in R
                              /\ \A k \in DOMAIN procs : procs[k].name = procs[i].name => i <= k}
      BY <1>1 DEF SyncToSession
    <2>8. \A u \in R : u \notin WebClients
      <3> SUFFICES ASSUME NEW j \in DOMAIN Servers(files)
                   PROVE  ServerProcs(composition, files)[j].name \notin WebClients
        BY DEF RestartNames
      <3>1. Servers(files) \in Seq(files)
        BY ServersAre
      <3>2. j \in 1 .. Len(Servers(files)) /\ Servers(files)[j] \in files
        BY <3>1
      <3>3. ServerProcs(composition, files)[j].name = ServerName(composition, files, Servers(files)[j])
        BY <2>1, <3>2, ServersNamed
      <3> QED
        BY <2>1, <3>2, <3>3, ServerNames
    <2>9. composition = app.nodes /\ files = app.servers => \A j \in 1 .. n : procs[c + j].name \in R
      <3> SUFFICES ASSUME composition = app.nodes, files = app.servers, NEW j \in 1 .. n
                   PROVE  procs[c + j].name \in R
        OBVIOUS
      <3>1. ServerProcs(app.nodes, app.servers)[j].name =
                ServerName(app.nodes, app.servers, Servers(app.servers)[j])
        BY <2>1, ServersNamed
      <3>2. Servers(app.servers) \in Seq(app.servers)
        BY <2>1, ServersAre
      <3>3. j \in DOMAIN Servers(files)
        BY <3>2
      <3> QED
        BY <2>5, <3>1, <3>3 DEF RestartNames
    <2> HIDE DEF procs, c, n, R
    <2>10. ASSUME NEW i \in 1 .. c + n PROVE i \in 1 .. c \/ (i - c \in 1 .. n /\ c + (i - c) = i)
      BY <2>4
    <2>11. \A i \in restarted' : ~procs[i].client
      <3> SUFFICES ASSUME NEW i \in restarted' PROVE ~procs[i].client
        OBVIOUS
      <3>1. i \in 1 .. c + n /\ procs[i].name \notin WebClients
        BY <2>6, <2>7, <2>8
      <3>2. i \notin 1 .. c
        BY <2>3, <3>1
      <3>3. i - c \in 1 .. n /\ c + (i - c) = i
        BY <2>10, <3>1, <3>2
      <3>4. ~procs[c + (i - c)].client
        BY <2>5, <3>3
      <3> QED
        BY <3>3, <3>4
    <2>12. ASSUME composition = app.nodes, files = app.servers, NEW i \in DOMAIN procs, ~procs[i].client
           PROVE  i \in restarted'
      <3>1. i \in 1 .. c + n /\ i \notin 1 .. c
        BY <2>5, <2>6, <2>12
      <3>2. i - c \in 1 .. n /\ c + (i - c) = i
        BY <2>10, <3>1
      <3>3. procs[i].name \in R /\ procs[i].name \notin WebClients
        <4>1. procs[c + (i - c)].name \in R /\ procs[c + (i - c)].name \notin WebClients
          BY <2>3, <2>9, <2>12, <3>2
        <4> QED
          BY <3>2, <4>1
      <3>4. ASSUME NEW k \in DOMAIN procs, procs[k].name = procs[i].name PROVE i <= k
        <4>1. k \in 1 .. c + n /\ k \notin 1 .. c
          BY <2>3, <2>6, <3>3, <3>4
        <4>2. k - c \in 1 .. n /\ c + (k - c) = k
          BY <2>10, <4>1
        <4>3. procs[c + (k - c)].name = procs[c + (i - c)].name
          BY <3>2, <3>4, <4>2
        <4>4. k - c = i - c
          BY <2>3, <3>2, <4>2, <4>3
        <4> QED
          BY <2>4, <3>1, <4>1, <4>4
      <3> QED
        BY <2>7, <3>3, <3>4
    <2>13. \A i \in restarted' : i \in DOMAIN procs
      BY <2>7
    <2>14. composition = app.nodes /\ files = app.servers =>
              restarted' = {i \in DOMAIN procs : ~procs[i].client}
      BY <2>11, <2>12, <2>13
    <2> QED
      BY <2>7, <2>11, <2>14 DEF RestartsServers, procs
  <1>2. ASSUME NEW files \in SUBSET ServerFiles, SyncToSession(files), ~app.up
        PROVE  UNCHANGED <<app, answer, restarted>>
    BY <1>2 DEF SyncToSession
  <1>3. CASE (\E u \in CompositionNodes : EditComposition(u)) \/ StopApp \/ Status
             \/ \E files \in SUBSET ServerFiles : RunApp(files)
    <2>1. answer'.by \in {"none", "status", "run"}
      BY <1>3 DEF EditComposition, StopApp, Status, RunApp, NoAnswer
    <2> QED
      BY <2>1 DEF RestartsServers
  <1>4. CASE UNCHANGED processesVars
    BY <1>4 DEF processesVars
  <1> QED
    BY <1>1, <1>2, <1>3, <1>4 DEF ProcessesNext

LEMMA TheProcessesAreSo ==
    ASSUME ProcessesInv
    PROVE  ProcessesTypeOK /\ AddressesPair /\ ClientsReachTheApi /\ EmissionTravels
  <1>1. /\ app.nodes \in SUBSET CompositionNodes /\ app.servers \in SUBSET ServerFiles
        /\ app.procs = DeriveProcesses(app.nodes, app.servers)
        /\ app.files \subseteq ToSet(Sources) \cup ServerFiles
    BY DEF ProcessesInv, AppInv
  <1>2. /\ DOMAIN app.procs = 1 .. Len(Clients(app.nodes)) + Len(Servers(app.servers))
        /\ \A i \in DOMAIN app.procs :
              app.procs[i].port \in PortBase .. PortBase + Cardinality(WebClients) + Cardinality(ServerFiles) - 1
    BY <1>1, DerivedIs, DerivedTypes
  <1>3. ProcessesTypeOK
    BY <1>1, <1>2 DEF ProcessesInv, DocumentsInv, AnswerInv, ProcessesTypeOK
  <1>4. AddressesPair
    BY <1>1, AddressesOfDerived
  <1>5. ClientsReachTheApi
    BY <1>1, ApiOfDerived
  <1> QED
    BY <1>3, <1>4, <1>5 DEF ProcessesInv

LEMMA ProcessesAlways == ProcessesSpec => []ProcessesInv
  <1>1. ProcessesInit => ProcessesInv
    BY ProcessesInitially
  <1>2. ProcessesInv /\ [ProcessesNext]_processesVars => ProcessesInv'
    BY ProcessesInvStep
  <1> QED
    BY <1>1, <1>2, PTL DEF ProcessesSpec

(* For any composition and any set of emitted servers, edited, run, synced   *)
(* and asked about in any order, whatever they are called, and any limit on  *)
(* files (session.ts:111-208): every address a process is told is another's, *)
(* none is shared, and the emission travels whole.                           *)
THEOREM AddressesArePaired ==
    ProcessesSpec => [](AddressesPair /\ ClientsReachTheApi /\ EmissionTravels)
  <1>1. ProcessesInv => AddressesPair /\ ClientsReachTheApi /\ EmissionTravels
    BY TheProcessesAreSo
  <1> QED
    BY <1>1, ProcessesAlways, PTL

(* And where no two servers share the stem of their file and no client is    *)
(* called like one, a sync restarts the servers and only them, and GET and   *)
(* POST name the same previews (session-routes.ts:124-131, 346-371).         *)
THEOREM ProcessesFindEachOther ==
    ASSUME NamesDiffer
    PROVE  ProcessesSpec => ProcessesHold
  <1>1. ProcessesInit => ProcessesInv /\ RoutesAgree
    BY ProcessesInitially
  <1>2. ProcessesInv /\ RoutesAgree /\ [ProcessesNext]_processesVars => ProcessesInv' /\ RoutesAgree'
    BY ProcessesInvStep, RoutesStep
  <1>3. ProcessesInv => AddressesPair /\ ClientsReachTheApi /\ EmissionTravels
    BY TheProcessesAreSo
  <1>4. ProcessesInv /\ [ProcessesNext]_processesVars =>
          [answer'.by = "sync" =>
             /\ \A i \in restarted' : ~app.procs[i].client
             /\ composition = app.nodes /\ emitted' = app.servers =>
                   restarted' = {i \in DOMAIN app.procs : ~app.procs[i].client}]_<<app, answer, restarted>>
    BY RestartStep DEF RestartsServers
  <1> QED
    BY <1>1, <1>2, <1>3, <1>4, PTL DEF ProcessesSpec, ProcessesHold, RestartsTheServers
=============================================================================
