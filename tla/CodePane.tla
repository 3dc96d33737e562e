------------------------------- MODULE CodePane ------------------------------
(* The code takeover of the page (web/src/code/CodeContext.tsx): the files   *)
(* it lists, a tab for each that was read, what is typed in it, and the      *)
(* saves on their way to the API.  A step is one event of the browser with   *)
(* the effects it sets off, or what the API does with one request.           *)
(*                                                                           *)
(* The file in front and the active file of the level below are one thing:   *)
(* each of two effects carries a change of one over to the other.            *)
EXTENDS Naturals, FiniteSets

CONSTANTS
    CodeFiles,      \* paths of the project
    Contents,       \* what a file may say
    Puts,           \* bound: saves on their way at once
    NoFile

ASSUME CodePaneAssumption == NoFile \notin CodeFiles /\ Contents # {}

VARIABLES
    takeover,       \* the files listed; none while no code is in front
    openPath,
    tabs,           \* the files read: what was saved, and what is typed
    wanted,         \* the paths asked for, which are not asked for again
    fetching,       \* the path whose contents are on their way
    put,            \* each save: of what file, with what text, and how far
    generated,      \* the files Civil maintains, as the page knows them
    stored,         \* the files as the API has them
    crossed,        \* history: files saved twice at once, saved without an
                    \* answer, or changed by something else
    shut            \* history: files whose tab was closed

paneVars == <<takeover, openPath, tabs, wanted, fetching, put, generated, stored, crossed, shut>>

NoPut == [stage |-> "none", path |-> NoFile, text |-> CHOOSE t \in Contents : TRUE]
Tab   == [saved : Contents, draft : Contents]
Put   == [stage : {"none", "sent", "kept", "refused"}, path : CodeFiles \cup {NoFile}, text : Contents]

PaneTypeOK ==
    /\ takeover \subseteq CodeFiles
    /\ openPath \in takeover \cup {NoFile}
    /\ DOMAIN tabs \subseteq takeover /\ \A p \in DOMAIN tabs : tabs[p] \in Tab
    /\ wanted \subseteq takeover /\ fetching \in wanted \cup {NoFile}
    /\ put \in [Puts -> Put]
    /\ generated \subseteq CodeFiles /\ stored \in [CodeFiles -> Contents]
    /\ crossed \subseteq CodeFiles /\ shut \subseteq CodeFiles

PaneInit ==
    /\ takeover = {} /\ openPath = NoFile /\ tabs = <<>> /\ wanted = {} /\ fetching = NoFile
    /\ put = [s \in Puts |-> NoPut]
    /\ generated = {} /\ stored \in [CodeFiles -> Contents]
    /\ crossed = {} /\ shut = {}

-----------------------------------------------------------------------------
Without(f, p) == [o \in DOMAIN f \ {p} |-> f[o]]
Dirty(p) == p \in DOMAIN tabs /\ tabs[p].draft # tabs[p].saved
OnItsWay(p) == {s \in Puts : put[s].stage # "none" /\ put[s].path = p}

(* A file comes to the front: the fetch of the one before is aborted, which  *)
(* may then be asked for again; this one is asked for unless it was.         *)
ComesToFront(p) ==
    LET still == wanted \ {fetching}
    IN /\ openPath' = p
       /\ wanted' = IF p = openPath THEN wanted ELSE still \cup {p}
       /\ fetching' = IF p = openPath THEN fetching ELSE IF p \in still THEN NoFile ELSE p

(* Descending into a code node, or opening a file from the tree.             *)
DescendToCode(files, p) ==
    /\ takeover = {} /\ p \in files
    /\ takeover' = files /\ openPath' = p
    /\ wanted' = {p} /\ fetching' = p
    /\ UNCHANGED <<tabs, put, generated, stored, crossed, shut>>

(* Code does not nest: a file opened from the tree joins the list.           *)
OpenCodeFile(p) ==
    /\ takeover # {}
    /\ takeover' = takeover \cup {p}
    /\ ComesToFront(p)
    /\ UNCHANGED <<tabs, put, generated, stored, crossed, shut>>

(* A press in the list of files, or on a tab.                                *)
Pick(p) ==
    /\ p \in takeover
    /\ ComesToFront(p)
    /\ UNCHANGED <<takeover, tabs, put, generated, stored, crossed, shut>>

(* Escape: the pane goes, and what it held with it.                          *)
LeaveCode ==
    /\ takeover # {}
    /\ takeover' = {} /\ openPath' = NoFile /\ tabs' = <<>> /\ wanted' = {} /\ fetching' = NoFile
    /\ shut' = {}
    /\ UNCHANGED <<put, generated, stored, crossed>>

Fetched ==
    /\ fetching # NoFile
    /\ tabs' = [o \in DOMAIN tabs \cup {fetching} |->
                   IF o = fetching THEN [saved |-> stored[o], draft |-> stored[o]] ELSE tabs[o]]
    /\ fetching' = NoFile
    /\ crossed' = crossed \ {p \in {fetching} : OnItsWay(p) = {}}
    /\ UNCHANGED <<takeover, openPath, wanted, put, generated, stored, shut>>

(* A failed load may be tried again, once another file was in front.         *)
FetchFails ==
    /\ fetching # NoFile
    /\ wanted' = wanted \ {fetching} /\ fetching' = NoFile
    /\ UNCHANGED <<takeover, openPath, tabs, put, generated, stored, crossed, shut>>

(* A generated file is read-only.                                            *)
Type(text) ==
    /\ openPath \in DOMAIN tabs \ generated
    /\ tabs' = [tabs EXCEPT ![openPath].draft = text]
    /\ UNCHANGED <<takeover, openPath, wanted, fetching, put, generated, stored, crossed, shut>>

(* The tab goes; with the one in front, another comes to the front, or the   *)
(* file itself again, which was asked for already.                           *)
Close(p) ==
    /\ p \in DOMAIN tabs
    /\ tabs' = Without(tabs, p)
    /\ shut' = shut \cup {p}
    /\ IF p # openPath \/ DOMAIN tabs = {p}
       THEN UNCHANGED <<openPath, wanted, fetching>>
       ELSE \E o \in DOMAIN tabs \ {p} : ComesToFront(o)
    /\ UNCHANGED <<takeover, put, generated, stored, crossed>>

-----------------------------------------------------------------------------
(* The button waits for the save under way, Cmd+S does not; the one in       *)
(* Monaco heeds the list of generated files, the window's does not.          *)
PressSave(s) ==
    /\ put[s].stage = "none" /\ Dirty(openPath)
    /\ put' = [put EXCEPT ![s] = [stage |-> "sent", path |-> openPath, text |-> tabs[openPath].draft]]
    /\ crossed' = crossed \cup {p \in {openPath} : OnItsWay(p) # {}}
    /\ UNCHANGED <<takeover, openPath, tabs, wanted, fetching, generated, stored, shut>>

(* PUT file: the save of a generated file is refused, any may fail.          *)
Keep(s) ==
    /\ put[s].stage = "sent"
    /\ \/ /\ stored' = [stored EXCEPT ![put[s].path] = put[s].text]
          /\ put' = [put EXCEPT ![s].stage = "kept"]
       \/ put' = [put EXCEPT ![s].stage = "refused"] /\ UNCHANGED stored
    /\ UNCHANGED <<takeover, openPath, tabs, wanted, fetching, generated, crossed, shut>>

(* The answer: the text that was sent is the one that is saved.              *)
SaveLands(s) ==
    /\ put[s].stage = "kept"
    /\ tabs' = [p \in DOMAIN tabs |->
                   IF p = put[s].path THEN [tabs[p] EXCEPT !.saved = put[s].text] ELSE tabs[p]]
    /\ put' = [put EXCEPT ![s] = NoPut]
    /\ UNCHANGED <<takeover, openPath, wanted, fetching, generated, stored, crossed, shut>>

(* It says no, or it never comes.                                            *)
SaveFails(s) ==
    /\ put[s].stage \in {"refused", "kept"}
    /\ put' = [put EXCEPT ![s] = NoPut]
    /\ crossed' = IF put[s].stage = "kept" THEN crossed \cup {put[s].path} ELSE crossed
    /\ UNCHANGED <<takeover, openPath, tabs, wanted, fetching, generated, stored, shut>>

(* A discard, an undo, a sync, an Apply: the tab is not told.                *)
ChangedElsewhere(p, text) ==
    /\ text # stored[p]
    /\ stored' = [stored EXCEPT ![p] = text]
    /\ crossed' = crossed \cup {p}
    /\ UNCHANGED <<takeover, openPath, tabs, wanted, fetching, put, generated, shut>>

(* A refresh of the page brings a new list of generated files.               *)
Regenerated(p) ==
    /\ p \notin generated /\ generated' = generated \cup {p}
    /\ UNCHANGED <<takeover, openPath, tabs, wanted, fetching, put, stored, crossed, shut>>

PaneNext ==
    \/ \E files \in SUBSET CodeFiles, p \in CodeFiles : DescendToCode(files, p)
    \/ \E p \in CodeFiles : OpenCodeFile(p) \/ Pick(p) \/ Close(p) \/ Regenerated(p)
    \/ LeaveCode \/ Fetched \/ FetchFails
    \/ \E t \in Contents : Type(t)
    \/ \E s \in Puts : PressSave(s) \/ Keep(s) \/ SaveLands(s) \/ SaveFails(s)
    \/ \E p \in CodeFiles, t \in Contents : ChangedElsewhere(p, t)

PaneSpec == PaneInit /\ [][PaneNext]_paneVars

-----------------------------------------------------------------------------
(* A tab that shows no unsaved mark says what the API has: what was typed    *)
(* while a save was on its way is not hidden as clean                        *)
(* (CodeContext.tsx:125-127).  Two saves of one file at once may arrive in   *)
(* the other order, a save may be kept and its answer lost, and nothing      *)
(* tells a tab of a change made elsewhere: for such files nothing is said.   *)
CleanMeansKept ==
    \A p \in DOMAIN tabs \ crossed :
        ~Dirty(p) /\ OnItsWay(p) = {} => stored[p] = tabs[p].draft

(* What is typed stays until it is typed over or its tab is closed: neither  *)
(* an answer nor another file coming to the front takes it                   *)
(* (CodeContext.tsx:86-116).                                                 *)
DraftsStay ==
    [][\A p \in DOMAIN tabs : takeover' # {} =>
          \/ p \in DOMAIN tabs' /\ tabs'[p].draft = tabs[p].draft
          \/ p = openPath /\ p \in DOMAIN tabs'
          \/ p \in shut']_paneVars

(* The file in front is shown or on its way, unless its load failed while it *)
(* was in front, or its tab was closed before: then it says Opening for good *)
(* (CodeContext.tsx:91, 268-274).                                            *)
NotStuckOpening ==
    openPath # NoFile /\ openPath \in wanted /\ openPath \notin shut =>
        openPath \in DOMAIN tabs \/ fetching = openPath
=============================================================================
