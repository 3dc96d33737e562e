------------------------------- MODULE GitPanel ------------------------------
(* Source control as the author sees it: what the panel and the review of    *)
(* the diff show and offer (web/src/panes/SourceControl.tsx, DiffPanel.tsx), *)
(* the calls behind their buttons and what the page does with the answers    *)
(* (App.tsx), and what the API reads and says (http/git-routes.ts, the       *)
(* bundle of project-routes.ts).  A call is served in one step: what can     *)
(* come between its awaits is SourceControl's and Apply's.                   *)
EXTENDS Naturals, FiniteSets

CONSTANTS
    GitBranches, DefaultBranch,
    Sketched, Emitted,   \* the files: the author's documents, what Apply makes of them
    MaxTip,              \* bounds the commits of a branch
    MaxCalls             \* bounds the calls under way, for one in a hurry

VARIABLES
    hurried,       \* the author presses on before an answer has come
    onBranch,      \* the branch worked on
    behindSketch,  \* the code does not say what the documents say
    line,          \* what GitHub and the API have of each branch
    bundle,        \* what the page draws
    info, check,   \* the pinned commit, and GitHub's present: none, or one
    menu,          \* the branch menu with its list
    review,        \* the diff, while it is open
    doing,         \* the call of each kind, and how far it is
    reading        \* the reads of effects: info, list, diff

panelVars == <<hurried, onBranch, behindSketch, line, bundle, info, check, menu, review,
               doing, reading>>
serverVars == <<onBranch, behindSketch, line>>

PanelFiles == Sketched \cup Emitted
PanelCalls  == {"commit", "sync", "check", "branch", "apply", "file"}
PanelReads  == {"info", "list", "diff"}

ASSUME GitPanelAssumption ==
    /\ DefaultBranch \in GitBranches /\ MaxTip \in Nat \ {0} /\ MaxCalls \in Nat \ {0}
    /\ Sketched \cap Emitted = {}

-----------------------------------------------------------------------------
(* What the API answers.                                                     *)

Here == line[onBranch]

BundleNow == [branch |-> onBranch, pending |-> Here.pending, clash |-> Here.clash, stale |-> behindSketch]
InfoNow   == [branch |-> onBranch, head |-> Here.head, pr |-> Here.pr # "none"]

(* shapeCheck: behind is what the branch has and the author has not.         *)
CheckNow == [head |-> Here.head, behind |-> Here.tip - Here.head, pr |-> Here.pr]

(* GitHub's branches with the ones Civil has worked on.                      *)
ListNow == [current |-> onBranch, names |-> {br \in GitBranches : line[br].there \/ line[br].head # 0}]
DiffNow == Here.pending

Free == [stage |-> "none"]
NoRead == [stage |-> "none"]
Wanted  == [stage |-> "asked"]

(* The page has just been opened, on what was left pending before.          *)
PanelInit ==
    /\ hurried \in BOOLEAN
    /\ onBranch = DefaultBranch /\ behindSketch = FALSE
    /\ \E files \in {{}, PanelFiles} : line = [br \in GitBranches |->
                  [there |-> br = DefaultBranch, tip |-> 1, head |-> IF br = DefaultBranch THEN 1 ELSE 0,
                   pending |-> IF br = DefaultBranch THEN files ELSE {},
                   clash |-> {}, changed |-> {}, pr |-> "none"]]
    /\ bundle = BundleNow /\ info = {} /\ check = {}
    /\ menu = [open |-> FALSE, list |-> {}]
    /\ review = [open |-> FALSE, files |-> {}]
    /\ doing = [k \in PanelCalls |-> Free]
    /\ reading = [r \in PanelReads |-> IF r = "info" THEN Wanted ELSE NoRead]

-----------------------------------------------------------------------------
(* The buttons.                                                              *)

UnderWay == {k \in PanelCalls : doing[k] # Free}
Applying == doing["apply"] # Free
Unapplied == bundle.stale \/ Applying

(* A patient author lets every answer arrive before the next press.          *)
Press(k, call) ==
    /\ doing[k] = Free
    /\ IF hurried THEN Cardinality(UnderWay) < MaxCalls
       ELSE UnderWay = {} /\ \A r \in PanelReads : reading[r] = NoRead
    /\ doing' = [doing EXCEPT ![k] = call]

Sent(what, arg) == [stage |-> "sent", what |-> what, arg |-> arg]

Behind == {c \in check : c.behind > 0}

(* Why Commit is unavailable, but for the message.                           *)
Blocked == bundle.pending = {} \/ bundle.clash # {} \/ Unapplied \/ Behind # {}

PressCommit ==
    /\ ~Blocked /\ ~review.open
    /\ Press("commit", Sent("panel", bundle.pending))
    /\ UNCHANGED <<hurried, serverVars, bundle, info, check, menu, review, reading>>

(* The review has a button of its own, which closes it.                      *)
CommitReviewed ==
    /\ review.open /\ ~Unapplied
    /\ Press("commit", Sent("review", UNION review.files))
    /\ review' = [open |-> FALSE, files |-> {}]
    /\ reading' = [reading EXCEPT !["diff"] = NoRead]
    /\ UNCHANGED <<hurried, serverVars, bundle, info, check, menu>>

Review ==
    /\ ~review.open /\ bundle.pending # {}
    /\ hurried \/ UnderWay = {}
    /\ review' = [open |-> TRUE, files |-> {}]
    /\ reading' = [reading EXCEPT !["diff"] = Wanted]
    /\ UNCHANGED <<hurried, serverVars, bundle, info, check, menu, doing>>

CloseReview ==
    /\ review.open
    /\ review' = [open |-> FALSE, files |-> {}]
    /\ reading' = [reading EXCEPT !["diff"] = NoRead]
    /\ UNCHANGED <<hurried, serverVars, bundle, info, check, menu, doing>>

PressCheckOrSync(k) ==
    /\ k \in {"check", "sync"} /\ ~review.open
    /\ Press(k, Sent(k, {}))
    /\ UNCHANGED <<hurried, serverVars, bundle, info, check, menu, review, reading>>

PressApply ==
    /\ ~review.open /\ bundle.stale
    /\ Press("apply", Sent("apply", {}))
    /\ UNCHANGED <<hurried, serverVars, bundle, info, check, menu, review, reading>>

(* Discard, keep mine, take theirs; a conflicted file is listed once.        *)
PressFile(what, f) ==
    /\ ~review.open
    /\ \/ what = "save" /\ f \in Sketched
       \/ what = "discard" /\ f \in bundle.pending \ bundle.clash
       \/ what \in {"mine", "theirs"} /\ f \in bundle.clash
    /\ Press("file", Sent(what, f))
    /\ UNCHANGED <<hurried, serverVars, bundle, info, check, menu, review, reading>>

(* Opening the menu reads the list, closing it lets go of the read.          *)
ToggleMenu ==
    /\ ~review.open
    /\ menu' = IF menu.open THEN [menu EXCEPT !.open = FALSE] ELSE [open |-> TRUE, list |-> {}]
    /\ reading' = [reading EXCEPT !["list"] = IF menu.open THEN NoRead ELSE Wanted]
    /\ UNCHANGED <<hurried, serverVars, bundle, info, check, review, doing>>

(* gitBusy: one of these at a time.                                          *)
PressBranch(what, br) ==
    /\ menu.open /\ ~review.open
    /\ \/ what = "create"
       \/ what = "switch" /\ \E l \in menu.list : br \in l.names \ {l.current}
    /\ Press("branch", Sent(what, br))
    /\ UNCHANGED <<hurried, serverVars, bundle, info, check, menu, review, reading>>

(* A branch other than the default has a way back, until it has a pull       *)
(* request.                                                                  *)
Proposable == \E i \in info : i.branch # DefaultBranch /\ ~i.pr

PressOpenPr ==
    /\ ~review.open /\ Proposable
    /\ Press("branch", Sent("propose", onBranch))
    /\ UNCHANGED <<hurried, serverVars, bundle, info, check, menu, review, reading>>

-----------------------------------------------------------------------------
(* The API.                                                                  *)

Finish(k, answer) == doing' = [doing EXCEPT ![k] = [stage |-> "answered", says |-> answer]]
Refused(k) == doing' = [doing EXCEPT ![k] = [stage |-> "refused"]]
OnLine(br, new) == line' = [line EXCEPT ![br] = new]

Committed == [Here EXCEPT !.tip = @ + 1, !.head = Here.tip + 1, !.pending = {}]

(* Conflicts, the Apply gate, and GitHub, which takes no commit beside its   *)
(* own.                                                                      *)
ServeCommit ==
    /\ doing["commit"].stage = "sent"
    /\ IF Here.pending # {} /\ Here.clash = {} /\ ~behindSketch /\ Here.head = Here.tip
       THEN Here.tip < MaxTip /\ OnLine(onBranch, Committed) /\ Finish("commit", {})
       ELSE Refused("commit") /\ UNCHANGED line
    /\ UNCHANGED <<hurried, onBranch, behindSketch, bundle, info, check, menu, review, reading>>

(* Sync: a pending file that the new commits changed too is in conflict.     *)
ServeSync ==
    /\ doing["sync"].stage = "sent"
    /\ OnLine(onBranch, [Here EXCEPT !.head = Here.tip, !.changed = {},
                                     !.clash = @ \cup (Here.pending \cap Here.changed)])
    /\ Finish("sync", Here.head # Here.tip)
    /\ behindSketch' \in IF Here.head = Here.tip THEN {behindSketch} ELSE BOOLEAN
    /\ UNCHANGED <<hurried, onBranch, bundle, info, check, menu, review, reading>>

ServeCheck ==
    /\ doing["check"].stage = "sent"
    /\ Finish("check", CheckNow)
    /\ UNCHANGED <<hurried, serverVars, bundle, info, check, menu, review, reading>>

ServeApply ==
    /\ doing["apply"].stage = "sent"
    /\ \/ /\ behindSketch' = FALSE
          /\ OnLine(onBranch, [Here EXCEPT !.pending = @ \cup Emitted])
          /\ Finish("apply", {})
       \/ Refused("apply") /\ UNCHANGED <<behindSketch, line>>
    /\ UNCHANGED <<hurried, onBranch, bundle, info, check, menu, review, reading>>

ServeFile ==
    /\ doing["file"].stage = "sent"
    /\ LET f == doing["file"].arg IN
       \/ /\ doing["file"].what = "save"
          /\ OnLine(onBranch, [Here EXCEPT !.pending = @ \cup {f}]) /\ behindSketch' = TRUE
       \/ /\ doing["file"].what = "mine"
          /\ OnLine(onBranch, [Here EXCEPT !.clash = @ \ {f}]) /\ UNCHANGED behindSketch
       \/ /\ doing["file"].what \in {"discard", "theirs"}
          /\ OnLine(onBranch, [Here EXCEPT !.pending = @ \ {f}, !.clash = @ \ {f}])
          /\ behindSketch' \in BOOLEAN
    /\ Finish("file", {})
    /\ UNCHANGED <<hurried, onBranch, bundle, info, check, menu, review, reading>>

(* POST branches: made on GitHub at the author's commit, with their edits.   *)
ServeCreate ==
    /\ doing["branch"].stage = "sent" /\ doing["branch"].what = "create"
    /\ LET br == doing["branch"].arg IN
       IF line[br].there
       THEN Refused("branch") /\ UNCHANGED serverVars
       ELSE /\ line' = [line EXCEPT ![br] = [Here EXCEPT !.there = TRUE, !.tip = Here.head, !.pr = "none",
                                                        !.changed = {}],
                                    ![onBranch].pending = {}, ![onBranch].clash = {}]
            /\ onBranch' = br /\ Finish("branch", {}) /\ UNCHANGED behindSketch
    /\ UNCHANGED <<hurried, bundle, info, check, menu, review, reading>>

(* POST switch: back to the commit it was pinned at, or to GitHub's; the     *)
(* edits stay where they were made.                                          *)
ServeSwitch ==
    /\ doing["branch"].stage = "sent" /\ doing["branch"].what = "switch"
    /\ LET br == doing["branch"].arg IN
       IF br = onBranch
       THEN Finish("branch", {}) /\ UNCHANGED serverVars
       ELSE /\ OnLine(br, [line[br] EXCEPT !.head = IF @ = 0 THEN line[br].tip ELSE @])
            /\ onBranch' = br /\ behindSketch' \in BOOLEAN /\ Finish("branch", {})
    /\ UNCHANGED <<hurried, bundle, info, check, menu, review, reading>>

(* POST pulls: opened, or found open already; GitHub may have nothing to     *)
(* propose, and the default branch has nowhere to go.                        *)
ServePropose ==
    /\ doing["branch"].stage = "sent" /\ doing["branch"].what = "propose"
    /\ \/ /\ onBranch # DefaultBranch
          /\ OnLine(onBranch, [Here EXCEPT !.pr = IF @ = "none" THEN "open" ELSE @])
          /\ Finish("branch", {})
       \/ Refused("branch") /\ UNCHANGED line
    /\ UNCHANGED <<hurried, onBranch, behindSketch, bundle, info, check, menu, review, reading>>

(* The reads: the answer is what is there when the API looks.                *)
ServeRead(r) ==
    /\ reading[r].stage = "asked"
    /\ reading' = [reading EXCEPT ![r] = [stage |-> "answered",
                      says |-> CASE r = "info" -> InfoNow [] r = "list" -> ListNow [] r = "diff" -> DiffNow]]
    /\ UNCHANGED <<hurried, serverVars, bundle, info, check, menu, review, doing>>

ServeRefresh(k) ==
    /\ doing[k].stage = "refresh"
    /\ doing' = [doing EXCEPT ![k] = [stage |-> "refreshed", says |-> BundleNow]]
    /\ UNCHANGED <<hurried, serverVars, bundle, info, check, menu, review, reading>>

-----------------------------------------------------------------------------
(* The answers.                                                              *)

(* gitRevision: what was read is let go of, a read under way is aborted.     *)
ReadAgain ==
    /\ info' = {} /\ check' = {}
    /\ reading' = [reading EXCEPT !["info"] = Wanted]

Refreshing(k) == doing' = [doing EXCEPT ![k] = [stage |-> "refresh"]]

(* A commit, a branch or a pull request: the head moved, or what is known of *)
(* its branch did.                                                           *)
AnswerMove(k) ==
    /\ k \in {"commit", "branch"} /\ doing[k].stage = "answered"
    /\ Refreshing(k)
    /\ info' = {} /\ check' = {}
    /\ IF k = "branch"
       THEN /\ menu' = [menu EXCEPT !.open = FALSE]
            /\ reading' = [reading EXCEPT !["info"] = Wanted, !["list"] = NoRead]
       ELSE reading' = [reading EXCEPT !["info"] = Wanted] /\ UNCHANGED menu
    /\ UNCHANGED <<hurried, serverVars, bundle, review>>

(* A sync that moved nothing is not worth a refresh.                         *)
AnswerSync ==
    /\ doing["sync"].stage = "answered"
    /\ ReadAgain
    /\ IF doing["sync"].says THEN Refreshing("sync") ELSE doing' = [doing EXCEPT !["sync"] = Free]
    /\ UNCHANGED <<hurried, serverVars, bundle, menu, review>>

AnswerCheck ==
    /\ doing["check"].stage = "answered"
    /\ check' = {doing["check"].says}
    /\ doing' = [doing EXCEPT !["check"] = Free]
    /\ UNCHANGED <<hurried, serverVars, bundle, info, menu, review, reading>>

(* Files changed: nothing but the bundle is read again.                      *)
AnswerFiles(k) ==
    /\ k \in {"apply", "file"} /\ doing[k].stage = "answered"
    /\ Refreshing(k)
    /\ UNCHANGED <<hurried, serverVars, bundle, info, check, menu, review, reading>>

AnswerRefused(k) ==
    /\ doing[k].stage = "refused"
    /\ doing' = [doing EXCEPT ![k] = Free]
    /\ UNCHANGED <<hurried, serverVars, bundle, info, check, menu, review, reading>>

(* The bundle lands whenever it comes, and then the call is over.            *)
Refreshed(k) ==
    /\ doing[k].stage = "refreshed"
    /\ bundle' = doing[k].says
    /\ doing' = [doing EXCEPT ![k] = Free]
    /\ UNCHANGED <<hurried, serverVars, info, check, menu, review, reading>>

InfoLands ==
    /\ reading["info"].stage = "answered"
    /\ info' = {reading["info"].says}
    /\ reading' = [reading EXCEPT !["info"] = NoRead]
    /\ UNCHANGED <<hurried, serverVars, bundle, check, menu, review, doing>>

ListLands ==
    /\ reading["list"].stage = "answered"
    /\ menu' = [menu EXCEPT !.list = {reading["list"].says}]
    /\ reading' = [reading EXCEPT !["list"] = NoRead]
    /\ UNCHANGED <<hurried, serverVars, bundle, info, check, review, doing>>

DiffLands ==
    /\ reading["diff"].stage = "answered"
    /\ review' = [review EXCEPT !.files = {reading["diff"].says}]
    /\ reading' = [reading EXCEPT !["diff"] = NoRead]
    /\ UNCHANGED <<hurried, serverVars, bundle, info, check, menu, doing>>

(* What others do on GitHub.                                                 *)
PushedByOthers(br, files) ==
    /\ line[br].there /\ line[br].tip < MaxTip
    /\ OnLine(br, [line[br] EXCEPT !.tip = @ + 1, !.changed = IF line[br].head = 0 THEN {} ELSE @ \cup files])
    /\ UNCHANGED <<hurried, onBranch, behindSketch, bundle, info, check, menu, review, doing, reading>>

Merged(br) ==
    /\ line[br].pr = "open"
    /\ OnLine(br, [line[br] EXCEPT !.pr = "merged"])
    /\ UNCHANGED <<hurried, onBranch, behindSketch, bundle, info, check, menu, review, doing, reading>>

-----------------------------------------------------------------------------
Pressed ==
    \/ PressCommit \/ CommitReviewed \/ Review \/ CloseReview
    \/ \E k \in {"check", "sync"} : PressCheckOrSync(k)
    \/ PressApply \/ ToggleMenu \/ PressOpenPr
    \/ \E what \in {"save", "discard", "mine", "theirs"}, f \in PanelFiles : PressFile(what, f)
    \/ \E what \in {"create", "switch"}, br \in GitBranches : PressBranch(what, br)

Served ==
    \/ ServeCommit \/ ServeSync \/ ServeCheck \/ ServeApply \/ ServeFile
    \/ ServeCreate \/ ServeSwitch \/ ServePropose
    \/ \E r \in PanelReads : ServeRead(r)
    \/ \E k \in PanelCalls : ServeRefresh(k)

Answered ==
    \/ \E k \in PanelCalls : AnswerMove(k) \/ AnswerFiles(k) \/ AnswerRefused(k) \/ Refreshed(k)
    \/ AnswerSync \/ AnswerCheck \/ InfoLands \/ ListLands \/ DiffLands

OnGitHub ==
    \/ \E br \in GitBranches, files \in {{f} : f \in PanelFiles} : PushedByOthers(br, files)
    \/ \E br \in GitBranches : Merged(br)

PanelNext == Pressed \/ Served \/ Answered \/ OnGitHub

PanelSpec == PanelInit /\ [][PanelNext]_panelVars

-----------------------------------------------------------------------------
Line == [there : BOOLEAN, tip : 1..MaxTip, head : 0..MaxTip, pending : SUBSET PanelFiles,
         clash : SUBSET PanelFiles, changed : SUBSET PanelFiles, pr : {"none", "open", "merged"}]

PanelTypeOK ==
    /\ hurried \in BOOLEAN /\ onBranch \in GitBranches /\ behindSketch \in BOOLEAN
    /\ line \in [GitBranches -> Line] /\ Here.head # 0
    /\ \A br \in GitBranches : line[br].head <= line[br].tip /\ line[br].clash \subseteq line[br].pending
    /\ Cardinality(info) <= 1 /\ Cardinality(check) <= 1
    /\ DOMAIN doing = PanelCalls /\ DOMAIN reading = PanelReads

(* What the panel says of the commit the author is on is so, unless a call   *)
(* that changed it has not been answered: however calls and reads overlap,   *)
(* the read that counts is the one after the last answer, and the others are *)
(* aborted (App.tsx:901-914, 937-947).                                       *)
MovedUnanswered == \E k \in {"commit", "sync", "branch"} : doing[k].stage = "answered"
InfoIsSo == info # {} /\ ~MovedUnanswered => info = {InfoNow}

(* For an author who lets answers arrive, the panel lists what is pending    *)
(* and in conflict, what GitHub said when asked is of the commit the author  *)
(* is on ("dropped whenever the head moves", App.tsx:213-215), and a branch  *)
(* picked from the menu is another than the one they are on.                 *)
Resting == UnderWay = {} /\ \A r \in PanelReads : reading[r] = NoRead
PanelIsSo ==
    ~hurried =>
        /\ Resting => bundle = BundleNow
        /\ \A c \in check : MovedUnanswered \/ c.head = Here.head
        /\ Resting /\ menu.open => menu.list # {} /\ \A l \in menu.list : l.current = onBranch

(* For that author a commit is refused only because GitHub moved, and one    *)
(* from the review takes no file the review did not show                     *)
(* (SourceControl.tsx:153-178, DiffPanel.tsx:79-87, App.tsx:209-210).        *)
CommitServed == doing["commit"].stage = "sent" /\ doing'["commit"].stage # "sent"
CommitIsAsShown ==
    [][~hurried /\ CommitServed =>
          IF doing["commit"].what = "review" THEN Here.pending \subseteq doing["commit"].arg
          ELSE Here.head = Here.tip => doing'["commit"].stage = "answered"]_panelVars
=============================================================================
