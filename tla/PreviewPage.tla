---------------------------- MODULE PreviewPage -----------------------------
(***************************************************************************)
(* The page (src/internal/ui/index.go) while it previews selections: its   *)
(* fields, the preview it shows, the link and the button that come with    *)
(* it, and the stream for the bar that shows an indexing.  The visitor     *)
(* changes fields, and loads of the config put the choice of the preset    *)
(* back, at any time between two steps of a preview.                       *)
(***************************************************************************)
EXTENDS IndexProgress

CONSTANTS
  Place,       (* repository, ref and ad-hoc criteria, as the fields have them *)
  Preset,      (* the ids of presets; "" is none *)
  MaxChanges   (* bound: what the visitor does besides previews *)

Selection == [place : Place, preset : Preset]

(* A preview that is waited for, one that is shown, and a link *)
Waiting == [selection : Selection, private : BOOLEAN, stream : Stream,
            moved : BOOLEAN]
Shown == [selection : Selection, sealed : BOOLEAN, key : Selection,
          flag : BOOLEAN, late : BOOLEAN]
Link == [kind : {"private", "pinned", "plain"}, of : Selection]

ASSUME PreviewPageAssumption ==
  /\ MaxChanges \in Nat
  /\ "" \in Preset
  /\ None \notin Waiting \cup Shown \cup Link \cup Place

VARIABLES
  fields,    (* the selection in the fields, and whether "Private URL" is checked *)
  typed,     (* the place that the repository field had, once it is edited, or None *)
  busy,      (* state.busy *)
  waiting,   (* the preview that is waited for, or None *)
  source,    (* progressSource: the stream that is open, or None *)
  preview,   (* state.preview with its key and its flag, or None *)
  enabled,   (* the download button *)
  share,     (* the link that the page shows, or None *)
  loads,     (* answers under way: branches, configs, those to a button *)
  changes    (* how often the visitor has done something else *)

page == <<fields, typed, busy, waiting, source, preview, enabled, share, loads,
          changes>>
server == <<index, indexed, manager, told>>
vars == <<progressVars, page>>

Loads == {"branches", "config", "button"}

(* updateShareURL, with the fields and the preview as they are by now *)
ShareURL(now, shown) ==
  IF shown # None /\ shown.key = now.selection /\ shown.flag = now.private
  THEN [kind |-> IF shown.sealed THEN "private" ELSE "pinned",
        of |-> shown.selection]
  ELSE IF now.private THEN None
  ELSE [kind |-> "plain", of |-> now.selection]

UpdateShareURL == share' = ShareURL(fields', preview')

TypeOK ==
  /\ ProgressTyped
  /\ fields \in [selection : Selection, private : BOOLEAN]
  /\ typed \in Place \cup {None}
  /\ waiting \in Waiting \cup {None}
  /\ source \in Stream \cup {None}
  /\ preview \in Shown \cup {None}
  /\ busy = (waiting # None \/ loads["button"] > 0)
  /\ enabled = (preview # None)
  /\ loads \in [Loads -> 0..MaxChanges]
  /\ changes \in 0..MaxChanges

(* The config that a page loads at once if its address names a repository  *)
(* has come.                                                               *)
Init ==
  /\ InitProgress
  /\ fields \in [selection : Selection, private : {FALSE}]
  /\ typed = None /\ busy = FALSE
  /\ waiting = None /\ source = None /\ preview = None
  /\ enabled = FALSE
  /\ share = ShareURL(fields, None)
  /\ loads = [answer \in Loads |-> 0]
  /\ changes = 0
-----------------------------------------------------------------------------
(* What the visitor does to the fields *)

(* Variant: the button stays as it is. *)
InvalidateHalf == preview' = None /\ UNCHANGED enabled

Invalidate == preview' = None /\ enabled' = FALSE

(* History: the fields move while a preview is waited for. *)
Move(now) ==
  /\ fields' = now
  /\ waiting' = IF waiting = None \/ now = fields THEN waiting
                ELSE [waiting EXCEPT !.moved = TRUE]

Bounded == changes < MaxChanges /\ changes' = changes + 1

(* Whoever goes elsewhere in the page leaves the repository field first. *)
Act == typed = None /\ Bounded /\ UNCHANGED typed

(* A change event may come after the input events that made the change. *)
Change(now) ==
  /\ Act /\ Move(now)
  /\ UNCHANGED <<busy, source, server, stream>>

Start(answer) == loads' = [loads EXCEPT ![answer] = @ + 1]
Finish(answer) == loads[answer] > 0 /\ loads' = [loads EXCEPT ![answer] = @ - 1]

(* Variant: the fields are not part of what a preview depends on. *)
ChangeInputQuietly ==
  /\ \E now \in Selection : Change([fields EXCEPT !.selection = now])
  /\ UNCHANGED <<preview, enabled, loads>>
  /\ UpdateShareURL

(* The preset, the ad-hoc criteria, or the ref while it is being typed *)
ChangeInput ==
  /\ \E now \in Selection : Change([fields EXCEPT !.selection = now])
  /\ Invalidate /\ UpdateShareURL
  /\ UNCHANGED loads

(* A change of the ref loads branches and config anew. *)
ChangeRef ==
  /\ \E place \in Place : Change([fields EXCEPT !.selection.place = place])
  /\ Invalidate /\ UpdateShareURL
  /\ Start("branches")

(* An input event of the repository field only starts a search. *)
TypeRepo ==
  /\ \E place \in Place \ {fields.selection.place} :
       Move([fields EXCEPT !.selection.place = place])
  /\ \/ typed = None /\ typed' = fields.selection.place /\ Bounded
     \/ typed # None /\ UNCHANGED <<typed, changes>>
  /\ UNCHANGED <<busy, source, preview, enabled, share, loads, server, stream>>

(* The change event when the field is left; the link waits for the         *)
(* branches.                                                               *)
LeaveRepo ==
  /\ typed \notin {None, fields.selection.place} /\ typed' = None
  /\ Invalidate /\ Start("branches")
  /\ UNCHANGED <<fields, busy, waiting, source, share, changes, server, stream>>

(* No event: the field says again what it did. *)
LeaveRepoAsItWas ==
  /\ typed = fields.selection.place /\ typed' = None
  /\ UNCHANGED <<fields, busy, waiting, source, preview, enabled, share, loads,
                 changes, server, stream>>

CheckPrivate ==
  /\ Change([fields EXCEPT !.private = ~@])
  /\ UNCHANGED <<preview, enabled, loads>>
  /\ UpdateShareURL
-----------------------------------------------------------------------------
(* Loads of branches and configs, and the other buttons *)

(* onRepoChanged, and loadConfig after it *)
FinishBranches ==
  /\ loads["branches"] > 0
  /\ loads' = [loads EXCEPT !["branches"] = @ - 1, !["config"] = @ + 1]
  /\ UNCHANGED <<fields, typed, busy, waiting, source, preview, enabled, changes>>
  /\ UpdateShareURL
  /\ UNCHANGED <<server, stream>>

(* updatePresetDropdown fills the select anew, which chooses nothing; no   *)
(* event tells the page.                                                   *)
ResetPreset ==
  /\ Move([fields EXCEPT !.selection.preset = ""])
  /\ UNCHANGED <<source, preview, enabled, share, server, stream>>

FinishConfig ==
  /\ Finish("config") /\ ResetPreset
  /\ UNCHANGED <<typed, busy, changes>>

(* The visitor edits or removes a preset. *)
EditPreset == Act /\ ResetPreset /\ UNCHANGED <<busy, loads>>

(* Load Config, or Save *)
ClickButton ==
  /\ ~busy /\ Act
  /\ busy' = TRUE
  /\ Start("button")
  /\ UNCHANGED <<fields, waiting, source, preview, enabled, share, server, stream>>

FinishButtonLoad ==
  /\ Finish("button") /\ ResetPreset
  /\ busy' = FALSE
  /\ UNCHANGED <<typed, changes>>

(* The config is saved; or a load fails, of whatever. *)
FinishQuietly ==
  /\ \E answer \in Loads :
       /\ Finish(answer)
       /\ busy' = (busy /\ answer # "button")
  /\ UNCHANGED <<fields, typed, waiting, source, preview, enabled, share, changes,
                 server, stream>>
-----------------------------------------------------------------------------
(* previewSelection *)

Unused == {s \in Stream : stream[s].stage = "none"}

ClickPreview(s) ==
  /\ ~busy /\ typed = None /\ s \in Unused
  /\ busy' = TRUE
  /\ waiting' = [selection |-> fields.selection, private |-> fields.private,
                 stream |-> s, moved |-> FALSE]
  /\ source' = s
  /\ stream' = [stream EXCEPT ![s].stage = "resolve", ![s].open = TRUE]
  /\ UNCHANGED <<fields, typed, preview, enabled, share, loads, changes, server>>

(* Its request reaches the files of a commit, perhaps not the one that the *)
(* stream is resolved to; or the manifest is cached.                       *)
BeginPreview ==
  /\ waiting # None
  /\ \E c \in Commit : BeginIndexing(waiting.stream, c)
  /\ UNCHANGED <<page, indexed, manager, stream, told>>

Close == source' = None /\ stream' = [s \in Stream |-> [stream[s] EXCEPT !.open = FALSE]]

(* onerror *)
BreakStream ==
  /\ source # None
  /\ Close
  /\ UNCHANGED <<fields, typed, busy, waiting, preview, enabled, share, loads, changes,
                 server>>

EndPreview ==
  /\ waiting' = None /\ busy' = FALSE
  /\ Close
  /\ index' = [index EXCEPT ![waiting.stream] = NoIndexing]
  /\ UNCHANGED <<fields, typed, loads, changes, indexed, manager, told>>

(* The answer is taken for that of the fields as they are by now.  A link  *)
(* is sealed if it was to be and can be.                                   *)
FinishPreview ==
  /\ waiting # None /\ index[waiting.stream].stage \in {"none", "done"}
  /\ \E sealed \in {waiting.private, FALSE} :
       preview' = [selection |-> waiting.selection, sealed |-> sealed,
                   key |-> fields.selection, flag |-> fields.private,
                   late |-> waiting.moved]
  /\ enabled' = TRUE
  /\ EndPreview
  /\ UpdateShareURL

(* What was shown before stays. *)
FailPreview ==
  /\ waiting # None /\ index[waiting.stream].stage \in {"none", "done", "failed"}
  /\ EndPreview
  /\ UNCHANGED <<preview, enabled, share>>
-----------------------------------------------------------------------------
Visit ==
  \/ ChangeInput \/ ChangeRef \/ TypeRepo \/ LeaveRepo \/ LeaveRepoAsItWas
  \/ CheckPrivate \/ EditPreset \/ ClickButton
  \/ FinishBranches \/ FinishConfig \/ FinishButtonLoad
  \/ FinishQuietly \/ BreakStream

Answer == FinishPreview \/ FailPreview

Next ==
  \/ Visit \/ Answer \/ BeginPreview
  \/ \E s \in Stream : ClickPreview(s)
  \/ (\E s \in Stream : Index(s) \/ Serve(s)) /\ UNCHANGED page

Spec == Init /\ [][Next]_vars
-----------------------------------------------------------------------------
(* Whatever is changed, loaded or previewed meanwhile, the link of a       *)
(* preview is never shown with another preview.  And unless the fields had *)
(* moved by the time that it came, a preview is shown only while the       *)
(* fields select the same, but that an answered load or an edit may have   *)
(* put the preset to none, and that the repository may be being typed      *)
(* anew; its private link only while "Private URL" is checked.             *)
ShowsItsSelection ==
  preview # None =>
    /\ share # None /\ share.kind # "plain" =>
         /\ share.of = preview.selection
         /\ share.kind = "private" <=> preview.sealed
    /\ ~preview.late =>
         /\ share # None /\ share.kind = "private" => fields.private
         /\ fields.selection.preset \in {preview.selection.preset, ""}
         /\ fields.selection.place # preview.selection.place =>
              typed = preview.selection.place

(* A stream is open only while its preview is waited for, however the      *)
(* preview or the stream ends; and the lists hold the listeners of the     *)
(* handlers that run, under the commit that each was resolved to, so that  *)
(* none stays behind and none is lost.                                     *)
StreamsFollowPreviews ==
  /\ source # None => waiting # None /\ waiting.stream = source
  /\ \A s \in Stream :
       /\ stream[s].open <=> s = source
       /\ \A c \in Commit :
            s \in listeners[c] <=> /\ At(s, "greet") \/ At(s, "loop")
                                   /\ stream[s].commit = c
=============================================================================
