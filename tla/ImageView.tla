----------------------------- MODULE ImageView ------------------------------
(***************************************************************************)
(* The disk view of the graphical interface and the image it shows: the    *)
(* GUI thread (cb_floppy_infos_window.cxx, main_gui.cxx), the thread that  *)
(* draws the view (InfosThreadProc) and the threads that replace the       *)
(* loaded image (loader.cxx).  They share guicontext; only some of it is   *)
(* under critical section 1.                                               *)
(***************************************************************************)
EXTENDS Integers, FiniteSets

CONSTANTS
  Platforms,   (* subset of {"win32", "posix"}: the events they build on   *)
  MaxImages,   (* bound: images loaded                                     *)
  MaxClicks    (* bound: actions of the user                               *)

ASSUME ViewAssumption ==
  Platforms \subseteq {"win32", "posix"} /\ MaxImages \in Nat /\ MaxClicks \in Nat

VARIABLES
  platform,
  event,         (* event 10: "reset", "set" (win32 only)                  *)
  updating, updatefloppyinfos, trackviewerfloppy_updateneeded,
  loadedfloppy,  (* the image that guicontext points to, 0 for none        *)
  trackviewerfloppy,  (* the image the copy for the view was taken from    *)
  td,            (* the track display, counted up when it is replaced;     *)
                 (* never NULL: memory does not run out in this model      *)
  shown,         (* the window of the view is shown                        *)
  fits,          (* the display has the size of the window                 *)
  loading,
  gui,           (* where the GUI thread is                                *)
  cs1,           (* critical section 1 is held by the GUI thread           *)
  infos,         (* where InfosThreadProc is                               *)
  infos_td, src, (* its copies of td and of loadedfloppy                   *)
  threads,       (* where the threads replacing the image are              *)
  freed,         (* the images unloaded                                    *)
  made,          (* images made so far                                     *)
  clicks,        (* actions of the user so far                             *)
  asked,         (* history: a change asked to be shown, and the drawing   *)
                 (* thread took no copy since                              *)
  history        (* history: "overlap", two threads replaced the image at  *)
                 (* once; "twice", an image was unloaded twice; "lost",    *)
                 (* updating is set and a signal came between two waits    *)

flags == <<updating, updatefloppyinfos, trackviewerfloppy_updateneeded>>
image == <<loadedfloppy, freed, made, loading, threads>>
draw  == <<infos, infos_td, src>>
window == <<shown, fits>>
vars  == <<platform, event, flags, trackviewerfloppy, td, window, image, gui, cs1, draw,
           clicks, asked, history>>

\* Two loads of files (load_file), and one of an image made by a window.
FileLoaders == {"file", "again"}
Loaders == FileLoaders \union {"made"}

Click == clicks < MaxClicks /\ clicks' = clicks + 1

\* The user has just shown the window; nothing is loaded yet.
Init ==
  /\ platform \in Platforms /\ event = "reset"
  /\ updating = 0 /\ updatefloppyinfos = 0 /\ trackviewerfloppy_updateneeded = 0
  /\ loadedfloppy = 0 /\ trackviewerfloppy = 0 /\ td = 1 /\ loading = 0
  /\ shown = TRUE /\ fits = TRUE /\ asked = FALSE
  /\ gui = "idle" /\ cs1 = FALSE
  /\ infos = "top" /\ infos_td = 0 /\ src = 0
  /\ threads = [l \in Loaders |-> "off"]
  /\ freed = {} /\ made = 0 /\ clicks = 0 /\ history = {}

-----------------------------------------------------------------------------
(***************************************************************************)
(* hxc_setevent(10).  An event of Windows stays set until a thread waits   *)
(* for it; a condition variable wakes a thread that waits already, and the *)
(* signal is lost when none does.                                          *)
(***************************************************************************)
\* Mutant of SetEvent: the signal is lost on Windows too.
SetEventLost ==
  \/ /\ infos = "wait" /\ infos' = "woken" /\ UNCHANGED <<event, history>>
  \/ infos # "wait" /\ UNCHANGED <<event, infos, history>>

SetEvent ==
  \/ /\ infos = "wait" /\ infos' = "woken" /\ UNCHANGED <<event, history>>
  \/ /\ infos # "wait" /\ platform = "win32" /\ event' = "set" /\ UNCHANGED <<infos, history>>
  \/ /\ infos # "wait" /\ platform = "posix"
     /\ history' = IF updating = 1 /\ infos = "top" THEN history \union {"lost"} ELSE history
     /\ UNCHANGED <<event, infos>>

Unheld == ~cs1

-----------------------------------------------------------------------------
(***************************************************************************)
(* The GUI thread.  The user shows, hides and resizes the window.  Every   *)
(* 0.1 s, tick_infos acts when the window is shown and there is a display: *)
(* it replaces a display that has not the size of the window any more,     *)
(* unless it is being drawn, and else asks for a new view.                 *)
(***************************************************************************)
ShowHide ==
  /\ gui = "idle" /\ Click /\ shown' = ~shown
  /\ UNCHANGED <<platform, event, flags, trackviewerfloppy, td, fits, image, gui, cs1,
                 draw, asked, history>>

Resize ==
  /\ gui = "idle" /\ shown /\ Click /\ fits' = FALSE
  /\ UNCHANGED <<platform, event, flags, trackviewerfloppy, td, shown, image, gui, cs1,
                 draw, asked, history>>

MayTick == gui = "idle" /\ shown /\ td # 0

\* Mutant of MayReplace: the flag is not looked at.
MayReplaceAlways == TRUE

MayReplace == updating = 0

TickReplace ==
  /\ MayTick /\ ~fits /\ Unheld /\ MayReplace
  /\ td' = td + 1 /\ fits' = TRUE /\ updatefloppyinfos' = 1 /\ asked' = TRUE
  /\ UNCHANGED <<platform, event, updating, trackviewerfloppy_updateneeded,
                 trackviewerfloppy, shown, image, gui, cs1, draw, clicks, history>>

\* tick_infos asks for a new view, in three steps.
TickRequest ==
  /\ MayTick /\ fits /\ updatefloppyinfos = 1 /\ Unheld /\ updating = 0
  /\ updating' = 1 /\ updatefloppyinfos' = 0 /\ gui' = "requested"
  /\ UNCHANGED <<platform, event, trackviewerfloppy_updateneeded, trackviewerfloppy,
                 td, window, image, cs1, draw, clicks, asked, history>>

TickUpdateNeeded ==
  /\ gui = "requested" /\ trackviewerfloppy_updateneeded' = 1 /\ gui' = "signal"
  /\ UNCHANGED <<platform, event, updating, updatefloppyinfos, trackviewerfloppy,
                 td, window, image, cs1, draw, clicks, asked, history>>

TickSignal ==
  /\ gui = "signal" /\ SetEvent /\ gui' = "idle"
  /\ UNCHANGED <<platform, flags, trackviewerfloppy, td, window, image, cs1, infos_td, src,
                 clicks, asked>>

\* disk_infos_window_callback: a control of the window was moved.
MoveControl ==
  /\ gui = "idle" /\ shown /\ Click /\ SetEvent
  /\ UNCHANGED <<platform, flags, trackviewerfloppy, td, window, image, gui, cs1, infos_td,
                 src, asked>>

(***************************************************************************)
(* The mouse in the view (mouse_di_cb), which does nothing while the view  *)
(* is being drawn.  Which branch of FL_MOVE runs depends on the buttons    *)
(* before; here it is any of them.                                         *)
(***************************************************************************)
Mouse == gui = "idle" /\ shown /\ updating = 0 /\ Click

\* FL_MOVE over the view: the sectors under the mouse are looked up in the
\* lists of the track display, under critical section 1.
PointEnter ==
  /\ Mouse /\ Unheld /\ cs1' = TRUE /\ gui' = "pointing"
  /\ UNCHANGED <<platform, event, flags, trackviewerfloppy, td, window, image, draw,
                 asked, history>>

\* FL_PUSH: the left button sets a marker or edits the pulse under the mouse,
\* which is looked for in the list of pulses; the right one resets the zoom.
\* FL_MOVE after a drag sets the markers, from the list of pulses, or zooms.
\* None of them takes the critical section.
Push ==
  /\ Mouse /\ gui' = "pushing"
  /\ UNCHANGED <<platform, event, flags, trackviewerfloppy, td, window, image, cs1, draw,
                 asked, history>>

\* FL_MOVE after the left button was pressed: the kind of the view changes.
PushMove ==
  /\ Mouse /\ SetEvent
  /\ UNCHANGED <<platform, flags, trackviewerfloppy, td, window, image, gui, cs1, infos_td,
                 src, asked>>

\* An edit of a track of the loaded image, under critical section 1.
EditEnter ==
  /\ gui = "idle" /\ Unheld /\ Click /\ loadedfloppy # 0
  /\ cs1' = TRUE /\ gui' = "editing"
  /\ UNCHANGED <<platform, event, flags, trackviewerfloppy, td, window, image, draw,
                 asked, history>>

\* Mutants of Leave and Asked: the section stays taken; no view is asked for.
LeaveNot == UNCHANGED cs1
NotAsked(what) == updatefloppyinfos

Leave == cs1' = FALSE

\* A marker set by a button and an edit ask for a new view.
Asked(what) == IF what \in {"mark", "edit"} THEN 1 ELSE updatefloppyinfos

\* What the GUI thread may have done.
Deeds == CASE gui = "pointing" -> {"look"}
           [] gui = "pushing"  -> {"look", "mark", "edit", "signal"}
           [] gui = "editing"  -> {"edit"}
           [] OTHER            -> {}

\* The right button and the drag have the drawing thread draw at once.
GuiLeave ==
  /\ \E what \in Deeds :
       /\ updatefloppyinfos' = Asked(what)
       /\ asked' = (asked \/ what \in {"mark", "edit"})
       /\ IF what = "signal" THEN SetEvent ELSE UNCHANGED <<event, infos, history>>
  /\ Leave /\ gui' = "idle"
  /\ UNCHANGED <<platform, updating, trackviewerfloppy_updateneeded, trackviewerfloppy,
                 td, window, image, infos_td, src, clicks>>

-----------------------------------------------------------------------------
(***************************************************************************)
(* InfosThreadProc.                                                        *)
(***************************************************************************)
Infos(from, to) == infos = from /\ infos' = to

\* hxc_waitevent(10, 1000)
WaitEvent ==
  /\ infos = "top"
  /\ IF event = "set" THEN infos' = "woken" /\ event' = "reset"
     ELSE infos' = "wait" /\ UNCHANGED event
  /\ UNCHANGED <<platform, flags, trackviewerfloppy, td, window, image, gui, cs1,
                 infos_td, src, clicks, asked, history>>

TimeOut ==
  /\ Infos("wait", "top")
  /\ UNCHANGED <<platform, event, flags, trackviewerfloppy, td, window, image, gui,
                 cs1, infos_td, src, clicks, asked, history>>

\* A condition variable may also wake a thread for no reason.
WakeUp ==
  /\ platform = "posix" /\ Infos("wait", "woken")
  /\ UNCHANGED <<platform, event, flags, trackviewerfloppy, td, window, image, gui,
                 cs1, infos_td, src, clicks, asked, history>>

\* Mutant of Begin: the flag is set without the critical section.
BeginUnlocked ==
  /\ Infos("woken", "td") /\ updating' = 1
  /\ UNCHANGED <<platform, event, updatefloppyinfos, trackviewerfloppy_updateneeded,
                 trackviewerfloppy, td, window, image, gui, cs1, infos_td, src,
                 clicks, asked, history>>

Begin ==
  /\ Infos("woken", "td") /\ Unheld /\ updating' = 1
  /\ UNCHANGED <<platform, event, updatefloppyinfos, trackviewerfloppy_updateneeded,
                 trackviewerfloppy, td, window, image, gui, cs1, infos_td, src,
                 clicks, asked, history>>

TakeTd ==
  /\ Infos("td", "check") /\ infos_td' = td
  /\ UNCHANGED <<platform, event, flags, trackviewerfloppy, td, window, image, gui,
                 cs1, src, clicks, asked, history>>

\* Mutant of Drop: the copy is not made again.
DropOnly ==
  /\ infos = "check" /\ trackviewerfloppy_updateneeded = 1
  /\ trackviewerfloppy_updateneeded' = 0 /\ trackviewerfloppy' = 0 /\ infos' = "draw"
  /\ UNCHANGED <<platform, event, updating, updatefloppyinfos, td, window, image, gui,
                 cs1, infos_td, src, clicks, asked, history>>

\* The copy of the image is dropped, under critical section 2.
Drop ==
  /\ infos = "check" /\ trackviewerfloppy_updateneeded = 1
  /\ trackviewerfloppy_updateneeded' = 0 /\ trackviewerfloppy' = 0 /\ infos' = "take"
  /\ UNCHANGED <<platform, event, updating, updatefloppyinfos, td, window, image, gui,
                 cs1, infos_td, src, clicks, asked, history>>

\* The view asked for is of the same image, moved.
NothingToCopy ==
  /\ trackviewerfloppy_updateneeded = 0 /\ Infos("check", "draw")
  /\ UNCHANGED <<platform, event, flags, trackviewerfloppy, td, window, image, gui,
                 cs1, infos_td, src, clicks, asked, history>>

\* The image to copy; floppyDuplicate gives none for none.
Take ==
  /\ Infos("take", IF loadedfloppy = 0 THEN "draw" ELSE "copy")
  /\ src' = loadedfloppy /\ asked' = FALSE
  /\ UNCHANGED <<platform, event, flags, trackviewerfloppy, td, window, image, gui,
                 cs1, infos_td, clicks, history>>

\* hxcfe_floppyDuplicate, which reads the image to its end.
Copy ==
  /\ Infos("copy", "draw") /\ trackviewerfloppy' = src
  /\ UNCHANGED <<platform, event, flags, td, window, image, gui, cs1, infos_td, src,
                 clicks, asked, history>>

\* A view of another kind than the last one asks for one more.
Draw ==
  /\ Infos("draw", "drawn")
  /\ updatefloppyinfos' \in {updatefloppyinfos} \union (IF trackviewerfloppy = 0 THEN {} ELSE {1})
  /\ UNCHANGED <<platform, event, updating, trackviewerfloppy_updateneeded,
                 trackviewerfloppy, td, window, image, gui, cs1, infos_td, src,
                 clicks, asked, history>>

\* The picture is copied and the flag cleared.
Done ==
  /\ Infos("drawn", "top") /\ updating' = 0 /\ src' = 0 /\ infos_td' = 0
  /\ history' = history \ {"lost"}
  /\ UNCHANGED <<platform, event, updatefloppyinfos, trackviewerfloppy_updateneeded,
                 trackviewerfloppy, td, window, image, gui, cs1, clicks, asked>>

-----------------------------------------------------------------------------
(***************************************************************************)
(* The threads that replace the loaded image.  load_file lets one "file"   *)
(* load run at a time; load_floppy, called by the dump thread and by the   *)
(* windows that make an image, asks nobody.                                *)
(***************************************************************************)
At(l, from, to) == threads[l] = from /\ threads' = [threads EXCEPT ![l] = to]

Running == {l \in Loaders : threads[l] # "off"}

\* Mutant of MayLoad: a load is started while another one runs.
MayLoadAlways == TRUE

MayLoad == loading = 0

Overlap(l, others) ==
  history' = IF Running \intersect others # {} THEN history \union {"overlap"} ELSE history

\* The second name is for a load that is started while the first one runs.
LoadFile(l) ==
  /\ l \in FileLoaders /\ (l = "again" => threads["file"] # "off")
  /\ gui = "idle" /\ made < MaxImages /\ MayLoad
  /\ At(l, "off", "unload") /\ loading' = 1 /\ Overlap(l, {"made"})
  /\ UNCHANGED <<platform, event, flags, trackviewerfloppy, td, window, loadedfloppy, freed,
                 made, gui, cs1, draw, clicks, asked>>

LoadFloppy ==
  /\ made < MaxImages /\ At("made", "off", "unload") /\ Overlap("made", Loaders)
  /\ UNCHANGED <<platform, event, flags, trackviewerfloppy, td, window, loadedfloppy, freed,
                 made, loading, gui, cs1, draw, clicks, asked>>

\* hxcfe_imgUnload(imgldr_ctx, guicontext->loadedfloppy)
Unload(l) ==
  /\ At(l, "unload", IF l = "made" THEN "load" ELSE "clear")
  /\ freed' = freed \union ({loadedfloppy} \ {0})
  /\ history' = IF loadedfloppy \in freed THEN history \union {"twice"} ELSE history
  /\ UNCHANGED <<platform, event, flags, trackviewerfloppy, td, window, loadedfloppy, made,
                 loading, gui, cs1, draw, clicks, asked>>

Clear(l) ==
  /\ At(l, "clear", "load") /\ loadedfloppy' = 0
  /\ UNCHANGED <<platform, event, flags, trackviewerfloppy, td, window, freed, made, loading,
                 gui, cs1, draw, clicks, asked, history>>

\* The new image, or none when the file could not be loaded.
Load(l) ==
  /\ At(l, "load", "notify")
  /\ \/ made < MaxImages /\ made' = made + 1 /\ loadedfloppy' = made'
     \/ loadedfloppy' = 0 /\ UNCHANGED made
  /\ UNCHANGED <<platform, event, flags, trackviewerfloppy, td, window, freed, loading, gui,
                 cs1, draw, clicks, asked, history>>

\* guicontext->updatefloppyinfos++
Notify(l) ==
  /\ At(l, "notify", IF l = "made" THEN "off" ELSE "end")
  /\ updatefloppyinfos' = 1 /\ asked' = TRUE
  /\ UNCHANGED <<platform, event, updating, trackviewerfloppy_updateneeded,
                 trackviewerfloppy, td, window, loadedfloppy, freed, made, loading, gui, cs1,
                 draw, clicks, history>>

\* The end of loading_thread, which asks for the update once more.
EndLoad(l) ==
  /\ At(l, "end", "off") /\ updatefloppyinfos' = 1 /\ loading' = 0 /\ asked' = TRUE
  /\ UNCHANGED <<platform, event, updating, trackviewerfloppy_updateneeded,
                 trackviewerfloppy, td, window, loadedfloppy, freed, made, gui, cs1, draw,
                 clicks, history>>

-----------------------------------------------------------------------------
Tick      == TickReplace \/ TickRequest \/ TickUpdateNeeded \/ TickSignal
InfosStep == WaitEvent \/ TimeOut \/ Begin \/ TakeTd \/ Drop \/ NothingToCopy
             \/ Take \/ Copy \/ Draw \/ Done
LoadStep(l) == Unload(l) \/ Clear(l) \/ Load(l) \/ Notify(l) \/ EndLoad(l)

Next ==
  \/ Tick \/ ShowHide \/ Resize \/ MoveControl
  \/ PointEnter \/ Push \/ PushMove \/ EditEnter \/ GuiLeave
  \/ InfosStep \/ WakeUp
  \/ LoadFloppy \/ \E l \in Loaders : LoadFile(l) \/ LoadStep(l)

(***************************************************************************)
(* The timer of the GUI runs tick_infos for ever, which acts only when     *)
(* MayTick holds; the callbacks return, and every thread is scheduled.     *)
(* The user and the loads are free; nothing makes the user show the window.*)
(***************************************************************************)
Fairness ==
  /\ WF_vars(Tick) /\ WF_vars(GuiLeave) /\ WF_vars(InfosStep)
  /\ \A l \in Loaders : WF_vars(LoadStep(l))

Spec == Init /\ [][Next]_vars /\ Fairness

-----------------------------------------------------------------------------
\* Every variable has its type (s_gui_context and the places of the threads).
TypeOK ==
  /\ platform \in Platforms /\ event \in {"reset", "set"}
  /\ {updating, updatefloppyinfos, trackviewerfloppy_updateneeded, loading} \subseteq {0, 1}
  /\ loadedfloppy \in 0 .. made /\ trackviewerfloppy \in 0 .. made
  /\ src \in 0 .. made /\ freed \subseteq 1 .. made
  /\ made \in 0 .. MaxImages /\ clicks \in 0 .. MaxClicks
  /\ gui \in {"idle", "requested", "signal", "pointing", "pushing", "editing"}
  /\ td \in Nat \ {0} /\ shown \in BOOLEAN /\ fits \in BOOLEAN
  /\ asked \in BOOLEAN
  /\ cs1 \in BOOLEAN /\ (cs1 <=> gui \in {"pointing", "editing"})

Drawing == infos \in {"check", "take", "copy", "draw", "drawn"}

(***************************************************************************)
(* The track display is not replaced while the drawing thread uses it: the *)
(* thread reads guicontext->td outside the critical section, after it set  *)
(* updating inside it (cb_floppy_infos_window.cxx 302 and 392-398).  A     *)
(* display that is not replaced may still be changed by the mouse.         *)
(***************************************************************************)
DisplayKept == Drawing => infos_td = td

(***************************************************************************)
(* While the GUI thread looks for the sectors under the mouse (1235-1290,  *)
(* the branch of FL_MOVE without a button) the drawing thread is not at    *)
(* work on the lists of the display: both take critical section 1.  The    *)
(* buttons and the drag (1021-1121, 1147-1182) go through the list of      *)
(* pulses without the section, and nothing of the kind holds for them.     *)
(***************************************************************************)
PointingAlone == gui = "pointing" => ~Drawing /\ infos # "td"

(***************************************************************************)
(* When nothing is under way and no update is asked for, the view holds    *)
(* the loaded image, and every load, edit, marker and new size that asked  *)
(* for an update was drawn after it asked: no request is lost between the  *)
(* two flags, the tick and the drawing thread.                             *)
(***************************************************************************)
Quiet == /\ Running = {} /\ gui \notin {"requested", "signal"} /\ infos \in {"top", "wait"}
         /\ updatefloppyinfos = 0 /\ trackviewerfloppy_updateneeded = 0

ViewCurrent == Quiet => trackviewerfloppy = loadedfloppy /\ ~asked

(***************************************************************************)
(* When no thread replaces the image, the loaded image is not one that was *)
(* unloaded; and as long as load_floppy did not run next to another load,  *)
(* every other image was unloaded, once.                                   *)
(***************************************************************************)
ImagesReleased ==
  Running = {} =>
    /\ loadedfloppy \notin freed
    /\ "overlap" \notin history =>
         freed = (1 .. made) \ {loadedfloppy} /\ "twice" \notin history

(***************************************************************************)
(* The view is stuck -- updating stays set and nothing will clear it, so   *)
(* no tick asks for a view again -- only when a signal was lost, which the *)
(* events of Windows do not do (libhxcadaptor.c 141-152).                  *)
(***************************************************************************)
Stuck == /\ updating = 1 /\ infos \in {"top", "wait"} /\ event = "reset"
         /\ gui \notin {"requested", "signal"}

StuckByLostSignal == Stuck => platform = "posix" /\ "lost" \in history

(***************************************************************************)
(* With the events of Windows, and when the window stays shown from some   *)
(* time on, any load, edit, marker or new size that asks for an update is  *)
(* taken and drawn by a turn of the drawing thread that begins after it    *)
(* (tick_infos 289-353, InfosThreadProc).  The user's actions and the      *)
(* images are finitely many here: a window resized before every tick is    *)
(* never drawn.                                                            *)
(***************************************************************************)
WindowStays == <>[](shown /\ td # 0)

UpdateShown ==
  (platform = "win32" /\ WindowStays) => (asked ~> ~asked)
=============================================================================
