--------------------------- MODULE ImageViewProofs ---------------------------
(***************************************************************************)
(* Proofs about ImageView, for any number of images and actions of the     *)
(* user.  The invariant is a conjunction of parts, and a lemma for each    *)
(* part shows that every action keeps it.                                  *)
(***************************************************************************)
EXTENDS ImageView, TLAPS

Stages == {"off", "unload", "clear", "load", "notify", "end"}

Places == {"top", "wait", "woken", "td", "check", "take", "copy", "draw", "drawn"}

Types == TypeOK /\ threads \in [Loaders -> Stages] /\ infos \in Places

\* The drawing thread is at work on the display, or about to take it.
Busy == infos \in {"td", "check", "take", "copy", "draw", "drawn"}

\* While the drawing thread is at work the flag updating is set.
Flagged == Busy => updating = 1

\* The flag is set only as long as somebody is to clear it, or a signal was lost.
Awake ==
  /\ updating = 1 => \/ Busy \/ infos = "woken" \/ event = "set"
                     \/ gui \in {"requested", "signal"} \/ "lost" \in history
  /\ "lost" \in history => platform = "posix"

\* Loads of files exclude one another through the flag loading.
Serial ==
  /\ (threads["file"] # "off" \/ threads["again"] # "off") => loading = 1
  /\ threads["file"] = "off" \/ threads["again"] = "off"
  /\ threads["made"] \notin {"clear", "end"}

\* A thread has unloaded the image and not loaded the next one yet.
Between == \E l \in Loaders : threads[l] \in {"clear", "load"}

\* An unloaded image stays the loaded one only until the thread goes on.
Reloading == loadedfloppy \in freed => Between

\* Without overlap there is one thread, and every other image is unloaded once.
OneByOne ==
  "overlap" \notin history =>
    /\ "twice" \notin history
    /\ \A l, m \in Loaders : threads[l] # "off" /\ threads[m] # "off" => l = m
    /\ Between => freed = 1 .. made
    /\ ~Between => freed = (1 .. made) \ {loadedfloppy}

Current ==
  trackviewerfloppy = loadedfloppy /\ ~asked

\* The view is current, or an update of it is on its way.
OnItsWay ==
  /\ \/ Current /\ infos # "copy"
     \/ updatefloppyinfos = 1 \/ trackviewerfloppy_updateneeded = 1
     \/ gui = "requested" \/ infos = "take"
     \/ infos = "copy" /\ src = loadedfloppy /\ ~asked
     \/ \E l \in Loaders : threads[l] # "off"
  /\ infos \in {"take", "copy"} => trackviewerfloppy = 0

IInv ==
  /\ Types /\ Flagged /\ DisplayKept /\ PointingAlone /\ Awake /\ Serial
  /\ Reloading /\ OneByOne /\ OnItsWay

LEMMA InitIInv == Init => IInv
<1> SUFFICES ASSUME Init PROVE IInv
  OBVIOUS
<1> USE DEF Init
<1>8. /\ updating = 0 /\ updatefloppyinfos = 0 /\ trackviewerfloppy_updateneeded = 0
      /\ loading = 0 /\ loadedfloppy = 0 /\ trackviewerfloppy = 0 /\ src = 0 /\ made = 0
      /\ freed = {} /\ clicks = 0 /\ gui = "idle" /\ cs1 = FALSE /\ event = "reset"
      /\ platform \in Platforms /\ td = 1 /\ shown = TRUE /\ fits = TRUE /\ asked = FALSE
  OBVIOUS
<1>6. TypeOK
  <2>1. 0 \in 0 .. MaxImages /\ 0 \in 0 .. MaxClicks /\ 0 \in 0 .. 0
    BY ViewAssumption
  <2>2. 1 \in Nat \ {0} /\ TRUE \in BOOLEAN /\ FALSE \in BOOLEAN
    OBVIOUS
  <2> QED  BY <1>8, <2>1, <2>2 DEF TypeOK
<1>7. threads \in [Loaders -> Stages] /\ infos \in Places
  BY DEF Stages, Loaders, FileLoaders, Places
<1>1. Types
  BY <1>6, <1>7 DEF Types
<1>2. Flagged /\ DisplayKept /\ PointingAlone /\ Awake
  BY DEF Flagged, Busy, DisplayKept, Drawing, PointingAlone, Awake
<1>3. Serial /\ Reloading
  BY DEF Serial, Loaders, FileLoaders, Reloading
<1>4. OneByOne
  BY DEF OneByOne, Between, Loaders, FileLoaders
<1>5. OnItsWay
  BY DEF OnItsWay, Current
<1> QED
  BY <1>1, <1>2, <1>3, <1>4, <1>5 DEF IInv

\* What the GUI thread leaves behind it: an edit asks for a new view, and
\* what signals changes no image.
LEMMA Left ==
  ASSUME GuiLeave, asked \in BOOLEAN
  PROVE  /\ gui \in {"pointing", "pushing", "editing"} /\ gui' = "idle"
         /\ \/ SetEvent /\ asked' = asked /\ updatefloppyinfos' = updatefloppyinfos
            \/ /\ UNCHANGED <<event, infos, history>>
               /\ \/ asked' = asked /\ updatefloppyinfos' = updatefloppyinfos
                  \/ asked' = TRUE /\ updatefloppyinfos' = 1
<1>1. PICK what \in Deeds :
        /\ updatefloppyinfos' = Asked(what)
        /\ asked' = (asked \/ what \in {"mark", "edit"})
        /\ IF what = "signal" THEN SetEvent ELSE UNCHANGED <<event, infos, history>>
  BY DEF GuiLeave
<1>2. gui \in {"pointing", "pushing", "editing"} /\ gui' = "idle"
  BY <1>1 DEF Deeds, GuiLeave
<1>3. CASE what \in {"mark", "edit"}
  BY <1>1, <1>2, <1>3 DEF Asked
<1>4. CASE what \notin {"mark", "edit"}
  <2>1. asked' = asked /\ updatefloppyinfos' = updatefloppyinfos
    BY <1>1, <1>4 DEF Asked
  <2> QED  BY <1>1, <1>2, <2>1
<1> QED
  BY <1>3, <1>4

\* Every action keeps the types.
LEMMA TypesStep ==
  ASSUME Types, [Next]_vars
  PROVE  Types'
<1> USE DEF Types, TypeOK, Stages, Places, Loaders, FileLoaders, flags, image, draw, window
<1>1. CASE TickRequest
  BY <1>1, ViewAssumption DEF TickRequest, Unheld, MayTick
<1>2. CASE TickUpdateNeeded
  BY <1>2, ViewAssumption DEF TickUpdateNeeded
<1>3. CASE TickSignal
  BY <1>3, ViewAssumption DEF TickSignal, SetEvent
<1>4. CASE TickReplace
  <2>1. td' \in Nat \ {0}
    BY <1>4 DEF TickReplace
  <2>2. asked' \in BOOLEAN /\ fits' \in BOOLEAN /\ shown' \in BOOLEAN
    BY <1>4 DEF TickReplace
  <2> QED  BY <1>4, <2>1, <2>2, ViewAssumption DEF TickReplace, MayTick, MayReplace, Unheld
<1>29. CASE ShowHide
  BY <1>29, ViewAssumption DEF ShowHide, Click
<1>30. CASE Resize
  <2>1. clicks' \in 0 .. MaxClicks
    BY <1>30, ViewAssumption DEF Resize, Click
  <2>2. fits' \in BOOLEAN /\ UNCHANGED <<platform, event, flags, trackviewerfloppy, td,
                                       shown, image, gui, cs1, draw, asked, history>>
    BY <1>30 DEF Resize
  <2> QED  BY <2>1, <2>2
<1>31. CASE PushMove
  BY <1>31, ViewAssumption DEF PushMove, Mouse, SetEvent, Click
<1>5. CASE MoveControl
  BY <1>5, ViewAssumption DEF MoveControl, SetEvent, Click
<1>6. CASE PointEnter
  BY <1>6, ViewAssumption DEF PointEnter, Mouse, Unheld, Click
<1>7. CASE Push
  BY <1>7, ViewAssumption DEF Push, Mouse, Click
<1>8. CASE EditEnter
  BY <1>8, ViewAssumption DEF EditEnter, Unheld, Click
<1>9. CASE GuiLeave
  BY <1>9, ViewAssumption DEF GuiLeave, Leave, Asked, SetEvent, Deeds
<1>10. CASE WaitEvent
  BY <1>10, ViewAssumption DEF WaitEvent
<1>11. CASE TimeOut
  BY <1>11, ViewAssumption DEF TimeOut, Infos
<1>12. CASE Begin
  BY <1>12, ViewAssumption DEF Begin, Infos, Unheld
<1>13. CASE TakeTd
  BY <1>13, ViewAssumption DEF TakeTd, Infos
<1>14. CASE Drop
  BY <1>14, ViewAssumption DEF Drop
<1>15. CASE NothingToCopy
  BY <1>15, ViewAssumption DEF NothingToCopy, Infos
<1>16. CASE Take
  BY <1>16, ViewAssumption DEF Take, Infos
<1>17. CASE Copy
  BY <1>17, ViewAssumption DEF Copy, Infos
<1>18. CASE Draw
  BY <1>18, ViewAssumption DEF Draw, Infos
<1>19. CASE Done
  BY <1>19, ViewAssumption DEF Done, Infos
<1>20. CASE WakeUp
  BY <1>20, ViewAssumption DEF WakeUp, Infos
<1>21. CASE LoadFloppy
  BY <1>21, ViewAssumption DEF LoadFloppy, At, Overlap, Running
<1>22. ASSUME NEW l \in Loaders, LoadFile(l) PROVE Types'
  BY <1>22, ViewAssumption DEF LoadFile, At, Overlap, Running, MayLoad
<1>23. ASSUME NEW l \in Loaders, Unload(l) PROVE Types'
  BY <1>23, ViewAssumption DEF Unload, At
<1>24. ASSUME NEW l \in Loaders, Clear(l) PROVE Types'
  BY <1>24, ViewAssumption DEF Clear, At
<1>25. ASSUME NEW l \in Loaders, Load(l) PROVE Types'
  BY <1>25, ViewAssumption DEF Load, At
<1>26. ASSUME NEW l \in Loaders, Notify(l) PROVE Types'
  BY <1>26, ViewAssumption DEF Notify, At
<1>27. ASSUME NEW l \in Loaders, EndLoad(l) PROVE Types'
  BY <1>27, ViewAssumption DEF EndLoad, At
<1>28. CASE UNCHANGED vars
  BY <1>28 DEF vars
<1> QED
  BY <1>1, <1>2, <1>3, <1>4, <1>5, <1>6, <1>7, <1>8, <1>9, <1>10, <1>11,
     <1>12, <1>13, <1>14, <1>15, <1>16, <1>17, <1>18, <1>19, <1>20, <1>21,
     <1>22, <1>23, <1>24, <1>25, <1>26, <1>27, <1>28, <1>29, <1>30, <1>31
     DEF Next, Tick, InfosStep, LoadStep

\* The flag updating is set before the display is taken, and cleared after.
LEMMA FlaggedStep ==
  ASSUME Types, Flagged, [Next]_vars
  PROVE  Flagged'
<1> USE DEF Types, TypeOK, Flagged, Busy, flags, image, draw, window
<1>1. CASE TickRequest
  BY <1>1 DEF TickRequest, Unheld, MayTick
<1>2. CASE TickUpdateNeeded
  BY <1>2 DEF TickUpdateNeeded
<1>3. CASE TickSignal
  BY <1>3 DEF TickSignal, SetEvent
<1>4. CASE TickReplace
  BY <1>4 DEF TickReplace, MayTick, MayReplace, Unheld
<1>29. CASE ShowHide
  BY <1>29 DEF ShowHide, Click
<1>30. CASE Resize
  BY <1>30 DEF Resize, Click
<1>31. CASE PushMove
  BY <1>31 DEF PushMove, Mouse, SetEvent, Click
<1>5. CASE MoveControl
  BY <1>5 DEF MoveControl, SetEvent, Click
<1>6. CASE PointEnter
  BY <1>6 DEF PointEnter, Mouse, Unheld, Click
<1>7. CASE Push
  BY <1>7 DEF Push, Mouse, Click
<1>8. CASE EditEnter
  BY <1>8 DEF EditEnter, Unheld, Click
<1>9. CASE GuiLeave
  BY <1>9 DEF GuiLeave, Leave, Asked, SetEvent, Deeds
<1>10. CASE WaitEvent
  BY <1>10 DEF WaitEvent
<1>11. CASE TimeOut
  BY <1>11 DEF TimeOut, Infos
<1>12. CASE Begin
  BY <1>12 DEF Begin, Infos, Unheld
<1>13. CASE TakeTd
  BY <1>13 DEF TakeTd, Infos
<1>14. CASE Drop
  BY <1>14 DEF Drop
<1>15. CASE NothingToCopy
  BY <1>15 DEF NothingToCopy, Infos
<1>16. CASE Take
  BY <1>16 DEF Take, Infos
<1>17. CASE Copy
  BY <1>17 DEF Copy, Infos
<1>18. CASE Draw
  BY <1>18 DEF Draw, Infos
<1>19. CASE Done
  BY <1>19 DEF Done, Infos
<1>20. CASE WakeUp
  BY <1>20 DEF WakeUp, Infos
<1>21. CASE LoadFloppy
  BY <1>21 DEF LoadFloppy, At, Overlap, Running
<1>22. ASSUME NEW l \in Loaders, LoadFile(l) PROVE Flagged'
  BY <1>22 DEF LoadFile, At, Overlap, Running, MayLoad
<1>23. ASSUME NEW l \in Loaders, Unload(l) PROVE Flagged'
  BY <1>23 DEF Unload, At
<1>24. ASSUME NEW l \in Loaders, Clear(l) PROVE Flagged'
  BY <1>24 DEF Clear, At
<1>25. ASSUME NEW l \in Loaders, Load(l) PROVE Flagged'
  BY <1>25 DEF Load, At
<1>26. ASSUME NEW l \in Loaders, Notify(l) PROVE Flagged'
  BY <1>26 DEF Notify, At
<1>27. ASSUME NEW l \in Loaders, EndLoad(l) PROVE Flagged'
  BY <1>27 DEF EndLoad, At
<1>28. CASE UNCHANGED vars
  BY <1>28 DEF vars
<1> QED
  BY <1>1, <1>2, <1>3, <1>4, <1>5, <1>6, <1>7, <1>8, <1>9, <1>10, <1>11,
     <1>12, <1>13, <1>14, <1>15, <1>16, <1>17, <1>18, <1>19, <1>20, <1>21,
     <1>22, <1>23, <1>24, <1>25, <1>26, <1>27, <1>28, <1>29, <1>30, <1>31
     DEF Next, Tick, InfosStep, LoadStep

\* The display is replaced only when the flag is not set.
LEMMA DisplayStep ==
  ASSUME Types, Flagged, DisplayKept, [Next]_vars
  PROVE  DisplayKept'
<1> USE DEF Types, TypeOK, Flagged, Busy, DisplayKept, Drawing, flags, image, draw, window
<1>1. CASE TickRequest
  BY <1>1 DEF TickRequest, Unheld, MayTick
<1>2. CASE TickUpdateNeeded
  BY <1>2 DEF TickUpdateNeeded
<1>3. CASE TickSignal
  BY <1>3 DEF TickSignal, SetEvent
<1>4. CASE TickReplace
  BY <1>4 DEF TickReplace, MayTick, MayReplace, Unheld
<1>29. CASE ShowHide
  BY <1>29 DEF ShowHide, Click
<1>30. CASE Resize
  BY <1>30 DEF Resize, Click
<1>31. CASE PushMove
  BY <1>31 DEF PushMove, Mouse, SetEvent, Click
<1>5. CASE MoveControl
  BY <1>5 DEF MoveControl, SetEvent, Click
<1>6. CASE PointEnter
  BY <1>6 DEF PointEnter, Mouse, Unheld, Click
<1>7. CASE Push
  BY <1>7 DEF Push, Mouse, Click
<1>8. CASE EditEnter
  BY <1>8 DEF EditEnter, Unheld, Click
<1>9. CASE GuiLeave
  BY <1>9 DEF GuiLeave, Leave, Asked, SetEvent, Deeds
<1>10. CASE WaitEvent
  BY <1>10 DEF WaitEvent
<1>11. CASE TimeOut
  BY <1>11 DEF TimeOut, Infos
<1>12. CASE Begin
  BY <1>12 DEF Begin, Infos, Unheld
<1>13. CASE TakeTd
  BY <1>13 DEF TakeTd, Infos
<1>14. CASE Drop
  BY <1>14 DEF Drop
<1>15. CASE NothingToCopy
  BY <1>15 DEF NothingToCopy, Infos
<1>16. CASE Take
  BY <1>16 DEF Take, Infos
<1>17. CASE Copy
  BY <1>17 DEF Copy, Infos
<1>18. CASE Draw
  BY <1>18 DEF Draw, Infos
<1>19. CASE Done
  BY <1>19 DEF Done, Infos
<1>20. CASE WakeUp
  BY <1>20 DEF WakeUp, Infos
<1>21. CASE LoadFloppy
  BY <1>21 DEF LoadFloppy, At, Overlap, Running
<1>22. ASSUME NEW l \in Loaders, LoadFile(l) PROVE DisplayKept'
  BY <1>22 DEF LoadFile, At, Overlap, Running, MayLoad
<1>23. ASSUME NEW l \in Loaders, Unload(l) PROVE DisplayKept'
  BY <1>23 DEF Unload, At
<1>24. ASSUME NEW l \in Loaders, Clear(l) PROVE DisplayKept'
  BY <1>24 DEF Clear, At
<1>25. ASSUME NEW l \in Loaders, Load(l) PROVE DisplayKept'
  BY <1>25 DEF Load, At
<1>26. ASSUME NEW l \in Loaders, Notify(l) PROVE DisplayKept'
  BY <1>26 DEF Notify, At
<1>27. ASSUME NEW l \in Loaders, EndLoad(l) PROVE DisplayKept'
  BY <1>27 DEF EndLoad, At
<1>28. CASE UNCHANGED vars
  BY <1>28 DEF vars
<1> QED
  BY <1>1, <1>2, <1>3, <1>4, <1>5, <1>6, <1>7, <1>8, <1>9, <1>10, <1>11,
     <1>12, <1>13, <1>14, <1>15, <1>16, <1>17, <1>18, <1>19, <1>20, <1>21,
     <1>22, <1>23, <1>24, <1>25, <1>26, <1>27, <1>28, <1>29, <1>30, <1>31
     DEF Next, Tick, InfosStep, LoadStep

\* The drawing thread sets the flag under the section that the GUI thread holds.
LEMMA PointingStep ==
  ASSUME Types, Flagged, PointingAlone, [Next]_vars
  PROVE  PointingAlone'
<1> USE DEF Types, TypeOK, Flagged, Busy, PointingAlone, Drawing, flags, image, draw, window
<1>1. CASE TickRequest
  BY <1>1 DEF TickRequest, Unheld, MayTick
<1>2. CASE TickUpdateNeeded
  BY <1>2 DEF TickUpdateNeeded
<1>3. CASE TickSignal
  BY <1>3 DEF TickSignal, SetEvent
<1>4. CASE TickReplace
  BY <1>4 DEF TickReplace, MayTick, MayReplace, Unheld
<1>29. CASE ShowHide
  BY <1>29 DEF ShowHide, Click
<1>30. CASE Resize
  BY <1>30 DEF Resize, Click
<1>31. CASE PushMove
  BY <1>31 DEF PushMove, Mouse, SetEvent, Click
<1>5. CASE MoveControl
  BY <1>5 DEF MoveControl, SetEvent, Click
<1>6. CASE PointEnter
  BY <1>6 DEF PointEnter, Mouse, Unheld, Click
<1>7. CASE Push
  BY <1>7 DEF Push, Mouse, Click
<1>8. CASE EditEnter
  BY <1>8 DEF EditEnter, Unheld, Click
<1>9. CASE GuiLeave
  BY <1>9 DEF GuiLeave, Leave, Asked, SetEvent, Deeds
<1>10. CASE WaitEvent
  BY <1>10 DEF WaitEvent
<1>11. CASE TimeOut
  BY <1>11 DEF TimeOut, Infos
<1>12. CASE Begin
  BY <1>12 DEF Begin, Infos, Unheld
<1>13. CASE TakeTd
  BY <1>13 DEF TakeTd, Infos
<1>14. CASE Drop
  BY <1>14 DEF Drop
<1>15. CASE NothingToCopy
  BY <1>15 DEF NothingToCopy, Infos
<1>16. CASE Take
  BY <1>16 DEF Take, Infos
<1>17. CASE Copy
  BY <1>17 DEF Copy, Infos
<1>18. CASE Draw
  BY <1>18 DEF Draw, Infos
<1>19. CASE Done
  BY <1>19 DEF Done, Infos
<1>20. CASE WakeUp
  BY <1>20 DEF WakeUp, Infos
<1>21. CASE LoadFloppy
  BY <1>21 DEF LoadFloppy, At, Overlap, Running
<1>22. ASSUME NEW l \in Loaders, LoadFile(l) PROVE PointingAlone'
  BY <1>22 DEF LoadFile, At, Overlap, Running, MayLoad
<1>23. ASSUME NEW l \in Loaders, Unload(l) PROVE PointingAlone'
  BY <1>23 DEF Unload, At
<1>24. ASSUME NEW l \in Loaders, Clear(l) PROVE PointingAlone'
  BY <1>24 DEF Clear, At
<1>25. ASSUME NEW l \in Loaders, Load(l) PROVE PointingAlone'
  BY <1>25 DEF Load, At
<1>26. ASSUME NEW l \in Loaders, Notify(l) PROVE PointingAlone'
  BY <1>26 DEF Notify, At
<1>27. ASSUME NEW l \in Loaders, EndLoad(l) PROVE PointingAlone'
  BY <1>27 DEF EndLoad, At
<1>28. CASE UNCHANGED vars
  BY <1>28 DEF vars
<1> QED
  BY <1>1, <1>2, <1>3, <1>4, <1>5, <1>6, <1>7, <1>8, <1>9, <1>10, <1>11,
     <1>12, <1>13, <1>14, <1>15, <1>16, <1>17, <1>18, <1>19, <1>20, <1>21,
     <1>22, <1>23, <1>24, <1>25, <1>26, <1>27, <1>28, <1>29, <1>30, <1>31
     DEF Next, Tick, InfosStep, LoadStep

\* Whoever sets the flag goes on to wake the drawing thread, which clears it.
LEMMA AwakeStep ==
  ASSUME Types, Awake, [Next]_vars
  PROVE  Awake'
<1> USE DEF Types, TypeOK, Places, Awake, Busy, flags, image, draw, window
<1>1. CASE TickRequest
  BY <1>1 DEF TickRequest, Unheld, MayTick
<1>2. CASE TickUpdateNeeded
  BY <1>2 DEF TickUpdateNeeded
<1>3. CASE TickSignal
  BY <1>3 DEF TickSignal, SetEvent
<1>4. CASE TickReplace
  BY <1>4 DEF TickReplace, MayTick, MayReplace, Unheld
<1>29. CASE ShowHide
  BY <1>29 DEF ShowHide, Click
<1>30. CASE Resize
  BY <1>30 DEF Resize, Click
<1>31. CASE PushMove
  BY <1>31 DEF PushMove, Mouse, SetEvent, Click
<1>5. CASE MoveControl
  BY <1>5 DEF MoveControl, SetEvent, Click
<1>6. CASE PointEnter
  BY <1>6 DEF PointEnter, Mouse, Unheld, Click
<1>7. CASE Push
  BY <1>7 DEF Push, Mouse, Click
<1>8. CASE EditEnter
  BY <1>8 DEF EditEnter, Unheld, Click
<1>9. CASE GuiLeave
  BY <1>9, Left DEF GuiLeave, Leave, SetEvent
<1>10. CASE WaitEvent
  BY <1>10 DEF WaitEvent
<1>11. CASE TimeOut
  BY <1>11 DEF TimeOut, Infos
<1>12. CASE Begin
  BY <1>12 DEF Begin, Infos, Unheld
<1>13. CASE TakeTd
  BY <1>13 DEF TakeTd, Infos
<1>14. CASE Drop
  BY <1>14 DEF Drop
<1>15. CASE NothingToCopy
  BY <1>15 DEF NothingToCopy, Infos
<1>16. CASE Take
  BY <1>16 DEF Take, Infos
<1>17. CASE Copy
  BY <1>17 DEF Copy, Infos
<1>18. CASE Draw
  BY <1>18 DEF Draw, Infos
<1>19. CASE Done
  BY <1>19 DEF Done, Infos
<1>20. CASE WakeUp
  BY <1>20 DEF WakeUp, Infos
<1>21. CASE LoadFloppy
  BY <1>21 DEF LoadFloppy, At, Overlap, Running
<1>22. ASSUME NEW l \in Loaders, LoadFile(l) PROVE Awake'
  BY <1>22 DEF LoadFile, At, Overlap, Running, MayLoad
<1>23. ASSUME NEW l \in Loaders, Unload(l) PROVE Awake'
  BY <1>23 DEF Unload, At
<1>24. ASSUME NEW l \in Loaders, Clear(l) PROVE Awake'
  BY <1>24 DEF Clear, At
<1>25. ASSUME NEW l \in Loaders, Load(l) PROVE Awake'
  BY <1>25 DEF Load, At
<1>26. ASSUME NEW l \in Loaders, Notify(l) PROVE Awake'
  BY <1>26 DEF Notify, At
<1>27. ASSUME NEW l \in Loaders, EndLoad(l) PROVE Awake'
  BY <1>27 DEF EndLoad, At
<1>28. CASE UNCHANGED vars
  BY <1>28 DEF vars
<1> QED
  BY <1>1, <1>2, <1>3, <1>4, <1>5, <1>6, <1>7, <1>8, <1>9, <1>10, <1>11,
     <1>12, <1>13, <1>14, <1>15, <1>16, <1>17, <1>18, <1>19, <1>20, <1>21,
     <1>22, <1>23, <1>24, <1>25, <1>26, <1>27, <1>28, <1>29, <1>30, <1>31
     DEF Next, Tick, InfosStep, LoadStep

\* The flag loading is set by the thread that starts and cleared by the one that ends.
LEMMA SerialStep ==
  ASSUME Types, Serial, [Next]_vars
  PROVE  Serial'
<1> USE DEF Types, TypeOK, Stages, Loaders, FileLoaders, Serial, flags, image, draw, window
<1>1. CASE TickRequest
  BY <1>1 DEF TickRequest, Unheld, MayTick
<1>2. CASE TickUpdateNeeded
  BY <1>2 DEF TickUpdateNeeded
<1>3. CASE TickSignal
  BY <1>3 DEF TickSignal, SetEvent
<1>4. CASE TickReplace
  BY <1>4 DEF TickReplace, MayTick, MayReplace, Unheld
<1>29. CASE ShowHide
  BY <1>29 DEF ShowHide, Click
<1>30. CASE Resize
  BY <1>30 DEF Resize, Click
<1>31. CASE PushMove
  BY <1>31 DEF PushMove, Mouse, SetEvent, Click
<1>5. CASE MoveControl
  BY <1>5 DEF MoveControl, SetEvent, Click
<1>6. CASE PointEnter
  BY <1>6 DEF PointEnter, Mouse, Unheld, Click
<1>7. CASE Push
  BY <1>7 DEF Push, Mouse, Click
<1>8. CASE EditEnter
  BY <1>8 DEF EditEnter, Unheld, Click
<1>9. CASE GuiLeave
  BY <1>9 DEF GuiLeave, Leave, Asked, SetEvent, Deeds
<1>10. CASE WaitEvent
  BY <1>10 DEF WaitEvent
<1>11. CASE TimeOut
  BY <1>11 DEF TimeOut, Infos
<1>12. CASE Begin
  BY <1>12 DEF Begin, Infos, Unheld
<1>13. CASE TakeTd
  BY <1>13 DEF TakeTd, Infos
<1>14. CASE Drop
  BY <1>14 DEF Drop
<1>15. CASE NothingToCopy
  BY <1>15 DEF NothingToCopy, Infos
<1>16. CASE Take
  BY <1>16 DEF Take, Infos
<1>17. CASE Copy
  BY <1>17 DEF Copy, Infos
<1>18. CASE Draw
  BY <1>18 DEF Draw, Infos
<1>19. CASE Done
  BY <1>19 DEF Done, Infos
<1>20. CASE WakeUp
  BY <1>20 DEF WakeUp, Infos
<1>21. CASE LoadFloppy
  BY <1>21 DEF LoadFloppy, At, Overlap, Running
<1>22. ASSUME NEW l \in Loaders, LoadFile(l) PROVE Serial'
  BY <1>22 DEF LoadFile, At, Overlap, Running, MayLoad
<1>23. ASSUME NEW l \in Loaders, Unload(l) PROVE Serial'
  BY <1>23 DEF Unload, At
<1>24. ASSUME NEW l \in Loaders, Clear(l) PROVE Serial'
  BY <1>24 DEF Clear, At
<1>25. ASSUME NEW l \in Loaders, Load(l) PROVE Serial'
  BY <1>25 DEF Load, At
<1>26. ASSUME NEW l \in Loaders, Notify(l) PROVE Serial'
  BY <1>26 DEF Notify, At
<1>27. ASSUME NEW l \in Loaders, EndLoad(l) PROVE Serial'
  BY <1>27 DEF EndLoad, At
<1>28. CASE UNCHANGED vars
  BY <1>28 DEF vars
<1> QED
  BY <1>1, <1>2, <1>3, <1>4, <1>5, <1>6, <1>7, <1>8, <1>9, <1>10, <1>11,
     <1>12, <1>13, <1>14, <1>15, <1>16, <1>17, <1>18, <1>19, <1>20, <1>21,
     <1>22, <1>23, <1>24, <1>25, <1>26, <1>27, <1>28, <1>29, <1>30, <1>31
     DEF Next, Tick, InfosStep, LoadStep

\* A thread that unloads an image loads another one.
LEMMA ReloadingStep ==
  ASSUME Types, Reloading, [Next]_vars
  PROVE  Reloading'
<1> USE DEF Types, TypeOK, Stages, Loaders, FileLoaders, Reloading, Between, flags, image, draw, window
<1>1. CASE TickRequest
  BY <1>1 DEF TickRequest, Unheld, MayTick
<1>2. CASE TickUpdateNeeded
  BY <1>2 DEF TickUpdateNeeded
<1>3. CASE TickSignal
  BY <1>3 DEF TickSignal, SetEvent
<1>4. CASE TickReplace
  BY <1>4 DEF TickReplace, MayTick, MayReplace, Unheld
<1>29. CASE ShowHide
  BY <1>29 DEF ShowHide, Click
<1>30. CASE Resize
  BY <1>30 DEF Resize, Click
<1>31. CASE PushMove
  BY <1>31 DEF PushMove, Mouse, SetEvent, Click
<1>5. CASE MoveControl
  BY <1>5 DEF MoveControl, SetEvent, Click
<1>6. CASE PointEnter
  BY <1>6 DEF PointEnter, Mouse, Unheld, Click
<1>7. CASE Push
  BY <1>7 DEF Push, Mouse, Click
<1>8. CASE EditEnter
  BY <1>8 DEF EditEnter, Unheld, Click
<1>9. CASE GuiLeave
  BY <1>9 DEF GuiLeave, Leave, Asked, SetEvent, Deeds
<1>10. CASE WaitEvent
  BY <1>10 DEF WaitEvent
<1>11. CASE TimeOut
  BY <1>11 DEF TimeOut, Infos
<1>12. CASE Begin
  BY <1>12 DEF Begin, Infos, Unheld
<1>13. CASE TakeTd
  BY <1>13 DEF TakeTd, Infos
<1>14. CASE Drop
  BY <1>14 DEF Drop
<1>15. CASE NothingToCopy
  BY <1>15 DEF NothingToCopy, Infos
<1>16. CASE Take
  BY <1>16 DEF Take, Infos
<1>17. CASE Copy
  BY <1>17 DEF Copy, Infos
<1>18. CASE Draw
  BY <1>18 DEF Draw, Infos
<1>19. CASE Done
  BY <1>19 DEF Done, Infos
<1>20. CASE WakeUp
  BY <1>20 DEF WakeUp, Infos
<1>21. CASE LoadFloppy
  BY <1>21 DEF LoadFloppy, At, Overlap, Running
<1>22. ASSUME NEW l \in Loaders, LoadFile(l) PROVE Reloading'
  BY <1>22 DEF LoadFile, At, Overlap, Running, MayLoad
<1>23. ASSUME NEW l \in Loaders, Unload(l) PROVE Reloading'
  BY <1>23 DEF Unload, At
<1>24. ASSUME NEW l \in Loaders, Clear(l) PROVE Reloading'
  BY <1>24 DEF Clear, At
<1>25. ASSUME NEW l \in Loaders, Load(l) PROVE Reloading'
  BY <1>25 DEF Load, At
<1>26. ASSUME NEW l \in Loaders, Notify(l) PROVE Reloading'
  BY <1>26 DEF Notify, At
<1>27. ASSUME NEW l \in Loaders, EndLoad(l) PROVE Reloading'
  BY <1>27 DEF EndLoad, At
<1>28. CASE UNCHANGED vars
  BY <1>28 DEF vars
<1> QED
  BY <1>1, <1>2, <1>3, <1>4, <1>5, <1>6, <1>7, <1>8, <1>9, <1>10, <1>11,
     <1>12, <1>13, <1>14, <1>15, <1>16, <1>17, <1>18, <1>19, <1>20, <1>21,
     <1>22, <1>23, <1>24, <1>25, <1>26, <1>27, <1>28, <1>29, <1>30, <1>31
     DEF Next, Tick, InfosStep, LoadStep

\* One thread at a time unloads one image and loads the next.
LEMMA OneByOneStep ==
  ASSUME Types, Serial, Reloading, OneByOne, [Next]_vars
  PROVE  OneByOne'
<1> USE DEF Types, TypeOK, Stages, Loaders, FileLoaders, Serial, Reloading, Between, OneByOne, flags, image, draw, window
<1>1. CASE TickRequest
  BY <1>1 DEF TickRequest, Unheld, MayTick
<1>2. CASE TickUpdateNeeded
  BY <1>2 DEF TickUpdateNeeded
<1>3. CASE TickSignal
  BY <1>3 DEF TickSignal, SetEvent
<1>4. CASE TickReplace
  BY <1>4 DEF TickReplace, MayTick, MayReplace, Unheld
<1>29. CASE ShowHide
  BY <1>29 DEF ShowHide, Click
<1>30. CASE Resize
  BY <1>30 DEF Resize, Click
<1>31. CASE PushMove
  BY <1>31 DEF PushMove, Mouse, SetEvent, Click
<1>5. CASE MoveControl
  BY <1>5 DEF MoveControl, SetEvent, Click
<1>6. CASE PointEnter
  BY <1>6 DEF PointEnter, Mouse, Unheld, Click
<1>7. CASE Push
  BY <1>7 DEF Push, Mouse, Click
<1>8. CASE EditEnter
  BY <1>8 DEF EditEnter, Unheld, Click
<1>9. CASE GuiLeave
  BY <1>9 DEF GuiLeave, Leave, Asked, SetEvent, Deeds
<1>10. CASE WaitEvent
  BY <1>10 DEF WaitEvent
<1>11. CASE TimeOut
  BY <1>11 DEF TimeOut, Infos
<1>12. CASE Begin
  BY <1>12 DEF Begin, Infos, Unheld
<1>13. CASE TakeTd
  BY <1>13 DEF TakeTd, Infos
<1>14. CASE Drop
  BY <1>14 DEF Drop
<1>15. CASE NothingToCopy
  BY <1>15 DEF NothingToCopy, Infos
<1>16. CASE Take
  BY <1>16 DEF Take, Infos
<1>17. CASE Copy
  BY <1>17 DEF Copy, Infos
<1>18. CASE Draw
  BY <1>18 DEF Draw, Infos
<1>19. CASE Done
  BY <1>19 DEF Done, Infos
<1>20. CASE WakeUp
  BY <1>20 DEF WakeUp, Infos
<1>21. CASE LoadFloppy
  BY <1>21 DEF LoadFloppy, At, Overlap, Running
<1>22. ASSUME NEW l \in Loaders, LoadFile(l) PROVE OneByOne'
  BY <1>22 DEF LoadFile, At, Overlap, Running, MayLoad
<1>23. ASSUME NEW l \in Loaders, Unload(l) PROVE OneByOne'
  BY <1>23 DEF Unload, At
<1>24. ASSUME NEW l \in Loaders, Clear(l) PROVE OneByOne'
  BY <1>24 DEF Clear, At
<1>25. ASSUME NEW l \in Loaders, Load(l) PROVE OneByOne'
  BY <1>25 DEF Load, At
<1>26. ASSUME NEW l \in Loaders, Notify(l) PROVE OneByOne'
  BY <1>26 DEF Notify, At
<1>27. ASSUME NEW l \in Loaders, EndLoad(l) PROVE OneByOne'
  BY <1>27 DEF EndLoad, At
<1>28. CASE UNCHANGED vars
  BY <1>28 DEF vars
<1> QED
  BY <1>1, <1>2, <1>3, <1>4, <1>5, <1>6, <1>7, <1>8, <1>9, <1>10, <1>11,
     <1>12, <1>13, <1>14, <1>15, <1>16, <1>17, <1>18, <1>19, <1>20, <1>21,
     <1>22, <1>23, <1>24, <1>25, <1>26, <1>27, <1>28, <1>29, <1>30, <1>31
     DEF Next, Tick, InfosStep, LoadStep

\* A request moves from flag to flag until the copy is made.
LEMMA OnItsWayStep ==
  ASSUME Types, OnItsWay, [Next]_vars
  PROVE  OnItsWay'
<1> USE DEF Types, TypeOK, Stages, Loaders, FileLoaders, OnItsWay, Current, flags, image, draw, window
<1>1. CASE TickRequest
  BY <1>1 DEF TickRequest, Unheld, MayTick
<1>2. CASE TickUpdateNeeded
  BY <1>2 DEF TickUpdateNeeded
<1>3. CASE TickSignal
  BY <1>3 DEF TickSignal, SetEvent
<1>4. CASE TickReplace
  BY <1>4 DEF TickReplace, MayTick, MayReplace, Unheld
<1>29. CASE ShowHide
  BY <1>29 DEF ShowHide, Click
<1>30. CASE Resize
  BY <1>30 DEF Resize, Click
<1>31. CASE PushMove
  BY <1>31 DEF PushMove, Mouse, SetEvent, Click
<1>5. CASE MoveControl
  BY <1>5 DEF MoveControl, SetEvent, Click
<1>6. CASE PointEnter
  BY <1>6 DEF PointEnter, Mouse, Unheld, Click
<1>7. CASE Push
  BY <1>7 DEF Push, Mouse, Click
<1>8. CASE EditEnter
  BY <1>8 DEF EditEnter, Unheld, Click
<1>9. CASE GuiLeave
  <2>1. UNCHANGED <<src, loadedfloppy, trackviewerfloppy, threads,
                    trackviewerfloppy_updateneeded>> /\ gui # "requested"
    BY <1>9 DEF GuiLeave, Deeds
  <2>2. infos' = infos \/ (infos = "wait" /\ infos' = "woken")
    BY <1>9, Left DEF SetEvent
  <2>3. CASE asked' = asked /\ updatefloppyinfos' = updatefloppyinfos
    BY <2>1, <2>2, <2>3 DEF Current
  <2>4. CASE updatefloppyinfos' = 1
    BY <2>1, <2>2, <2>4
  <2> QED  BY <1>9, <2>3, <2>4, Left
<1>10. CASE WaitEvent
  BY <1>10 DEF WaitEvent
<1>11. CASE TimeOut
  BY <1>11 DEF TimeOut, Infos
<1>12. CASE Begin
  BY <1>12 DEF Begin, Infos, Unheld
<1>13. CASE TakeTd
  BY <1>13 DEF TakeTd, Infos
<1>14. CASE Drop
  BY <1>14 DEF Drop
<1>15. CASE NothingToCopy
  BY <1>15 DEF NothingToCopy, Infos
<1>16. CASE Take
  BY <1>16 DEF Take, Infos
<1>17. CASE Copy
  BY <1>17 DEF Copy, Infos
<1>18. CASE Draw
  BY <1>18 DEF Draw, Infos
<1>19. CASE Done
  BY <1>19 DEF Done, Infos
<1>20. CASE WakeUp
  BY <1>20 DEF WakeUp, Infos
<1>21. CASE LoadFloppy
  BY <1>21 DEF LoadFloppy, At, Overlap, Running
<1>22. ASSUME NEW l \in Loaders, LoadFile(l) PROVE OnItsWay'
  BY <1>22 DEF LoadFile, At, Overlap, Running, MayLoad
<1>23. ASSUME NEW l \in Loaders, Unload(l) PROVE OnItsWay'
  BY <1>23 DEF Unload, At
<1>24. ASSUME NEW l \in Loaders, Clear(l) PROVE OnItsWay'
  BY <1>24 DEF Clear, At
<1>25. ASSUME NEW l \in Loaders, Load(l) PROVE OnItsWay'
  BY <1>25 DEF Load, At
<1>26. ASSUME NEW l \in Loaders, Notify(l) PROVE OnItsWay'
  BY <1>26 DEF Notify, At
<1>27. ASSUME NEW l \in Loaders, EndLoad(l) PROVE OnItsWay'
  BY <1>27 DEF EndLoad, At
<1>28. CASE UNCHANGED vars
  BY <1>28 DEF vars
<1> QED
  BY <1>1, <1>2, <1>3, <1>4, <1>5, <1>6, <1>7, <1>8, <1>9, <1>10, <1>11,
     <1>12, <1>13, <1>14, <1>15, <1>16, <1>17, <1>18, <1>19, <1>20, <1>21,
     <1>22, <1>23, <1>24, <1>25, <1>26, <1>27, <1>28, <1>29, <1>30, <1>31
     DEF Next, Tick, InfosStep, LoadStep

LEMMA NextIInv == IInv /\ [Next]_vars => IInv'
  BY TypesStep, FlaggedStep, DisplayStep, PointingStep, AwakeStep, SerialStep,
     ReloadingStep, OneByOneStep, OnItsWayStep DEF IInv

LEMMA Inductive == Spec => []IInv
  BY InitIInv, NextIInv, PTL DEF Spec

(***************************************************************************)
(* Type correctness, and the GUI thread holds critical section 1 exactly   *)
(* while it points or edits.                                               *)
(***************************************************************************)
THEOREM ViewTypes == Spec => []TypeOK
  BY Inductive, PTL DEF IInv, Types

(***************************************************************************)
(* The track display is never replaced under the drawing thread: updating  *)
(* is set under the critical section before the display is taken (302,     *)
(* 392-398), for any number of resizes, loads and edits.                   *)
(***************************************************************************)
THEOREM DisplayIsKept == Spec => []DisplayKept
  BY Inductive, PTL DEF IInv

(***************************************************************************)
(* The GUI thread that looks for the sectors under the mouse, the branch   *)
(* 1235-1290 of FL_MOVE under critical section 1, and the drawing thread   *)
(* are never at the lists of sectors together.  The other branches of the  *)
(* mouse handler take no section.                                          *)
(***************************************************************************)
THEOREM PointsAlone == Spec => []PointingAlone
  BY Inductive, PTL DEF IInv

(***************************************************************************)
(* No update asked for by a load, an edit, a marker or a new size is lost: *)
(* when nothing is under way the view shows the loaded image, and the      *)
(* drawing thread took its copy after the last one asked.                  *)
(***************************************************************************)
THEOREM ViewIsCurrent == Spec => []ViewCurrent
<1>1. IInv => ViewCurrent
  BY DEF IInv, OnItsWay, Current, ViewCurrent, Quiet, Running
<1> QED
  BY <1>1, Inductive, PTL

(***************************************************************************)
(* An unloaded image never stays loaded, and without overlapping loads     *)
(* every image but the loaded one is unloaded exactly once.                *)
(***************************************************************************)
THEOREM ImagesAreReleased == Spec => []ImagesReleased
<1>1. IInv => ImagesReleased
  BY DEF IInv, Reloading, OneByOne, Between, ImagesReleased, Running
<1> QED
  BY <1>1, Inductive, PTL

(***************************************************************************)
(* The view gets stuck only by a lost signal of a condition variable, and  *)
(* never with the events of Windows.                                       *)
(***************************************************************************)
THEOREM StuckOnlyByLostSignal == Spec => []StuckByLostSignal
<1>1. IInv => StuckByLostSignal
  BY DEF IInv, Awake, Busy, StuckByLostSignal, Stuck
<1> QED
  BY <1>1, Inductive, PTL
=============================================================================
