-------------------------- MODULE MovieIndexProofs --------------------------
(***************************************************************************)
(* Proofs about MovieIndex, for any set of files of any length, any set of *)
(* transport positions and any number of requests.                         *)
(***************************************************************************)
EXTENDS MovieIndex, TLAPS

-----------------------------------------------------------------------------
(* The inductive invariant, in named parts.                                *)

\* The flag of the main thread and the life of the index thread agree.
ThreadKnown == thread_active <=> tpc # "none"

\* The display frame is there exactly while a movie is open, and the decoder
\* and the index table are those of that movie.
MovieWhole ==
  /\ pFrameFMT => ctx \in Files /\ fidx = ctx
  /\ ~pFrameFMT => ctx = NoFile /\ current_file = NoFile
  /\ current_file # NoFile => current_file = ctx

\* The stages of closing and opening.
Stages ==
  /\ ret # "restart"
  /\ thread_active =>
       pFrameFMT /\ mpc \notin {"free", "reset", "opening", "start", "exit"}
  /\ mpc \in {"reset", "opening"} => ~pFrameFMT
  /\ mpc = "free" => current_file = NoFile
  /\ mpc \in {"abort", "join"} /\ ret # "leave" => current_file = NoFile
  /\ mpc = "start" => pFrameFMT
  /\ mpc \in {"opening", "start"} => ~scan_complete /\ seekable = 0

\* How far the seek table is, by the stage of the scan.
TableProgress ==
  /\ tpc \in Scanning => ~scan_complete
  /\ tpc \in {"setup", "pass1", "mode", "pass2"} => seekable = 0
  /\ tpc = "pass3" => seekable = ti /\ ti <= fcnt
  /\ tpc \in {"rewind", "publish"} => seekable = fcnt
  /\ scan_complete => seekable = fcnt

\* seek_frame was entered with an index.
SeekAllowed == mpc = "seek" => scan_complete /\ current_file # NoFile

CoreInv == ThreadKnown /\ MovieWhole /\ Stages /\ TableProgress /\ SeekAllowed

IndInv == TypeOK /\ CoreInv

-----------------------------------------------------------------------------
(* Type correctness.  The flags and the rest are separate obligations.     *)

USE DEF vars, callVars, loopVars, drawVars, movieVars, indexVars, threadVars,
        scanVars, MainOnly

LEMMA StillPicture ==
  \A k \in {"none", "empty", "indexing"} : Still(k) \in Pictures
BY DEF Pictures

LEMMA FramePicture ==
  \A f \in Files, n \in Positions : FrameOf(f, n) \in Pictures
BY DEF Pictures

LEMMA InitType == Init => TypeOK
  <1> SUFFICES ASSUME Init PROVE TypeOK
    OBVIOUS
  <1>1. FlagsOK
    BY DEF Init, FlagsOK
  <1>2. DataOK
    BY MovieIndexAssumption, StillPicture
       DEF Init, DataOK, MainPC, ThreadPC, Scanning
  <1> QED BY <1>1, <1>2 DEF TypeOK

\* The flags in groups: small goals are easy for the provers.
LoopFlags ==
  /\ loop_flag \in BOOLEAN /\ loop_run \in BOOLEAN
  /\ window \in BOOLEAN /\ splashed \in BOOLEAN
DrawFlags == fd \in BOOLEAN /\ displaying_valid_frame \in BOOLEAN
MovieFlags == buffer \in BOOLEAN /\ pFrameFMT \in BOOLEAN
ScanFlags ==
  /\ scan_complete \in BOOLEAN /\ abort_indexing \in BOOLEAN
  /\ thread_active \in BOOLEAN /\ want_noindex \in BOOLEAN
  /\ terr \in BOOLEAN

LEMMA NextFlags == FlagsOK /\ [Next]_vars => FlagsOK'
  <1> SUFFICES ASSUME FlagsOK, [Next]_vars PROVE FlagsOK'
    OBVIOUS
  <1> USE DEF FlagsOK
  <1>1. CASE LoopOffline
    BY <1>1 DEF LoopOffline
  <1>2. CASE PollTransport
    <2>1. LoopFlags'
      BY <1>2 DEF LoopFlags, PollTransport
    <2>2. DrawFlags'
      BY <1>2 DEF DrawFlags, PollTransport
    <2>3. MovieFlags'
      BY <1>2 DEF MovieFlags, PollTransport
    <2>4. ScanFlags'
      BY <1>2 DEF ScanFlags, PollTransport
    <2>5. force_redraw' \in BOOLEAN
      BY <1>2 DEF PollTransport
    <2> QED BY <2>1, <2>2, <2>3, <2>4, <2>5
        DEF LoopFlags, DrawFlags, MovieFlags, ScanFlags
  <1>3. CASE TakeRedraw
    BY <1>3 DEF TakeRedraw
  <1>4. CASE ClearRedraw
    <2>1. LoopFlags'
      BY <1>4 DEF LoopFlags, ClearRedraw
    <2>2. DrawFlags'
      BY <1>4 DEF DrawFlags, ClearRedraw
    <2>3. MovieFlags'
      BY <1>4 DEF MovieFlags, ClearRedraw
    <2>4. ScanFlags'
      BY <1>4 DEF ScanFlags, ClearRedraw
    <2>5. force_redraw' \in BOOLEAN
      BY <1>4 DEF ClearRedraw
    <2> QED BY <2>1, <2>2, <2>3, <2>4, <2>5
        DEF LoopFlags, DrawFlags, MovieFlags, ScanFlags
  <1>5. CASE DisplayNoIndex
    <2>1. LoopFlags'
      BY <1>5 DEF LoopFlags, DisplayNoIndex, DisplayNoIndexIf,
             DisplayStill
    <2>2. DrawFlags'
      BY <1>5 DEF DrawFlags, DisplayNoIndex, DisplayNoIndexIf,
             DisplayStill
    <2>3. MovieFlags'
      BY <1>5 DEF MovieFlags, DisplayNoIndex, DisplayNoIndexIf,
             DisplayStill
    <2>4. ScanFlags'
      BY <1>5 DEF ScanFlags, DisplayNoIndex, DisplayNoIndexIf,
             DisplayStill
    <2>5. force_redraw' \in BOOLEAN
      BY <1>5 DEF DisplayNoIndex, DisplayNoIndexIf,
             DisplayStill
    <2> QED BY <2>1, <2>2, <2>3, <2>4, <2>5
        DEF LoopFlags, DrawFlags, MovieFlags, ScanFlags
  <1>6. CASE DisplayOutOfRange
    <2>1. LoopFlags'
      BY <1>6 DEF LoopFlags, DisplayOutOfRange, DisplayStill
    <2>2. DrawFlags'
      BY <1>6 DEF DrawFlags, DisplayOutOfRange, DisplayStill
    <2>3. MovieFlags'
      BY <1>6 DEF MovieFlags, DisplayOutOfRange, DisplayStill
    <2>4. ScanFlags'
      BY <1>6 DEF ScanFlags, DisplayOutOfRange, DisplayStill
    <2>5. force_redraw' \in BOOLEAN
      BY <1>6 DEF DisplayOutOfRange, DisplayStill
    <2> QED BY <2>1, <2>2, <2>3, <2>4, <2>5
        DEF LoopFlags, DrawFlags, MovieFlags, ScanFlags
  <1>7. CASE DisplaySame
    BY <1>7 DEF DisplaySame
  <1>8. CASE DisplayDecode
    BY <1>8 DEF DisplayDecode
  <1>9. CASE SeekReturns
    <2>1. displaying_valid_frame' \in BOOLEAN
      BY <1>9 DEF SeekReturns
    <2>2. UNCHANGED <<loopVars, force_redraw, fd, movieVars, scanVars>>
      BY <1>9 DEF SeekReturns
    <2> QED BY <2>1, <2>2
  <1>10. CASE SplashCheck
    <2>1. CASE UNCHANGED <<splashed, force_redraw>>
      BY <1>10, <2>1 DEF SplashCheck
    <2>2. CASE splashed' = TRUE /\ force_redraw' = TRUE
      BY <1>10, <2>2 DEF SplashCheck
    <2> QED BY <1>10, <2>1, <2>2 DEF SplashCheck
  <1>11. CASE EventsDone
    BY <1>11 DEF EventsDone
  <1>12. CASE CmdClose
    BY <1>12 DEF CmdClose, Command
  <1>13. CASE CmdRedraw
    BY <1>13 DEF CmdRedraw, Command
  <1>14. CASE CmdQuit
    <2>1. LoopFlags'
      BY <1>14 DEF LoopFlags, CmdQuit
    <2>2. DrawFlags'
      BY <1>14 DEF DrawFlags, CmdQuit
    <2>3. MovieFlags'
      BY <1>14 DEF MovieFlags, CmdQuit
    <2>4. ScanFlags'
      BY <1>14 DEF ScanFlags, CmdQuit
    <2>5. force_redraw' \in BOOLEAN
      BY <1>14 DEF CmdQuit
    <2> QED BY <2>1, <2>2, <2>3, <2>4, <2>5
        DEF LoopFlags, DrawFlags, MovieFlags, ScanFlags
  <1>15. CASE CmdMapWindow
    BY <1>15 DEF CmdMapWindow, Command
  <1>16. CASE CmdCloseWindow
    <2>1. LoopFlags'
      BY <1>16 DEF LoopFlags, CmdCloseWindow
    <2>2. DrawFlags'
      BY <1>16 DEF DrawFlags, CmdCloseWindow
    <2>3. MovieFlags'
      BY <1>16 DEF MovieFlags, CmdCloseWindow
    <2>4. ScanFlags'
      BY <1>16 DEF ScanFlags, CmdCloseWindow
    <2>5. force_redraw' \in BOOLEAN
      BY <1>16 DEF CmdCloseWindow
    <2> QED BY <2>1, <2>2, <2>3, <2>4, <2>5
        DEF LoopFlags, DrawFlags, MovieFlags, ScanFlags
  <1>17. CASE CmdOpenWindow
    <2>1. LoopFlags'
      BY <1>17 DEF LoopFlags, CmdOpenWindow
    <2>2. DrawFlags'
      BY <1>17 DEF DrawFlags, CmdOpenWindow
    <2>3. MovieFlags'
      BY <1>17 DEF MovieFlags, CmdOpenWindow
    <2>4. ScanFlags'
      BY <1>17 DEF ScanFlags, CmdOpenWindow
    <2>5. force_redraw' \in BOOLEAN
      BY <1>17 DEF CmdOpenWindow
    <2> QED BY <2>1, <2>2, <2>3, <2>4, <2>5
        DEF LoopFlags, DrawFlags, MovieFlags, ScanFlags
  <1>18. ASSUME NEW f \in Files \cup {NoFile}, CmdOpen(f)
        PROVE  FlagsOK'
    BY <1>18 DEF CmdOpen, Command, CallOpen, CallOpenClosing
  <1>19. CASE ForgetFile
    BY <1>19 DEF ForgetFile, ForgetThen, AfterForget
  <1>20. CASE RaiseAbort
    <2>1. LoopFlags'
      BY <1>20 DEF LoopFlags, RaiseAbort
    <2>2. DrawFlags'
      BY <1>20 DEF DrawFlags, RaiseAbort
    <2>3. MovieFlags'
      BY <1>20 DEF MovieFlags, RaiseAbort
    <2>4. ScanFlags'
      BY <1>20 DEF ScanFlags, RaiseAbort
    <2>5. force_redraw' \in BOOLEAN
      BY <1>20 DEF RaiseAbort
    <2> QED BY <2>1, <2>2, <2>3, <2>4, <2>5
        DEF LoopFlags, DrawFlags, MovieFlags, ScanFlags
  <1>21. CASE JoinIndexer
    <2>1. LoopFlags'
      BY <1>21 DEF LoopFlags, JoinIndexer
    <2>2. DrawFlags'
      BY <1>21 DEF DrawFlags, JoinIndexer
    <2>3. MovieFlags'
      BY <1>21 DEF MovieFlags, JoinIndexer
    <2>4. ScanFlags'
      BY <1>21 DEF ScanFlags, JoinIndexer
    <2>5. force_redraw' \in BOOLEAN
      BY <1>21 DEF JoinIndexer
    <2> QED BY <2>1, <2>2, <2>3, <2>4, <2>5
        DEF LoopFlags, DrawFlags, MovieFlags, ScanFlags
  <1>22. CASE FreeMovie
    <2>1. UNCHANGED <<loopVars, drawVars, scanVars>>
      BY <1>22 DEF FreeMovie
    <2>2. CASE pFrameFMT
      BY <1>22, <2>1, <2>2 DEF FreeMovie
    <2>3. CASE ~pFrameFMT
      BY <1>22, <2>1, <2>3 DEF FreeMovie
    <2> QED BY <2>2, <2>3
  <1>23. CASE LeaveLoop
    BY <1>23 DEF LeaveLoop, LeaveLoopAt
  <1>24. CASE CleanUp
    <2>1. LoopFlags'
      BY <1>24 DEF LoopFlags, CleanUp
    <2>2. DrawFlags'
      BY <1>24 DEF DrawFlags, CleanUp
    <2>3. MovieFlags'
      BY <1>24 DEF MovieFlags, CleanUp
    <2>4. ScanFlags'
      BY <1>24 DEF ScanFlags, CleanUp
    <2>5. force_redraw' \in BOOLEAN
      BY <1>24 DEF CleanUp
    <2> QED BY <2>1, <2>2, <2>3, <2>4, <2>5
        DEF LoopFlags, DrawFlags, MovieFlags, ScanFlags
  <1>25. CASE ResetIndex
    <2>1. LoopFlags'
      BY <1>25 DEF LoopFlags, ResetIndex, ResetIndexTo
    <2>2. DrawFlags'
      BY <1>25 DEF DrawFlags, ResetIndex, ResetIndexTo
    <2>3. MovieFlags'
      BY <1>25 DEF MovieFlags, ResetIndex, ResetIndexTo
    <2>4. ScanFlags'
      BY <1>25 DEF ScanFlags, ResetIndex, ResetIndexTo
    <2>5. force_redraw' \in BOOLEAN
      BY <1>25 DEF ResetIndex, ResetIndexTo
    <2> QED BY <2>1, <2>2, <2>3, <2>4, <2>5
        DEF LoopFlags, DrawFlags, MovieFlags, ScanFlags
  <1>26. CASE OpenRefused
    BY <1>26 DEF OpenRefused
  <1>27. CASE OpenWithoutDecoder
    BY <1>27 DEF OpenWithoutDecoder
  <1>28. CASE OpenSucceeds
    BY <1>28 DEF OpenSucceeds
  <1>29. CASE StartIndexer
    <2>1. LoopFlags'
      BY <1>29 DEF LoopFlags, StartIndexer
    <2>2. DrawFlags'
      BY <1>29 DEF DrawFlags, StartIndexer
    <2>3. MovieFlags'
      BY <1>29 DEF MovieFlags, StartIndexer
    <2>4. ScanFlags'
      BY <1>29 DEF ScanFlags, StartIndexer
    <2>5. force_redraw' \in BOOLEAN
      BY <1>29 DEF StartIndexer
    <2> QED BY <2>1, <2>2, <2>3, <2>4, <2>5
        DEF LoopFlags, DrawFlags, MovieFlags, ScanFlags
  <1>30. CASE InitMovieBuffer
    BY <1>30 DEF InitMovieBuffer
  <1>31. CASE IndexSetup
    BY <1>31 DEF IndexSetup
  <1>32. CASE IndexAborts
    BY <1>32 DEF IndexAborts
  <1>33. CASE ScanPacket
    <2>1. force_redraw' \in BOOLEAN
      BY <1>33, Zenon DEF ScanPacket, ReportProgress
    <2>2. (terr \in BOOLEAN)'
      BY <1>33, Zenon DEF ScanPacket
    <2> QED BY <1>33, <2>1, <2>2 DEF ScanPacket
  <1>34. CASE ScanFails
    <2>1. LoopFlags'
      BY <1>34 DEF LoopFlags, ScanFails, ReportProgress
    <2>2. DrawFlags'
      BY <1>34 DEF DrawFlags, ScanFails, ReportProgress
    <2>3. MovieFlags'
      BY <1>34 DEF MovieFlags, ScanFails, ReportProgress
    <2>4. ScanFlags'
      BY <1>34 DEF ScanFlags, ScanFails, ReportProgress
    <2>5. force_redraw' \in BOOLEAN
      BY <1>34 DEF ScanFails, ReportProgress
    <2> QED BY <2>1, <2>2, <2>3, <2>4, <2>5
        DEF LoopFlags, DrawFlags, MovieFlags, ScanFlags
  <1>35. CASE ScanEnds
    BY <1>35 DEF ScanEnds
  <1>36. CASE ChooseMode
    BY <1>36 DEF ChooseMode
  <1>37. CASE VerifyKeyframe
    <2>1. force_redraw' \in BOOLEAN
      BY <1>37, Zenon DEF VerifyKeyframe, ReportProgress
    <2>2. (terr \in BOOLEAN)'
      BY <1>37, Zenon DEF VerifyKeyframe
    <2> QED BY <1>37, <2>1, <2>2 DEF VerifyKeyframe
  <1>38. CASE VerifyEnds
    BY <1>38 DEF VerifyEnds
  <1>39. CASE AssignSeekPosition
    <2>1. force_redraw' \in BOOLEAN
      BY <1>39, Zenon DEF AssignSeekPosition, ReportProgress
    <2>2. (terr \in BOOLEAN)'
      BY <1>39, Zenon DEF AssignSeekPosition
    <2> QED BY <1>39, <2>1, <2>2 DEF AssignSeekPosition
  <1>40. CASE AssignEnds
    <2>1. (terr \in BOOLEAN)'
      BY <1>40, Zenon DEF AssignEnds
    <2> QED BY <1>40, <2>1 DEF AssignEnds
  <1>41. CASE Rewind
    BY <1>41 DEF Rewind
  <1>42. CASE PublishIndex
    <2>1. LoopFlags'
      BY <1>42 DEF LoopFlags, PublishIndex
    <2>2. DrawFlags'
      BY <1>42 DEF DrawFlags, PublishIndex
    <2>3. MovieFlags'
      BY <1>42 DEF MovieFlags, PublishIndex
    <2>4. ScanFlags'
      BY <1>42 DEF ScanFlags, PublishIndex
    <2>5. force_redraw' \in BOOLEAN
      BY <1>42 DEF PublishIndex
    <2> QED BY <2>1, <2>2, <2>3, <2>4, <2>5
        DEF LoopFlags, DrawFlags, MovieFlags, ScanFlags
  <1>43. CASE IndexReport
    BY <1>43 DEF IndexReport
  <1>44. CASE UNCHANGED vars
    BY <1>44
  <1> QED BY <1>1, <1>2, <1>3, <1>4, <1>5, <1>6, <1>7, <1>8, <1>9, <1>10,
    <1>11, <1>12, <1>13, <1>14, <1>15, <1>16, <1>17, <1>18, <1>19, <1>20,
    <1>21, <1>22, <1>23, <1>24, <1>25, <1>26, <1>27, <1>28, <1>29, <1>30,
    <1>31, <1>32, <1>33, <1>34, <1>35, <1>36, <1>37, <1>38, <1>39, <1>40,
    <1>41, <1>42, <1>43, <1>44 DEF Next, MainThread, Draw, Events, Close,
    Open, IndexThread, Exited

LEMMA NextData == DataOK /\ MovieWhole /\ [Next]_vars => DataOK'
  <1> SUFFICES ASSUME DataOK /\ MovieWhole, [Next]_vars PROVE DataOK'
    OBVIOUS
  <1> USE DEF DataOK, MainPC, ThreadPC, Scanning
  <1>1. CASE LoopOffline
    BY <1>1 DEF LoopOffline
  <1>2. CASE PollTransport
    BY <1>2 DEF PollTransport
  <1>3. CASE TakeRedraw
    BY <1>3 DEF TakeRedraw
  <1>4. CASE ClearRedraw
    BY <1>4 DEF ClearRedraw
  <1>5. CASE DisplayNoIndex
    BY <1>5, StillPicture DEF DisplayNoIndex, DisplayNoIndexIf, DisplayStill
  <1>6. CASE DisplayOutOfRange
    BY <1>6, StillPicture DEF DisplayOutOfRange, DisplayStill
  <1>7. CASE DisplaySame
    BY <1>7 DEF DisplaySame
  <1>8. CASE DisplayDecode
    BY <1>8 DEF DisplayDecode
  <1>9. CASE SeekReturns
    BY <1>9, StillPicture, FramePicture DEF SeekReturns, MovieWhole
  <1>10. CASE SplashCheck
    BY <1>10 DEF SplashCheck
  <1>11. CASE EventsDone
    BY <1>11 DEF EventsDone
  <1>12. CASE CmdClose
    BY <1>12, MovieIndexAssumption DEF CmdClose, Command
  <1>13. CASE CmdRedraw
    BY <1>13, MovieIndexAssumption DEF CmdRedraw, Command
  <1>14. CASE CmdQuit
    BY <1>14, MovieIndexAssumption DEF CmdQuit, Command
  <1>15. CASE CmdMapWindow
    BY <1>15, MovieIndexAssumption DEF CmdMapWindow, Command
  <1>16. CASE CmdCloseWindow
    BY <1>16, StillPicture, MovieIndexAssumption DEF CmdCloseWindow, Command
  <1>17. CASE CmdOpenWindow
    BY <1>17, MovieIndexAssumption DEF CmdOpenWindow, Command, CallOpen,
      CallOpenClosing
  <1>18. ASSUME NEW f \in Files \cup {NoFile}, CmdOpen(f)
        PROVE  DataOK'
    BY <1>18, MovieIndexAssumption DEF CmdOpen, Command, CallOpen,
      CallOpenClosing
  <1>19. CASE ForgetFile
    BY <1>19 DEF ForgetFile, ForgetThen, AfterForget
  <1>20. CASE RaiseAbort
    BY <1>20 DEF RaiseAbort
  <1>21. CASE JoinIndexer
    BY <1>21 DEF JoinIndexer
  <1>22. CASE FreeMovie
    BY <1>22 DEF FreeMovie
  <1>23. CASE LeaveLoop
    BY <1>23 DEF LeaveLoop, LeaveLoopAt
  <1>24. CASE CleanUp
    BY <1>24, StillPicture DEF CleanUp
  <1>25. CASE ResetIndex
    BY <1>25 DEF ResetIndex, ResetIndexTo
  <1>26. CASE OpenRefused
    BY <1>26 DEF OpenRefused
  <1>27. CASE OpenWithoutDecoder
    BY <1>27, MovieIndexAssumption DEF OpenWithoutDecoder
  <1>28. CASE OpenSucceeds
    BY <1>28, MovieIndexAssumption DEF OpenSucceeds
  <1>29. CASE StartIndexer
    BY <1>29 DEF StartIndexer
  <1>30. CASE InitMovieBuffer
    BY <1>30 DEF InitMovieBuffer
  <1>31. CASE IndexSetup
    BY <1>31 DEF IndexSetup
  <1>32. CASE IndexAborts
    BY <1>32 DEF IndexAborts
  <1>33. CASE ScanPacket
    BY <1>33 DEF ScanPacket
  <1>34. CASE ScanFails
    BY <1>34 DEF ScanFails
  <1>35. CASE ScanEnds
    BY <1>35 DEF ScanEnds
  <1>36. CASE ChooseMode
    BY <1>36, MovieIndexAssumption DEF ChooseMode
  <1>37. CASE VerifyKeyframe
    <2>1. \/ tpc' = "pass2" /\ ti' = ti + 1
          \/ tpc' = "pass3" /\ ti' = 0
      BY <1>37, Zenon DEF VerifyKeyframe
    <2>2. UNCHANGED <<MainOnly, indexVars>>
      BY <1>37, Zenon DEF VerifyKeyframe
    <2> QED BY <2>1, <2>2
  <1>38. CASE VerifyEnds
    BY <1>38 DEF VerifyEnds
  <1>39. CASE AssignSeekPosition
    BY <1>39 DEF AssignSeekPosition
  <1>40. CASE AssignEnds
    BY <1>40 DEF AssignEnds
  <1>41. CASE Rewind
    BY <1>41 DEF Rewind
  <1>42. CASE PublishIndex
    BY <1>42 DEF PublishIndex
  <1>43. CASE IndexReport
    BY <1>43 DEF IndexReport
  <1>44. CASE UNCHANGED vars
    BY <1>44
  <1> QED BY <1>1, <1>2, <1>3, <1>4, <1>5, <1>6, <1>7, <1>8, <1>9, <1>10,
    <1>11, <1>12, <1>13, <1>14, <1>15, <1>16, <1>17, <1>18, <1>19, <1>20,
    <1>21, <1>22, <1>23, <1>24, <1>25, <1>26, <1>27, <1>28, <1>29, <1>30,
    <1>31, <1>32, <1>33, <1>34, <1>35, <1>36, <1>37, <1>38, <1>39, <1>40,
    <1>41, <1>42, <1>43, <1>44 DEF Next, MainThread, Draw, Events, Close,
    Open, IndexThread, Exited

-----------------------------------------------------------------------------
(* The inductive invariant.                                                *)

LEMMA InitCore == Init => CoreInv
BY DEF Init, CoreInv, ThreadKnown, MovieWhole, Stages, TableProgress,
       SeekAllowed, Scanning

LEMMA NextCore == DataOK /\ CoreInv /\ [Next]_vars => CoreInv'
  <1> SUFFICES ASSUME DataOK /\ CoreInv, [Next]_vars PROVE CoreInv'
    OBVIOUS
  <1> USE DEF CoreInv, ThreadKnown, MovieWhole, Stages, TableProgress,
    SeekAllowed, Scanning
  <1>0. /\ frames \in Nat /\ fcnt \in Nat /\ ti \in Nat
        /\ req \in Files \cup {NoFile}
    BY DEF DataOK
  <1>1. CASE LoopOffline
    BY <1>1 DEF LoopOffline
  <1>2. CASE PollTransport
    BY <1>2 DEF PollTransport
  <1>3. CASE TakeRedraw
    BY <1>3 DEF TakeRedraw
  <1>4. CASE ClearRedraw
    BY <1>4 DEF ClearRedraw
  <1>5. CASE DisplayNoIndex
    BY <1>5 DEF DisplayNoIndex, DisplayNoIndexIf, DisplayStill
  <1>6. CASE DisplayOutOfRange
    BY <1>6 DEF DisplayOutOfRange, DisplayStill
  <1>7. CASE DisplaySame
    BY <1>7 DEF DisplaySame
  <1>8. CASE DisplayDecode
    BY <1>8 DEF DisplayDecode, NoIndexYet
  <1>9. CASE SeekReturns
    BY <1>9 DEF SeekReturns
  <1>10. CASE SplashCheck
    BY <1>10 DEF SplashCheck
  <1>11. CASE EventsDone
    BY <1>11 DEF EventsDone
  <1>12. CASE CmdClose
    BY <1>12 DEF CmdClose, Command
  <1>13. CASE CmdRedraw
    BY <1>13 DEF CmdRedraw, Command
  <1>14. CASE CmdQuit
    BY <1>14 DEF CmdQuit, Command
  <1>15. CASE CmdMapWindow
    BY <1>15 DEF CmdMapWindow, Command
  <1>16. CASE CmdCloseWindow
    BY <1>16 DEF CmdCloseWindow, Command
  <1>17. CASE CmdOpenWindow
    BY <1>17 DEF CmdOpenWindow, Command, CallOpen, CallOpenClosing
  <1>18. ASSUME NEW f \in Files \cup {NoFile}, CmdOpen(f)
        PROVE  CoreInv'
    BY <1>18 DEF CmdOpen, Command, CallOpen, CallOpenClosing
  <1>19. CASE ForgetFile
    BY <1>19 DEF ForgetFile, ForgetThen, AfterForget
  <1>20. CASE RaiseAbort
    BY <1>20 DEF RaiseAbort
  <1>21. CASE JoinIndexer
    BY <1>21 DEF JoinIndexer
  <1>22. CASE FreeMovie
    BY <1>22 DEF FreeMovie
  <1>23. CASE LeaveLoop
    BY <1>23 DEF LeaveLoop, LeaveLoopAt
  <1>24. CASE CleanUp
    BY <1>24 DEF CleanUp
  <1>25. CASE ResetIndex
    BY <1>25 DEF ResetIndex, ResetIndexTo
  <1>26. CASE OpenRefused
    BY <1>26 DEF OpenRefused
  <1>27. CASE OpenWithoutDecoder
    BY <1>27 DEF OpenWithoutDecoder
  <1>28. CASE OpenSucceeds
    BY <1>28, <1>0, MovieIndexAssumption DEF OpenSucceeds
  <1>29. CASE StartIndexer
    BY <1>29 DEF StartIndexer
  <1>30. CASE InitMovieBuffer
    BY <1>30 DEF InitMovieBuffer
  <1>31. CASE IndexSetup
    BY <1>31 DEF IndexSetup
  <1>32. CASE IndexAborts
    BY <1>32 DEF IndexAborts
  <1>33. CASE ScanPacket
    BY <1>33 DEF ScanPacket
  <1>34. CASE ScanFails
    BY <1>34 DEF ScanFails
  <1>35. CASE ScanEnds
    BY <1>35 DEF ScanEnds
  <1>36. CASE ChooseMode
    BY <1>36, <1>0 DEF ChooseMode
  <1>37. CASE VerifyKeyframe
    <2>1. \/ tpc' = "pass2"
          \/ tpc' = "pass3" /\ ti' = 0
      BY <1>37, Zenon DEF VerifyKeyframe
    <2>2. tpc = "pass2" /\ UNCHANGED <<MainOnly, indexVars>>
      BY <1>37, Zenon DEF VerifyKeyframe
    <2> QED BY <1>0, <2>1, <2>2
  <1>38. CASE VerifyEnds
    BY <1>38, <1>0 DEF VerifyEnds
  <1>39. CASE AssignSeekPosition
    BY <1>39, <1>0 DEF AssignSeekPosition
  <1>40. CASE AssignEnds
    <2>1. /\ tpc = "pass3" /\ ti >= fcnt /\ tpc' = "rewind"
          /\ UNCHANGED <<MainOnly, indexVars>>
      BY <1>40, Zenon DEF AssignEnds
    <2> QED BY <1>0, <2>1
  <1>41. CASE Rewind
    BY <1>41 DEF Rewind
  <1>42. CASE PublishIndex
    BY <1>42 DEF PublishIndex
  <1>43. CASE IndexReport
    BY <1>43 DEF IndexReport
  <1>44. CASE UNCHANGED vars
    BY <1>44
  <1> QED BY <1>1, <1>2, <1>3, <1>4, <1>5, <1>6, <1>7, <1>8, <1>9, <1>10,
    <1>11, <1>12, <1>13, <1>14, <1>15, <1>16, <1>17, <1>18, <1>19, <1>20,
    <1>21, <1>22, <1>23, <1>24, <1>25, <1>26, <1>27, <1>28, <1>29, <1>30,
    <1>31, <1>32, <1>33, <1>34, <1>35, <1>36, <1>37, <1>38, <1>39, <1>40,
    <1>41, <1>42, <1>43, <1>44 DEF Next, MainThread, Draw, Events, Close,
    Open, IndexThread, Exited

LEMMA Inductive == IndInv /\ [Next]_vars => IndInv'
BY NextFlags, NextData, NextCore DEF IndInv, TypeOK, CoreInv

THEOREM Invariant == Spec => []IndInv
  <1>1. Init => IndInv
    BY InitType, InitCore DEF IndInv
  <1> QED BY <1>1, Inductive, PTL DEF Spec

-----------------------------------------------------------------------------
(* What the inductive invariant gives.                                     *)

\* Every shared variable keeps its type: no counter of the index goes
\* negative, no picture is of a file that nobody asked for.
THEOREM TypeCorrect == Spec => []TypeOK
  <1>1. IndInv => TypeOK
    BY DEF IndInv
  <1> QED BY Invariant, <1>1, PTL

\* seek_frame never runs while index_frames uses the decoder, though no lock
\* protects it: scan_complete is set by the last step of a scan only, and a
\* new scan starts only after reset_index.
THEOREM DecoderIsExclusive == Spec => []DecoderExclusive
  <1>1. IndInv => DecoderExclusive
    BY DEF IndInv, CoreInv, SeekAllowed, TableProgress, DecoderExclusive
  <1> QED BY Invariant, <1>1, PTL

\* A scan never outlives the demuxer, the decoder and the table that it was
\* started for: whatever frees them joins the thread first.
THEOREM ScanKeepsItsMovie == Spec => []ScanHasItsMovie
  <1>1. IndInv => ScanHasItsMovie
    BY DEF IndInv, CoreInv, ThreadKnown, Stages, MovieWhole, Scanning,
           ScanHasItsMovie
  <1> QED BY Invariant, <1>1, PTL

\* seek_frame reads only a seek table that was completed for the open file.
THEOREM SeeksAreIndexed == Spec => []SeekUsesWholeIndex
  <1>1. IndInv => SeekUsesWholeIndex
    BY MovieIndexAssumption
       DEF IndInv, TypeOK, DataOK, CoreInv, SeekAllowed, TableProgress,
           MovieWhole, SeekUsesWholeIndex
  <1> QED BY Invariant, <1>1, PTL

\* start_index_thread never meets a thread of an earlier movie.
THEOREM NoThreadAtStart == Spec => []StartFindsNoThread
  <1>1. IndInv => StartFindsNoThread
    BY DEF IndInv, CoreInv, Stages, StartFindsNoThread
  <1> QED BY Invariant, <1>1, PTL

-----------------------------------------------------------------------------
(* The picture in the window.  A redraw that nobody can see yet is not a   *)
(* flag but a place in the code, and display_frame does nothing without an *)
(* image buffer: both belong to the invariant.                             *)

Requests == {"closing", "abort", "join", "free"}

Stale == screen.kind = "frame" /\ screen.file # current_file

BufferThere == ~buffer => mpc \in {"reset", "opening", "start", "initbuf",
                                   "exit"}

\* A request that finds no movie changes nothing: its redraw is the one that
\* was asked for before.
NothingToClose ==
  Stale /\ ~pFrameFMT /\ mpc \in Requests => force_redraw

PictureInv == StalePictureIsRedrawn /\ BufferThere /\ NothingToClose

LEMMA InitPicture == Init => PictureInv
BY DEF Init, PictureInv, StalePictureIsRedrawn, BufferThere, NothingToClose,
       Stale, Still, Requests

LEMMA NextPicture == CoreInv /\ PictureInv /\ [Next]_vars => PictureInv'
  <1> SUFFICES ASSUME CoreInv /\ PictureInv, [Next]_vars PROVE PictureInv'
    OBVIOUS
  <1> USE DEF PictureInv, StalePictureIsRedrawn, BufferThere, NothingToClose,
    Stale, Requests
  <1>1. CASE LoopOffline
    BY <1>1 DEF LoopOffline
  <1>2. CASE PollTransport
    <2>1. force_redraw => force_redraw'
      BY <1>2, Zenon DEF PollTransport
    <2>2. mpc = "top" /\ mpc' = "take"
          /\ UNCHANGED <<screen, movieVars>>
      BY <1>2, Zenon DEF PollTransport
    <2> QED BY <2>1, <2>2
  <1>3. CASE TakeRedraw
    BY <1>3 DEF TakeRedraw
  <1>4. CASE ClearRedraw
    BY <1>4 DEF ClearRedraw
  <1>5. CASE DisplayNoIndex
    BY <1>5 DEF DisplayNoIndex, DisplayNoIndexIf, DisplayStill, Still
  <1>6. CASE DisplayOutOfRange
    BY <1>6 DEF DisplayOutOfRange, DisplayStill, Still
  <1>7. CASE DisplaySame
    BY <1>7 DEF DisplaySame
  <1>8. CASE DisplayDecode
    BY <1>8 DEF DisplayDecode
  <1>9. CASE SeekReturns
    BY <1>9 DEF SeekReturns, Still, FrameOf, CoreInv, MovieWhole, SeekAllowed
  <1>10. CASE SplashCheck
    BY <1>10 DEF SplashCheck
  <1>11. CASE EventsDone
    BY <1>11 DEF EventsDone
  <1>12. CASE CmdClose
    BY <1>12 DEF CmdClose, Command
  <1>13. CASE CmdRedraw
    BY <1>13 DEF CmdRedraw, Command
  <1>14. CASE CmdQuit
    BY <1>14 DEF CmdQuit, Command
  <1>15. CASE CmdMapWindow
    BY <1>15 DEF CmdMapWindow, Command
  <1>16. CASE CmdCloseWindow
    BY <1>16 DEF CmdCloseWindow, Command, Still
  <1>17. CASE CmdOpenWindow
    BY <1>17 DEF CmdOpenWindow, Command, CallOpen, CallOpenClosing
  <1>18. ASSUME NEW f \in Files \cup {NoFile}, CmdOpen(f)
        PROVE  PictureInv'
    BY <1>18 DEF CmdOpen, Command, CallOpen, CallOpenClosing
  <1>19. CASE ForgetFile
    BY <1>19 DEF ForgetFile, ForgetThen, AfterForget, CoreInv, MovieWhole
  <1>20. CASE RaiseAbort
    BY <1>20 DEF RaiseAbort
  <1>21. CASE JoinIndexer
    BY <1>21 DEF JoinIndexer
  <1>22. CASE FreeMovie
    BY <1>22 DEF FreeMovie, CoreInv, MovieWhole
  <1>23. CASE LeaveLoop
    BY <1>23 DEF LeaveLoop, LeaveLoopAt
  <1>24. CASE CleanUp
    BY <1>24 DEF CleanUp, Still
  <1>25. CASE ResetIndex
    BY <1>25 DEF ResetIndex, ResetIndexTo
  <1>26. CASE OpenRefused
    BY <1>26 DEF OpenRefused
  <1>27. CASE OpenWithoutDecoder
    BY <1>27 DEF OpenWithoutDecoder
  <1>28. CASE OpenSucceeds
    BY <1>28 DEF OpenSucceeds
  <1>29. CASE StartIndexer
    BY <1>29 DEF StartIndexer, CoreInv, Stages
  <1>30. CASE InitMovieBuffer
    BY <1>30 DEF InitMovieBuffer
  <1>31. CASE IndexSetup
    BY <1>31 DEF IndexSetup
  <1>32. CASE IndexAborts
    BY <1>32 DEF IndexAborts
  <1>33. CASE ScanPacket
    BY <1>33 DEF ScanPacket, ReportProgress
  <1>34. CASE ScanFails
    <2>1. force_redraw => force_redraw'
      BY <1>34, Zenon DEF ScanFails, ReportProgress
    <2>2. UNCHANGED <<mpc, drawVars, movieVars>>
      BY <1>34, Zenon DEF ScanFails
    <2> QED BY <2>1, <2>2
  <1>35. CASE ScanEnds
    BY <1>35 DEF ScanEnds
  <1>36. CASE ChooseMode
    BY <1>36 DEF ChooseMode
  <1>37. CASE VerifyKeyframe
    <2>1. force_redraw => force_redraw'
      BY <1>37, Zenon DEF VerifyKeyframe, ReportProgress
    <2>2. UNCHANGED <<mpc, drawVars, movieVars>>
      BY <1>37, Zenon DEF VerifyKeyframe
    <2> QED BY <2>1, <2>2
  <1>38. CASE VerifyEnds
    BY <1>38 DEF VerifyEnds
  <1>39. CASE AssignSeekPosition
    <2>1. force_redraw => force_redraw'
      BY <1>39, Zenon DEF AssignSeekPosition, ReportProgress
    <2>2. UNCHANGED <<mpc, drawVars, movieVars>>
      BY <1>39, Zenon DEF AssignSeekPosition
    <2> QED BY <2>1, <2>2
  <1>40. CASE AssignEnds
    BY <1>40 DEF AssignEnds
  <1>41. CASE Rewind
    BY <1>41 DEF Rewind
  <1>42. CASE PublishIndex
    BY <1>42 DEF PublishIndex
  <1>43. CASE IndexReport
    BY <1>43 DEF IndexReport
  <1>44. CASE UNCHANGED vars
    BY <1>44
  <1> QED BY <1>1, <1>2, <1>3, <1>4, <1>5, <1>6, <1>7, <1>8, <1>9, <1>10,
    <1>11, <1>12, <1>13, <1>14, <1>15, <1>16, <1>17, <1>18, <1>19, <1>20,
    <1>21, <1>22, <1>23, <1>24, <1>25, <1>26, <1>27, <1>28, <1>29, <1>30,
    <1>31, <1>32, <1>33, <1>34, <1>35, <1>36, <1>37, <1>38, <1>39, <1>40,
    <1>41, <1>42, <1>43, <1>44 DEF Next, MainThread, Draw, Events, Close,
    Open, IndexThread, Exited

\* A frame of a file that was closed or replaced does not stay in the window:
\* as long as it shows one, a redraw is asked for or under way.
THEOREM StalePictureGoes == Spec => []StalePictureIsRedrawn
  <1>1. IndInv /\ PictureInv /\ [Next]_vars => PictureInv'
    BY NextPicture DEF IndInv
  <1>2. PictureInv => StalePictureIsRedrawn
    BY DEF PictureInv
  <1> QED BY InitPicture, Invariant, <1>1, <1>2, PTL DEF Spec

-----------------------------------------------------------------------------
(* Refinement: what the user sees is the player of module MoviePlayer.     *)

\* What the user sees.
seen == <<current_file, scan_complete, screen>>

\* The steps that may change it.
VisibleStep ==
  \/ DisplayNoIndex \/ DisplayOutOfRange \/ SeekReturns \/ CmdCloseWindow
  \/ CleanUp \/ ForgetFile \/ ResetIndex \/ OpenSucceeds \/ PublishIndex

LEMMA OthersUnseen == [Next]_vars => VisibleStep \/ UNCHANGED seen
  <1> SUFFICES ASSUME [Next]_vars PROVE VisibleStep \/ UNCHANGED seen
    OBVIOUS
  <1> USE DEF VisibleStep, seen
  <1>1. CASE Draw
    BY <1>1 DEF Draw, LoopOffline, PollTransport, TakeRedraw, ClearRedraw,
       DisplaySame, DisplayDecode, SplashCheck
  <1>2. CASE Events
    BY <1>2 DEF Events, EventsDone, CmdOpen, CmdClose, CmdRedraw, CmdQuit,
       CmdMapWindow, CmdOpenWindow
  <1>3. CASE Close
    BY <1>3 DEF Close, RaiseAbort, JoinIndexer, FreeMovie, LeaveLoop,
       LeaveLoopAt
  <1>4. CASE Open
    BY <1>4 DEF Open, OpenRefused, OpenWithoutDecoder, StartIndexer,
       InitMovieBuffer
  <1>5. CASE IndexThread
    BY <1>5 DEF IndexThread, IndexSetup, IndexAborts, ScanPacket, ScanFails,
       ScanEnds, ChooseMode, VerifyKeyframe, VerifyEnds, AssignSeekPosition,
       AssignEnds, Rewind, IndexReport
  <1>6. CASE UNCHANGED vars \/ Exited
    BY <1>6 DEF Exited
  <1> QED BY <1>1, <1>2, <1>3, <1>4, <1>5, <1>6 DEF Next, MainThread

LEMMA PlayerStep ==
  DataOK /\ CoreInv /\ [Next]_vars => [Player!PlayerNext]_(Player!playerVars)
  <1> SUFFICES ASSUME DataOK, CoreInv, [Next]_vars
               PROVE  Player!PlayerNext \/ UNCHANGED Player!playerVars
    OBVIOUS
  <1> USE DEF Player!PlayerNext, Player!playerVars
  <1>1. CASE UNCHANGED seen
    BY <1>1 DEF seen
  <1>2. CASE DisplayNoIndex
    BY <1>2 DEF DisplayNoIndex, DisplayNoIndexIf, DisplayStill, Still,
       Player!Blank
  <1>3. CASE DisplayOutOfRange
    BY <1>3 DEF DisplayOutOfRange, DisplayStill, Still, Player!Blank
  <1>4. CASE SeekReturns
    <2>1. /\ scan_complete /\ current_file # NoFile
          /\ UNCHANGED <<scan_complete, current_file>>
      BY <1>4 DEF SeekReturns, CoreInv, SeekAllowed
    <2>2. CASE pFrameFMT /\ screen' = FrameOf(ctx, dispFrame)
      <3>1. ctx = current_file
        BY <2>1 DEF CoreInv, MovieWhole
      <3>2. Player!Show(dispFrame)
        BY <2>1, <2>2, <3>1 DEF FrameOf, Player!Show
      <3> QED BY <3>2 DEF DataOK
    <2>3. CASE screen' = Still("empty")
      BY <2>1, <2>3 DEF Still, Player!Blank
    <2>4. CASE screen' = screen
      BY <2>1, <2>4
    <2> QED BY <1>4, <2>2, <2>3, <2>4 DEF SeekReturns
  <1>5. CASE CmdCloseWindow
    BY <1>5 DEF CmdCloseWindow, Command, Still, Player!Blank
  <1>6. CASE CleanUp
    BY <1>6 DEF CleanUp, Still, Player!Blank
  <1>7. CASE ForgetFile
    BY <1>7 DEF ForgetFile, ForgetThen, Player!Unload
  <1>8. CASE ResetIndex
    BY <1>8 DEF ResetIndex, ResetIndexTo, CoreInv, Stages, MovieWhole
  <1>9. CASE OpenSucceeds
    <2>1. req \in Files /\ current_file = NoFile /\ ~scan_complete
      BY <1>9 DEF OpenSucceeds, DataOK, CoreInv, Stages, MovieWhole
    <2>2. Player!Load(req)
      BY <1>9, <2>1 DEF OpenSucceeds, Player!Load
    <2> QED BY <2>1, <2>2
  <1>10. CASE PublishIndex
    <2>1. /\ UNCHANGED <<current_file, screen>>
          /\ scan_complete' = TRUE \/ UNCHANGED scan_complete
      BY <1>10 DEF PublishIndex
    <2> QED BY <2>1 DEF Player!BecomesReady
  <1> QED BY OthersUnseen, <1>1, <1>2, <1>3, <1>4, <1>5, <1>6, <1>7, <1>8,
          <1>9, <1>10 DEF VisibleStep

LEMMA PlayerStart == Init => Player!PlayerInit
BY DEF Init, Player!PlayerInit, Still

\* The two threads, the table and the flags implement MoviePlayer: a frame is
\* shown of the loaded file only, once it is ready, and a file is loaded only
\* after the one before was given up.
THEOREM PlayerImplemented == Spec => ImplementsPlayer
  <1>1. IndInv /\ [Next]_vars => [Player!PlayerNext]_(Player!playerVars)
    BY PlayerStep DEF IndInv, TypeOK
  <1> QED BY PlayerStart, Invariant, <1>1, PTL
          DEF Spec, ImplementsPlayer, Player!Safety
=============================================================================
