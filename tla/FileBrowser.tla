---------------------------- MODULE FileBrowser ----------------------------
(***************************************************************************)
(* The file dialog of the X11 windows and the list of recently used files  *)
(* (libsofd.c).  The dialog is one record fib of what the static variables *)
(* of that file hold; the helpers that the event handlers call one after   *)
(* the other are operators from such a record to the next one.             *)
(*                                                                         *)
(* A path is the sequence of its names, a name is a number in the order of *)
(* strcmp.  Indices into the list are those of the code, from 0.           *)
(***************************************************************************)
EXTENDS Integers, FiniteSets, SequencesExt

CONSTANTS
  Entries,     \* [dir, name, isdir, hid, movie, size, time] that may exist
  Home,        \* $HOME
  Recents,     \* the "path" of the recently used files: the empty string
  Rows,        \* the numbers of lines that fit into the window
  ShownRows,   \* ... when it opens
  Columns,     \* the columns with a heading: 1 name, 2 size, 3 time
  MaxRecent,   \* MAX_RECENT_ENTRIES
  MaxAge,      \* MAX_RECENT_AGE
  MaxTime,     \* bound on the clock
  MaxMissing,  \* bound on the entries of a directory that a reader misses
  TooLong,     \* paths whose line in the saved list exceeds the reader's buffer
  Calm         \* no directory changes under its reader

ASSUME EntriesAssumption ==
  /\ IsFiniteSet(Entries) /\ Home \in Seq(Nat)
  /\ \A e \in Entries : /\ e.dir \in Seq(Nat) /\ {e.name, e.size, e.time} \subseteq Nat
                        /\ {e.isdir, e.hid, e.movie} \subseteq BOOLEAN
  /\ \A e, f \in Entries : e.dir = f.dir /\ e.name = f.name => e = f
ASSUME BoundsAssumption ==
  /\ Rows \subseteq Int /\ ShownRows \in Rows /\ Columns \subseteq 1..3
  /\ MaxRecent \in Nat \ {0} /\ MaxAge \in Nat /\ MaxTime \in Nat /\ MaxMissing \in Nat
  /\ Calm \in BOOLEAN

VARIABLES
  fib,      \* the dialog
  recent,   \* _recentlist: [path, atime], the latest first
  clock     \* time ()

fibVars == <<fib, recent, clock>>

PathOf(e) == Append(e.dir, e.name)
Paths == {PathOf(e) : e \in Entries}
Dirs == {<<>>, Home} \cup {PathOf(e) : e \in {f \in Entries : f.isdir}}
Movies == {e \in Entries : e.movie}

\* A directory lies in directories, and the empty string is none of them.
ASSUME TreeAssumption ==
  /\ \A d \in Dirs : \A n \in 0..Len(d) : SubSeq(d, 1, n) \in Dirs
  /\ Recents \notin Dirs

\* What a reader may find of S: entries vanish or become unreadable.
Found(S) == {there \in SUBSET S : Cardinality(S \ there) <= MaxMissing}
AtLeast0(n) == IF n < 0 THEN 0 ELSE n

---------------------------------------------------------------------------
(* Elements in the order in which each comes after those in before[i].     *)
InOrder(before) ==
  [n \in 1..Cardinality(DOMAIN before) |->
     CHOOSE i \in DOMAIN before : Cardinality(before[i]) = n - 1]

(* qsort: a merge sort, so elements that compare equal keep their order.   *)
StableSort(s, Before(_, _)) ==
  LET order == InOrder([i \in DOMAIN s |->
                 {j \in DOMAIN s : \/ Before(s[j], s[i])
                                  \/ (~Before(s[i], s[j]) /\ j < i)}])
  IN  [n \in DOMAIN s |-> s[order[n]]]

(* The recently used files. *)
LaterUsed(a, b) == a.atime > b.atime

\* Mutant: files are added while the dialog points into the list.
LockedNever == FALSE

Locked == fib.shown

\* Mutant: a file that is used again keeps its place.
AddedInPlace(r, p, t) ==
  IF \E i \in DOMAIN r : r[i].path = p
  THEN [i \in DOMAIN r |-> IF r[i].path = p THEN [r[i] EXCEPT !.atime = t] ELSE r[i]]
  ELSE LET l == <<[path |-> p, atime |-> t]>> \o r
       IN  IF Len(l) > MaxRecent THEN SubSeq(l, 1, MaxRecent) ELSE l

Added(r, p, t) ==
  LET known == {i \in DOMAIN r : r[i].path = p}
      touched == [i \in DOMAIN r |->
                    IF i \in known /\ r[i].atime < t
                    THEN [r[i] EXCEPT !.atime = t] ELSE r[i]]
      sorted == StableSort(IF known # {} THEN touched
                           ELSE Append(r, [path |-> p, atime |-> t]), LaterUsed)
  IN  IF Len(sorted) > MaxRecent THEN SubSeq(sorted, 1, MaxRecent) ELSE sorted

TooOld(t) == t + MaxAge < clock

\* The path is escaped for the file and read back from a buffer of one line.
SurvivesFile(path) == path \notin TooLong

\* x_fib_save_recent and, in the next process, x_fib_load_recent: line by line
Reloaded(r, there) ==
  LET upto[n \in 0..Len(r)] ==
        IF n = 0 THEN <<>>
        ELSE IF ~SurvivesFile(r[n].path) \/ r[n].path \notin there \/ TooOld(r[n].atime)
             THEN upto[n - 1] ELSE Added(upto[n - 1], r[n].path, r[n].atime)
  IN  upto[Len(r)]

---------------------------------------------------------------------------
(* Drawing, which also keeps the scroll position inside the list.          *)
NumRows(u) == Len(u.list)

HasScrollBar(u) == u.llen < NumRows(u)

\* Mutant: the scroll position is left where it was.
FirstRowKept(u) == u.scrl

FirstRow(u) ==
  IF u.scrl > 0 /\ u.scrl + u.llen > NumRows(u)
  THEN AtLeast0(NumRows(u) - u.llen) ELSE u.scrl

Painted(u) == [u EXCEPT !.scrl = FirstRow(u), !.bar = HasScrollBar(u)]

Exposed(u) == IF u.mapped THEN Painted(u) ELSE u

\* The lines of the list that are read to be drawn.
DrawnRows(u) == {j \in u.scrl..(u.scrl + u.llen - 1) : j < NumRows(u)}

\* Those that a click finds: a few pixels below the last one are the next.
ClickableRows(u) == {j \in u.scrl..(u.scrl + u.llen) : 0 <= j /\ j < NumRows(u)}

Unmarked(u) ==
  IF u.fsel < 0 THEN u.list
  ELSE [u.list EXCEPT ![u.fsel + 1].on = FALSE]

Selected(u, item) ==
  IF item >= 0 /\ item < NumRows(u)
  THEN Exposed([u EXCEPT
         !.list = [Unmarked(u) EXCEPT ![item + 1].on = TRUE],
         !.fsel = item,
         !.scrl = IF item < u.scrl THEN item
                  ELSE IF item >= u.scrl + u.llen THEN 1 + item - u.llen
                  ELSE u.scrl])
  ELSE Exposed([u EXCEPT !.list = Unmarked(u), !.fsel = -1])

\* cmp_n_up .. cmp_t_up: a stands before b.
Before(sort, a, b) ==
  IF a.isdir # b.isdir THEN a.isdir
  ELSE CASE sort = 0 -> a.name < b.name
         [] sort = 1 -> a.name > b.name
         [] sort = 2 -> ~a.isdir /\ a.size < b.size
         [] sort = 3 -> ~a.isdir /\ a.size > b.size
         [] sort = 4 -> a.time < b.time
         [] sort = 5 -> a.time > b.time

SortedBy(s, sort) == StableSort(s, LAMBDA a, b : Before(sort, a, b))

NoName == -1
SelectedName(u) == IF u.fsel >= 0 THEN u.list[u.fsel + 1].name ELSE NoName

Resorted(u, sel) ==
  IF NumRows(u) < 1 THEN u
  ELSE LET sorted == SortedBy(u.list, u.sort)
           named == {i \in DOMAIN sorted : sorted[i].name = sel}
       IN  [u EXCEPT !.list = sorted,
                     !.fsel = IF named = {} THEN @
                              ELSE (CHOOSE i \in named : \A j \in named : i <= j) - 1]

---------------------------------------------------------------------------
(* Reading a directory, or the list of recent files.                       *)
Listed(u, e) == (u.hidden \/ ~e.hid) /\ (e.isdir \/ ~u.filter \/ e.movie)

Line(e, t, rfp) ==
  [dir |-> e.dir, name |-> e.name, isdir |-> e.isdir, size |-> e.size,
   time |-> t, rfp |-> rfp, on |-> FALSE]

\* fib_pre_opendir forgets the old list, and l is what is read in d.
Relisted(u, d, l) == [u EXCEPT !.list = l, !.fsel = -1, !.scrl = 0, !.cur = d]

PostOpen(u, sel) ==
  LET v == Resorted([u EXCEPT !.fsel = IF NumRows(u) > 0 THEN 0 ELSE -1], sel)
  IN  IF NumRows(v) > 0 /\ v.fsel >= 0 THEN Selected(v, v.fsel) ELSE Exposed(v)

RecentLine(j) ==
  Line(CHOOSE e \in Entries : PathOf(e) = recent[j].path, recent[j].atime, j)

\* The lines of the recent files that are there, in their order.
RecentLines(u, there) ==
  LET seen == {j \in DOMAIN recent : \E e \in there : PathOf(e) = recent[j].path /\ Listed(u, e)}
      order == InOrder([j \in seen |-> {k \in seen : k < j}])
  IN  [n \in 1..Cardinality(seen) |-> RecentLine(order[n])]

OpenRecent(u, sel) ==
  {PostOpen(Relisted(u, Recents, RecentLines(u, there)), sel) : there \in Found(Entries)}

In(d, there) == {e \in there : e.dir = d}

\* Mutant: hidden names are not counted, although they are shown.
CountedVisible(u, there) == Cardinality({e \in there : ~e.hid})

\* The number of names that the first pass over a directory counts.
Counted(u, there) ==
  IF u.hidden THEN Cardinality(there) + 2
  ELSE Cardinality({e \in there : ~e.hid})

\* fib_dirlistadd's assertion on the number of lines, for some order of reading
Overflows(u, counted, there) ==
  \E e \in there : /\ u.hidden \/ ~e.hid
                   /\ Cardinality({f \in there : Listed(u, f)} \ {e}) >= counted

Aborted(u) == [u EXCEPT !.aborted = TRUE]

Readings(u, d) ==
  UNION {SetToSeqs({Line(e, e.time, 0) : e \in {f \in there : Listed(u, f)}}) :
           there \in Found(In(d, Entries))}

MayAbort(u, d) ==
  \E before, there \in Found(In(d, Entries)) :
    (Calm => before = there) /\ Overflows(u, Counted(u, before), there)

OpenDir(u, d, sel) ==
  IF d = Recents
  THEN IF Len(recent) > 0 THEN OpenRecent(u, sel) ELSE {Aborted(u)}
  ELSE {PostOpen(Relisted(u, <<>>, <<>>), sel)}   \* opendir () failed
       \cup {PostOpen(Relisted(u, d, l), sel) : l \in Readings(u, d)}
       \cup (IF MayAbort(u, d) THEN {Aborted(u)} ELSE {})

---------------------------------------------------------------------------
(* What an event does: the handlers end by closing a dialog that is done.  *)
\* What x_fib_show sets anew before anything reads it is set at once.
Closed(u) ==
  [u EXCEPT !.shown = FALSE, !.list = <<>>, !.fsel = -1, !.scrl = 0, !.bar = FALSE,
            !.mapped = FALSE, !.llen = ShownRows]

Done(u) == IF u.status # 0 THEN Closed(u) ELSE u

Chosen(u, path) == [u EXCEPT !.status = 1, !.chosen = path]

Opened(u, item) ==
  LET l == u.list[item + 1] IN
  CASE l.rfp # 0 -> {Chosen(u, recent[l.rfp].path)}
    [] l.rfp = 0 /\ l.isdir -> OpenDir(u, Append(u.cur, l.name), NoName)
    [] OTHER -> {Chosen(u, Append(u.cur, l.name))}

OpenSelected(u) ==
  IF u.fsel >= 0 /\ u.fsel < NumRows(u) THEN Opened(u, u.fsel) ELSE {u}

Active == fib.shown /\ fib.status = 0 /\ ~fib.aborted
Pointer == Active /\ fib.mapped
Keyboard == Active

Becomes(S) == \E u \in S : fib' = Done(u)

\* The clamping of a new scroll position, to an end that may be negative.
InRange(n, last) == IF AtLeast0(n) >= last THEN last ELSE AtLeast0(n)

LastTop(u) == NumRows(u) - u.llen

ScrolledTo(u, n) ==
  IF n # u.scrl /\ u.bar
  THEN IF n < 0 THEN Aborted(u) ELSE Exposed([u EXCEPT !.scrl = n])
  ELSE u

---------------------------------------------------------------------------
(* The pointer. *)
MaxRows == Cardinality(Entries)

Fresh ==
  [shown |-> FALSE, mapped |-> FALSE, aborted |-> FALSE, status |-> -2, cur |-> Recents,
   chosen |-> <<>>, list |-> <<>>, fsel |-> -1, scrl |-> 0, llen |-> ShownRows, bar |-> FALSE,
   drag |-> FALSE, dblclk |-> FALSE, sort |-> 0, filter |-> TRUE, hidden |-> FALSE]

Quiet == UNCHANGED <<recent, clock>>

ScrollBarDrag ==
  /\ Pointer /\ fib.bar
  /\ fib' = [fib EXCEPT !.dblclk = FALSE, !.drag = TRUE]
  /\ Quiet

\* Above or below the slider: a page up or down.
ScrollBarPage ==
  /\ Pointer /\ fib.bar
  /\ \E dir \in {-1, 1} :
       LET llen == IF fib.llen < 2 THEN 2 ELSE fib.llen
       IN  fib' = ScrolledTo([fib EXCEPT !.dblclk = FALSE],
                             InRange(fib.scrl + dir * (llen - 1), NumRows(fib) - llen))
  /\ Quiet

Motion ==   \* any distance; without a drag only what is highlighted changes
  /\ Pointer /\ fib.drag
  /\ \E n \in 0..MaxRows :
       fib' = LET m == InRange(n, LastTop(fib)) IN
              IF m # fib.scrl THEN Exposed([fib EXCEPT !.scrl = m]) ELSE fib
  /\ Quiet

MouseUp ==
  /\ Pointer /\ fib.drag
  /\ fib' = [fib EXCEPT !.drag = FALSE]
  /\ Quiet

Wheel ==
  /\ Pointer /\ ClickableRows(fib) # {}
  /\ \E dir \in {-1, 1} :
       fib' = [ScrolledTo(fib, InRange(fib.scrl + dir, LastTop(fib))) EXCEPT !.dblclk = FALSE]
  /\ Quiet

\* The second click in DBLCLKTME milliseconds opens.
ClickFile ==
  /\ Pointer
  /\ \E item \in ClickableRows(fib), fast \in BOOLEAN :
       /\ fast => fib.dblclk
       /\ \E u \in (IF fib.fsel # item THEN {Selected(fib, item)}
                    ELSE IF fast THEN Opened(fib, item) ELSE {fib}) :
            fib' = Done([u EXCEPT !.dblclk = TRUE])
  /\ Quiet

ClickPath ==
  /\ Pointer /\ fib.cur # Recents
  /\ \E it \in 0..Len(fib.cur) :
       Becomes(OpenDir(fib, SubSeq(fib.cur, 1, it),
                       IF it < Len(fib.cur) THEN fib.cur[it + 1] ELSE SelectedName(fib)))
  /\ Quiet

\* Home, bookmarks and mounts are directories; any of them may be a place.
Places == Dirs \cup (IF recent # <<>> THEN {Recents} ELSE {})

ClickPlace ==
  /\ Pointer
  /\ \E d \in Places : Becomes(OpenDir(fib, d, NoName))
  /\ Quiet

ResortedBy(u, c) ==
  LET up == 2 * (c - 1)
      w == [u EXCEPT !.sort = IF u.sort = up THEN up + 1 ELSE up, !.list = Unmarked(u)]
      v == [Resorted(w, SelectedName(w)) EXCEPT !.scrl = 0]
  IN  Selected(v, v.fsel)

ClickSort == Pointer /\ (\E c \in Columns : fib' = ResortedBy(fib, c)) /\ Quiet

ClickFilter ==
  /\ Pointer
  /\ Becomes(OpenDir([fib EXCEPT !.filter = ~@], fib.cur, SelectedName(fib)))
  /\ Quiet

ClickHidden ==
  /\ Pointer
  /\ Becomes(OpenDir([fib EXCEPT !.hidden = ~@], fib.cur, SelectedName(fib)))
  /\ Quiet

ClickOpenButton == Pointer /\ Becomes(OpenSelected(fib)) /\ Quiet

---------------------------------------------------------------------------
(* The keyboard. *)
Cancel ==   \* Escape, the button, or the window manager
  Keyboard /\ Becomes({[fib EXCEPT !.status = -1]}) /\ Quiet

KeyUp == Keyboard /\ fib.fsel > 0 /\ fib' = Selected(fib, fib.fsel - 1) /\ Quiet

KeyDown ==
  Keyboard /\ fib.fsel < NumRows(fib) - 1 /\ fib' = Selected(fib, fib.fsel + 1) /\ Quiet

PageStep(u) == IF u.llen < 1 THEN 1 ELSE u.llen - 1

KeyPageUp ==
  /\ Keyboard /\ fib.fsel > 0
  /\ fib' = Selected(fib, AtLeast0(fib.fsel - PageStep(fib)))
  /\ Quiet

KeyPageDown ==
  /\ Keyboard /\ fib.fsel < NumRows(fib)
  /\ LET to == fib.fsel + PageStep(fib)
         last == NumRows(fib) - 1
     IN  fib' = Selected(fib, IF to < last THEN to ELSE last)
  /\ Quiet

KeyLeft ==
  /\ Keyboard /\ fib.cur # Recents /\ fib.cur # <<>>
  /\ Becomes(OpenDir(fib, Front(fib.cur), Last(fib.cur)))
  /\ Quiet

KeyRight ==
  /\ Keyboard /\ fib.fsel >= 0 /\ fib.fsel < NumRows(fib)
  /\ fib.list[fib.fsel + 1].isdir
  /\ Becomes(Opened(fib, fib.fsel))
  /\ Quiet

KeyReturn == Keyboard /\ Becomes(OpenSelected(fib)) /\ Quiet

\* A letter: the next entry that begins with it.
KeyLetter ==
  /\ Keyboard
  /\ \E i \in 0..(NumRows(fib) - 1) :
       LET At(k) == (fib.fsel + k + 1) % NumRows(fib)
           name == fib.list[At(i) + 1].name
       IN  /\ \A k \in 0..(i - 1) : fib.list[At(k) + 1].name # name
           /\ fib' = Selected(fib, At(i))
  /\ Quiet

---------------------------------------------------------------------------
(* The window, and the program around the dialog. *)
Map == Active /\ ~fib.mapped /\ fib' = Exposed([fib EXCEPT !.mapped = TRUE]) /\ Quiet

Unmap == Active /\ fib.mapped /\ fib' = [fib EXCEPT !.mapped = FALSE] /\ Quiet

Resize ==   \* ConfigureNotify and the Expose that follows it
  /\ Active
  /\ \E n \in Rows : fib' = Exposed([fib EXCEPT !.llen = n])
  /\ Quiet

Show ==
  /\ ~fib.shown /\ ~fib.aborted
  /\ LET u == [fib EXCEPT !.shown = TRUE, !.status = 0, !.chosen = <<>>]
         first == IF u.cur = Recents THEN {} ELSE OpenDir(u, u.cur, NoName)
     IN  \/ \E v \in first : (v.list # <<>> \/ v.aborted) /\ fib' = v
         \/ /\ first = {} \/ \E v \in first : v.list = <<>>
            /\ \E v \in OpenDir(u, Home, NoName) : fib' = v
  /\ Quiet

Close ==   \* close_window
  /\ fib.shown /\ ~fib.aborted
  /\ fib' = Closed(fib)
  /\ Quiet

\* open_movie () succeeded: with the chosen file, or with any other.
AddRecent ==
  /\ ~fib.aborted
  /\ \E e \in Movies : recent' = IF Locked THEN recent ELSE Added(recent, PathOf(e), clock)
  /\ UNCHANGED <<fib, clock>>

Tick == clock < MaxTime /\ clock' = clock + 1 /\ UNCHANGED <<fib, recent>>

\* clean_up () and the start of another process
Restart ==
  /\ ~fib.aborted
  /\ \E there \in SUBSET Movies :
       recent' = Reloaded(recent, {PathOf(e) : e \in there})
  /\ fib' = Fresh
  /\ UNCHANGED clock

FibInit == fib = Fresh /\ recent = <<>> /\ clock = 0

Point ==
  \/ ScrollBarDrag \/ ScrollBarPage \/ Motion \/ MouseUp \/ Wheel \/ ClickFile
  \/ ClickPath \/ ClickPlace \/ ClickSort \/ ClickFilter \/ ClickHidden \/ ClickOpenButton

Key ==
  \/ Cancel \/ KeyUp \/ KeyDown \/ KeyPageUp \/ KeyPageDown
  \/ KeyLeft \/ KeyRight \/ KeyReturn \/ KeyLetter

FibNext ==
  \/ Point \/ Key
  \/ Map \/ Unmap \/ Resize \/ Show \/ Close
  \/ AddRecent \/ Tick \/ Restart

FibSpec == FibInit /\ [][FibNext]_fibVars

---------------------------------------------------------------------------
FibTypeOK ==
  /\ fib.fsel \in -1..(NumRows(fib) - 1) \/ ~fib.shown
  /\ fib.scrl \in Int /\ fib.drag \in BOOLEAN /\ fib.llen \in Rows
  /\ fib.sort \in 0..5 /\ fib.status \in -2..1
  /\ fib.cur \in Dirs \cup {Recents}
  /\ \A i \in DOMAIN fib.list : fib.list[i].rfp \in 0..Len(recent)
  /\ \A i \in DOMAIN recent : recent[i] \in [path : Paths, atime : 0..MaxTime]
  /\ clock \in 0..MaxTime

\* No assertion of the dialog fails: a directory has no more names than were
\* counted, and a new scroll position is not negative.
AssertionsHold == ~fib.aborted

\* u would be drawn from lines of its list (fib_expose stops at its end only),
\* and where there is a scroll bar they fill the window.
RowsInList(u) ==
  LET v == Painted(u)
  IN  /\ DrawnRows(v) \subseteq 0..(NumRows(v) - 1)
      /\ v.bar => Cardinality(DrawnRows(v)) = AtLeast0(v.llen)

\* No step takes the drawing out of the list, or leaves room below it that it
\* could fill: no listing, sorting, filtering, selecting, scrolling, resizing
\* and no drag.  The exception is a drag that outlives its scroll bar.
DrawnRowsExist ==
  [][RowsInList(fib) => RowsInList(fib)' \/ (fib.drag /\ ~fib.bar)]_fibVars

\* What fib_mousedown asserts of a new scroll position, twice, and fib_motion
\* does not: it is the index of a line.
ScrollPositionNotNegative == fib.shown /\ fib.mapped => fib.scrl >= 0

\* The file that the dialog returns is the one that it shows as selected,
\* whatever was sorted, filtered, listed anew or opened by others before:
\* the lines of the recent files are pointers into a list that changes.
OpensWhatIsMarked ==
  [][fib.status = 0 /\ fib'.status = 1 =>
       \E i \in DOMAIN fib.list :
         /\ fib.list[i].on
         /\ \A j \in DOMAIN fib.list : fib.list[j].on => i = j
         /\ fib'.chosen = Append(fib.list[i].dir, fib.list[i].name)]_fibVars

\* The recent files are in order, each once, no more than MAX_RECENT_ENTRIES.
RecentInOrder ==
  /\ Len(recent) <= MaxRecent
  /\ \A i, j \in DOMAIN recent : i < j =>
       recent[i].path # recent[j].path /\ recent[i].atime >= recent[j].atime
=============================================================================
