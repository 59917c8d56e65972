--------------------------- MODULE MCFileBrowser ---------------------------
(* A root with a directory and two files, one of them no movie; the        *)
(* directory holds a file of the same name, another one and a hidden one.  *)
EXTENDS FileBrowser

Entry(d, n, isdir, hid, movie, size, time) ==
  [dir |-> d, name |-> n, isdir |-> isdir, hid |-> hid, movie |-> movie,
   size |-> size, time |-> time]

MCEntries ==
  {Entry(<<>>, 1, FALSE, FALSE, TRUE, 2, 1), Entry(<<>>, 2, FALSE, FALSE, FALSE, 1, 2),
   Entry(<<>>, 3, TRUE, FALSE, FALSE, 0, 3),
   Entry(<<3>>, 1, FALSE, FALSE, TRUE, 1, 3), Entry(<<3>>, 2, FALSE, TRUE, TRUE, 2, 1)}
MCHome == <<3>>
MCTooLong == {<<3, 2>>}
\* A window that is lower than the player asks for.
MCTinyRows == {-1, 1, 2}
=============================================================================
