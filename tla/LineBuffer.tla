----------------------------- MODULE LineBuffer -----------------------------
(***************************************************************************)
(* How commands are cut into lines, on standard input: remote_read_io of   *)
(* xjadeo -R (remote.c) and the loop of dothework in xjremote, which are   *)
(* the same code twice.  A read puts what has arrived behind the offset    *)
(* and terminates it; every line that is found is executed (or sent), and  *)
(* what follows it is moved to the front - without its terminator, so that *)
(* old bytes stand behind it.                                              *)
(*                                                                         *)
(* A byte that is typed is the number of its position in the input, or the *)
(* end of a line: no two letters are alike, so a line tells what it is     *)
(* made of.                                                                *)
(***************************************************************************)
EXTENDS Integers, SequencesExt

CONSTANTS Size,          \* REMOTEBUFSIZ, MQLEN
          InputLength,   \* bound: the bytes that are typed
          LinesPerRead   \* line ends in one read that does not end a line

ASSUME SizeAssumption  == Size \in Nat \ {0, 1}
ASSUME InputAssumption == InputLength \in Nat /\ LinesPerRead \in Nat

NL  == 0                 \* '\n'
NUL == -1                \* '\0'
Old == -2                \* a byte of memory that was never written

VARIABLES program,        \* whose input: "xjadeo" or "xjremote"
          buf, offset,   \* remotebuffer; buf and offset of dothework
          pc,            \* "read", "lines", "ended" or "crashed"
          lines,         \* the lines that were executed
          fed            \* what was typed, as far as it was read

lineVars == <<program, buf, offset, pc, lines, fed>>

Cells == 0 .. Size - 1

(* malloc, and the stack of dothework, leave the contents open.            *)
Unwritten == {[i \in Cells |-> NUL],
              [i \in Cells |-> CASE i = 1 -> NL [] i = 2 -> NUL [] OTHER -> Old]}

LineInit == /\ program \in {"xjadeo", "xjremote"}
            /\ buf \in Unwritten
            /\ offset = 0
            /\ pc = "read"
            /\ lines = << >>
            /\ fed = << >>

(***************************************************************************)
(* What may arrive in one read: n bytes, each a letter or the end of a     *)
(* line.                                                                   *)
(***************************************************************************)
Chunks(n) == {[i \in 1 .. n |-> IF i \in ends THEN NL ELSE Len(fed) + i] : ends \in SUBSET (1 .. n)}

Orderly(chunk) == \/ Last(chunk) = NL
                  \/ Cardinality({i \in DOMAIN chunk : chunk[i] = NL}) <= LinesPerRead

Stored(chunk) == [i \in Cells |-> CASE i \in offset .. offset + Len(chunk) - 1 -> chunk[i - offset + 1]
                                    [] i = offset + Len(chunk) -> NUL
                                    [] OTHER -> buf[i]]

Read(chunk) == /\ pc = "read"
               /\ Orderly(chunk)
               /\ buf' = Stored(chunk)
               /\ offset' = offset + Len(chunk)
               /\ fed' = fed \o chunk
               /\ pc' = "lines"
               /\ UNCHANGED <<program, lines>>

(***************************************************************************)
(* A read returns 0 at the end of the input, and also when the buffer is   *)
(* full: xjremote takes both for the end, xjadeo goes on.  It then looks   *)
(* for lines all the same, in memory that may never have been written.     *)
(***************************************************************************)
ReadNothing == /\ pc = "read"
               /\ fed # << >>
               /\ offset = Size - 1 \/ Len(fed) = InputLength
               /\ pc' = IF program = "xjremote" THEN "ended" ELSE "lines"
               /\ UNCHANGED <<program, buf, offset, lines, fed>>

(* strchr: the first end of a line before the end of the string            *)
StringEnd == CHOOSE i \in Cells : buf[i] = NUL /\ \A j \in 0 .. i - 1 : buf[j] # NUL
LineEnds  == {i \in 0 .. StringEnd : buf[i] = NL}
LineEnd   == CHOOSE i \in LineEnds : \A j \in LineEnds : i <= j

(* Mutant: the move begins at the end of the line, not behind it.          *)
MovedFromTheEnd(b, k, n) == [i \in Cells |-> IF i < n /\ k - 1 + i \in Cells THEN b[k - 1 + i] ELSE b[i]]

(* memmove of n bytes from position k to the front                         *)
Moved(b, k, n) == [i \in Cells |-> IF i < n /\ k + i \in Cells THEN b[k + i] ELSE b[i]]

(***************************************************************************)
(* One round of the loop: the line is executed, and what follows is moved  *)
(* unless nothing does.  An offset below zero is a move of nearly all of   *)
(* the memory there is.                                                    *)
(***************************************************************************)
Line == /\ pc = "lines"
        /\ LineEnds # {}
        /\ LET k    == LineEnd
               left == offset - (k + 1)
               cut  == [buf EXCEPT ![k] = NUL]
           IN  /\ lines' = Append(lines, [i \in 1 .. k |-> buf[i - 1]])
               /\ offset' = left
               /\ buf' = IF left > 0 THEN Moved(cut, k + 1, left) ELSE cut
               /\ pc' = IF left < 0 THEN "crashed" ELSE "lines"
        /\ UNCHANGED <<program, fed>>

NoMoreLines == /\ pc = "lines"
               /\ LineEnds = {}
               /\ pc' = "read"
               /\ UNCHANGED <<program, buf, offset, lines, fed>>

LineNext == \/ \E n \in 1 .. InputLength - Len(fed) : n <= Size - 1 - offset
                                                       /\ \E c \in Chunks(n) : Read(c)
            \/ ReadNothing
            \/ Line
            \/ NoMoreLines

LineSpec == LineInit /\ [][LineNext]_lineVars

(***************************************************************************)
(* The first n bytes, cut at the ends of their lines: the whole lines, and *)
(* the beginning of the next one.                                          *)
(***************************************************************************)
WithByte(cut, b) == IF b = NL THEN [whole |-> Append(cut.whole, cut.part), part |-> << >>]
                              ELSE [whole |-> cut.whole, part |-> Append(cut.part, b)]

CutUpTo(bytes) == LET cut[n \in 0 .. Len(bytes)] ==
                        IF n = 0 THEN [whole |-> << >>, part |-> << >>]
                                 ELSE WithByte(cut[n - 1], bytes[n])
                  IN  cut

(* What was typed. *)
Typed == CutUpTo(fed)[Len(fed)]

(* From the first read on the buffer holds the end of a string, within its *)
(* bounds.                                                                 *)
LineTypeOK == /\ buf \in [Cells -> {NL, NUL, Old} \cup 1 .. InputLength]
              /\ fed # << >> => \E i \in Cells : buf[i] = NUL
              /\ pc # "crashed" => offset \in Cells
              /\ pc \in {"read", "lines", "ended", "crashed"}

(***************************************************************************)
(* Every line that was typed is executed once, in its order and as it was  *)
(* typed, however the input is cut into reads, and the beginning of the    *)
(* next line is kept - if a read that ends within a line brings the end of *)
(* no more than LinesPerRead lines.                                        *)
(***************************************************************************)
EachLineOnce == /\ pc # "crashed"
                /\ pc = "lines" => IsPrefix(lines, Typed.whole)
                /\ pc \in {"read", "ended"} => /\ lines = Typed.whole
                                               /\ SubSeq([i \in 1 .. Size |-> buf[i - 1]], 1, offset)
                                                    = Typed.part

=============================================================================
