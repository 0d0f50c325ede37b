--------------------------- MODULE MCRepositories ---------------------------
(***************************************************************************)
(* The repositories behind the forms: in one behaviour keys are added and  *)
(* deleted, in another listed and put into a configdrive, in a third       *)
(* volumes are made and resized.  The other two parts then rest.           *)
(***************************************************************************)
EXTENDS KeyFile, KeyScanner, VolumeSizes, TLC

VARIABLE part

fileVars == vars

-----------------------------------------------------------------------------
(* The key file: two keys, pasted alone, behind a comment, both at once,   *)
(* before or after a line that is too long; files that are empty, written  *)
(* by vmango or edited by hand.                                            *)

CONSTANTS k1, k2

MCKeys == {k1, k2}
Pasted == {<<k1>>, <<COMMENT, k2>>, <<k1, k2>>, <<k2, LONG>>,
           <<LONG, k2>>}
Files == {<<>>, <<COMMENT, k1, BLANK>>, <<k2, COMMENT, k2>>}

\* Bounds of the exploration: a state of two mishaps is checked and expanded,
\* one of three only checked; overlapping rewrites may not grow the file.
Bounded == Len(file) <= MaxLines /\ Cardinality(mishaps) <= 2

RequestSymmetry == Permutations(Requests)

-----------------------------------------------------------------------------
(* Its list: a scanner of six bytes that grows to twelve, and files of up  *)
(* to four lines: two keys, one of them with either of two comments, a     *)
(* short line that is no key, a blank one, and one that is too long.       *)

CONSTANTS c1, c2

ListedLine(k, c, n) == [key |-> k, comment |-> c, len |-> n]

ListedLines == {ListedLine(k1, c1, 2), ListedLine(k2, c1, 2), ListedLine(k2, c2, 4),
                ListedLine(NoKey, NoKey, 1), ListedLine(NoKey, NoKey, 0), ListedLine(k1, c2, 12)}

MCContents == {f \in [lines : UNION {[1 .. n -> ListedLines] : n \in 0 .. 4}, ended : BOOLEAN] :
                 f.lines = <<>> => f.ended}

-----------------------------------------------------------------------------
(* Volumes: words of four bits and a K of two bytes, so that most numbers  *)
(* overflow in some unit, to zero or to something in between.              *)

MCValues == {0, 1, 5}

-----------------------------------------------------------------------------

MCInit == /\ Init /\ ScanInit /\ SizeInit
          /\ part \in {"file", "scan", "sizes"}
          /\ part # "file" => file = <<>>
          /\ part # "scan" => content.lines = <<>>
          /\ part # "sizes" => \A n \in Names : ~Exists(n)

MCNext == /\ UNCHANGED part
          /\ \/ part = "file" /\ Next /\ UNCHANGED <<scanVars, sizeVars>>
             \/ part = "scan" /\ ScanNext /\ UNCHANGED <<fileVars, sizeVars>>
             \/ part = "sizes" /\ SizeNext /\ UNCHANGED <<fileVars, scanVars>>

MCSpec == MCInit /\ [][MCNext]_<<part, fileVars, scanVars, sizeVars>>
=============================================================================
