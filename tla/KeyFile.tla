------------------------------ MODULE KeyFile ------------------------------
(***************************************************************************)
(* filesystem/key_repository.go: the authorized keys are the lines of one  *)
(* text file.  Add reads the file, then appends; Delete reads it, then     *)
(* truncates and rewrites it.  No lock protects the file, so the requests  *)
(* of two goroutines interleave between these system calls.                *)
(*                                                                         *)
(* A line is a key, a comment (anything no key can be parsed from), blank, *)
(* or longer than bufio.Scanner takes (64 KiB): the scan then stops, and   *)
(* no caller looks at the scanner's error.  The last line of a file edited *)
(* by hand may lack its newline.                                           *)
(***************************************************************************)
EXTENDS Integers, Sequences, SequencesExt, FiniteSets, Subsequences

CONSTANTS
    Keys,                   \* public keys, told apart by fingerprint
    COMMENT, BLANK, LONG,   \* the other lines
    Requests,               \* goroutines that add or delete keys
    Inputs,                 \* what the add form may submit, split in lines
    InitFiles,              \* files vmango may find
    MaxLines                \* bound: lines of the file

Line == Keys \cup {COMMENT, BLANK, LONG}

ASSUME LinesAssumption == /\ Keys \cap {COMMENT, BLANK, LONG} = {}
                          /\ Cardinality({COMMENT, BLANK, LONG}) = 3
ASSUME InputsAssumption == \A i \in Inputs : i \in Seq(Line) /\ ToSet(i) \cap Keys # {}
ASSUME FilesAssumption == \A f \in InitFiles : f \in Seq(Line)

VARIABLES
    file,       \* lines of the key file
    ended,      \* the last line has its newline
    jobs,       \* the Add or Delete each request runs
    stored,     \* history: keys somebody stored and nobody deleted
    mishaps     \* history: which of Mishaps occurred

vars == <<file, ended, jobs, stored, mishaps>>

Mishaps == {"overlap",      \* the file changed between a Delete's read and its write
            "unchecked",    \* a key was added without a check of its own
            "joined",       \* a key was appended to a line without newline
            "long",         \* a scan stopped at a long line
            "crash",        \* vmango died between truncating and writing
            "shortWrite"}   \* the disk took a part of what was written

NoJob == [pc |-> "idle", lines |-> <<>>, key |-> COMMENT]

TypeOK == /\ file \in Seq(Line)
          /\ ended \in BOOLEAN
          /\ \A r \in Requests : /\ jobs[r].pc \in {"idle", "append", "truncate", "write"}
                                 /\ jobs[r].lines \in Seq(Line)
                                 /\ jobs[r].key \in Keys \cup {COMMENT}
          /\ stored \subseteq Keys
          /\ mishaps \subseteq Mishaps

KeysIn(f) == ToSet(f) \cap Keys
LinesOf(f, l) == Cardinality({i \in DOMAIN f : f[i] = l})

\* What a scanner yields.
Scanned(f) == IF LONG \in ToSet(f)
              THEN SubSeq(f, 1, SelectInSeq(f, LAMBDA l : l = LONG) - 1)
              ELSE f

Init == /\ file \in InitFiles
        /\ ended \in BOOLEAN
        /\ file = <<>> => ended
        /\ jobs = [r \in Requests |-> NoJob]
        /\ stored = KeysIn(file)
        /\ mishaps = IF \E k \in Keys : LinesOf(file, k) > 1 THEN {"unchecked"} ELSE {}

Idle(r) == jobs[r].pc = "idle"
Finish(r) == jobs' = [jobs EXCEPT ![r] = NoJob]

Rewriting == \E r \in Requests : jobs[r].pc = "write"

\* The mishap m has occurred when p holds.
If(p, m) == IF p THEN {m} ELSE {}
Note(ms) == mishaps' = mishaps \cup ms

\* A write from offset 0 over the lines f: a suffix of them stays, its first
\* line perhaps cut.
Overwritten(f, new) ==
    IF new = <<>> THEN {f}
    ELSE {new \o cut \o SubSeq(f, i, Len(f)) :
            cut \in (IF f = <<>> THEN {<<>>} ELSE {<<>>, <<COMMENT>>}), i \in 2 .. Len(f) + 2}

-----------------------------------------------------------------------------
(* Add                                                                     *)

\* ParseAuthorizedKey takes the first line of the input that is a key.
FirstKey(input) == input[SelectInSeq(input, LAMBDA l : l \in Keys)]

\* A key of the input that the file is not searched for, or that another Add
\* is about to append too.
Unchecked(input) == \/ Len(Keep(input, Keys)) > 1
                    \/ \E q \in Requests : /\ jobs[q].pc = "append"
                                           /\ FirstKey(input) \in ToSet(jobs[q].lines)

\* Parse the input and look for its first key in the file; when it is there
\* Add answers "key already exists".
CheckNewKey(r, input) ==
    /\ Idle(r)
    /\ FirstKey(input) \notin KeysIn(Scanned(file))
    /\ Len(file) + Len(input) <= MaxLines
    /\ jobs' = [jobs EXCEPT ![r] = [pc |-> "append", lines |-> input, key |-> FirstKey(input)]]
    /\ Note(If(Rewriting, "overlap") \cup If(Unchecked(input), "unchecked")
            \cup If(LONG \in ToSet(file), "long"))
    /\ UNCHANGED <<file, ended, stored>>

\* Bytes appended to a line that has no newline become part of it: a comment
\* stays one, a key gets a longer comment or, without one, is destroyed; a long
\* line makes a long one.
JoinedLines(last, first) ==
    IF last = BLANK \/ first = LONG THEN {first}
    ELSE IF last \in Keys /\ first # BLANK THEN {last, COMMENT}
    ELSE {last}

Appended(input) ==
    IF ended THEN {file \o input}
             ELSE {Front(file) \o <<l>> \o Tail(input) : l \in JoinedLines(Last(file), Head(input))}

\* The last line has no newline and is not blank.
Dangling == ~ended /\ Last(file) # BLANK

\* Mutant: the file is opened without O_APPEND.
AppendKeyAtStart(r) ==
    /\ jobs[r].pc = "append"
    /\ file' \in Overwritten(file, jobs[r].lines)
    /\ ended' = TRUE
    /\ stored' = stored \cup KeysIn(jobs[r].lines)
    /\ Finish(r)
    /\ Note(If(Rewriting, "overlap") \cup If(Dangling, "joined"))

\* One O_APPEND write of the whole input and a newline.
AppendKey(r) ==
    /\ jobs[r].pc = "append"
    /\ file' \in Appended(jobs[r].lines)
    /\ ended' = TRUE
    /\ stored' = stored \cup KeysIn(jobs[r].lines)
    /\ Finish(r)
    /\ Note(If(Rewriting, "overlap") \cup If(Dangling, "joined"))

\* Opening the file fails, or the disk fills up before the newline.
AppendFails(r) ==
    /\ jobs[r].pc = "append"
    /\ \/ UNCHANGED <<file, ended, stored, mishaps>>
       \/ \E n \in 1 .. Len(jobs[r].lines) :
             \E cut \in {jobs[r].lines[n], COMMENT} :
                /\ file' \in Appended(SubSeq(jobs[r].lines, 1, n - 1) \o <<cut>>)
                /\ ended' = FALSE
                /\ UNCHANGED stored
                /\ Note({"shortWrite"} \cup If(Rewriting, "overlap") \cup If(Dangling, "joined"))
    /\ Finish(r)

-----------------------------------------------------------------------------
(* Delete                                                                  *)

\* Mutant: only the first line of the key goes.
WithoutFirst(f, k) == Keep(RemoveFirst(f, k), Line \ {BLANK})

Without(f, k) == Keep(f, Line \ {k, BLANK})

\* Read the file and keep in memory every line but blank ones and those of the
\* fingerprint; when there is none of those Delete answers "key not found".
ReadForDelete(r, k) ==
    /\ Idle(r)
    /\ k \in KeysIn(Scanned(file))
    /\ jobs' = [jobs EXCEPT ![r] = [pc |-> "truncate", lines |-> Without(Scanned(file), k),
                                    key |-> k]]
    /\ Note(If(Rewriting, "overlap") \cup If(LONG \in ToSet(file), "long"))
    /\ UNCHANGED <<file, ended, stored>>

\* ioutil.WriteFile opens the file with O_TRUNC; it may hold other lines by now
\* than those in memory ...
Truncate(r) == /\ jobs[r].pc = "truncate"
               /\ file' = <<>>
               /\ ended' = TRUE
               /\ jobs' = [jobs EXCEPT ![r].pc = "write"]
               /\ Note(If(\/ Rewriting
                          \/ Without(file, jobs[r].key) # jobs[r].lines, "overlap"))
               /\ UNCHANGED stored

TruncateFails(r) == /\ jobs[r].pc = "truncate"
                    /\ Finish(r)
                    /\ UNCHANGED <<file, ended, stored, mishaps>>

\* ... and writes.
WriteBack(r) == /\ jobs[r].pc = "write"
                /\ file' \in Overwritten(file, jobs[r].lines)
                /\ ended' = (jobs[r].lines # <<>> \/ ended)
                /\ stored' = stored \ {jobs[r].key}
                /\ Finish(r)
                /\ UNCHANGED mishaps

\* The disk fills up: a prefix is written, its last line perhaps cut.
WriteBackFails(r) ==
    /\ jobs[r].pc = "write"
    /\ \E n \in 0 .. Len(jobs[r].lines) :
          /\ file' \in Overwritten(file, SubSeq(jobs[r].lines, 1, n))
          /\ ended' \in BOOLEAN
          /\ file' = <<>> => ended'
    /\ Finish(r)
    /\ Note({"shortWrite"})
    /\ UNCHANGED stored

-----------------------------------------------------------------------------

\* vmango dies; a Delete that had truncated the file takes the keys with it.
Crash == /\ jobs' = [r \in Requests |-> NoJob]
         /\ Note(If(Rewriting, "crash"))
         /\ UNCHANGED <<file, ended, stored>>

Next == \/ \E r \in Requests :
             \/ \E i \in Inputs : CheckNewKey(r, i)
             \/ \E k \in Keys : ReadForDelete(r, k)
             \/ AppendKey(r) \/ AppendFails(r)
             \/ Truncate(r) \/ TruncateFails(r) \/ WriteBack(r) \/ WriteBackFails(r)
        \/ Crash

Spec == Init /\ [][Next]_vars

-----------------------------------------------------------------------------
(* Properties                                                              *)

NoneOf(ms) == mishaps \cap ms = {}

\* When no Delete is rewriting the file, the file holds exactly the keys that
\* Add stored and Delete did not remove, unless a change was overwritten, a
\* key was glued to a line without newline, a scan stopped early, vmango died
\* in a rewrite or the disk was full.  A racing or multi-line Add loses nothing
\* (Add, Delete).
LossExplained == (~Rewriting /\ NoneOf(Mishaps \ {"unchecked"})) => KeysIn(file) = stored

\* No fingerprint is on two lines unless an Add did not see it: it was raced,
\* it was behind the first key of the input, a rewrite hid the file, or a long
\* line did.  Crashes, full disks and glued lines never duplicate a key (Add).
DuplicatesExplained ==
    NoneOf({"unchecked", "overlap", "long"}) => \A k \in Keys : LinesOf(file, k) <= 1

\* Only a mishap loses a key, and only some of them double one.
MishapsExplain == LossExplained /\ DuplicatesExplained

-----------------------------------------------------------------------------
(* Refinement                                                              *)

\* In the middle of a rewrite the set is still the one before it, in which the
\* key is unless another Delete already took it.
KeyView == IF ~Rewriting THEN KeysIn(file)
           ELSE LET w == CHOOSE r \in Requests : jobs[r].pc = "write"
                IN  KeysIn(jobs[w].lines) \cup ({jobs[w].key} \cap stored)

Abstract == INSTANCE KeySet WITH keys <- KeyView

\* Until a mishap every step adds one new key to a set, deletes one from it or
\* leaves it alone: Add and Delete as the web handlers use them.
ImplementsKeySet ==
    Abstract!Init /\ [][mishaps' = {} => [Abstract!Next]_KeyView]_vars
=============================================================================
