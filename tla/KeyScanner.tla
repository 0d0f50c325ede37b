----------------------------- MODULE KeyScanner -----------------------------
(***************************************************************************)
(* KeyRepository.List keeps, as the value of each key, a slice of the      *)
(* buffer of its bufio.Scanner.  The scanner goes on and moves what is in  *)
(* that buffer.  The module follows the bytes of the key file from there   *)
(* into the configdrive of a virtual machine, and back to its page.        *)
(*                                                                         *)
(* A byte is <<line, place>>, so a text is one of the file's lines exactly *)
(* when its bytes are.  KeyFile models how the file changes; here it does  *)
(* not while it is read.                                                   *)
(***************************************************************************)
EXTENDS Integers, Sequences, SequencesExt, FiniteSets, Subsequences

CONSTANTS
    Fingerprints,   \* of public keys
    NoKey,          \* what ParseAuthorizedKey makes of any other line
    Contents,       \* [lines |-> Seq([key, comment, len]), ended |-> BOOLEAN]
    StartBuf,       \* size of the scanner's first buffer (4096 bytes)
    MaxToken        \* its largest (64 KiB)

ASSUME FingerprintsAssumption == NoKey \notin Fingerprints
ASSUME ContentsAssumption ==     \* a blank line is no key
    \A c \in Contents :
        /\ c.lines \in Seq(ToSet(c.lines))
        /\ \A i \in DOMAIN c.lines : /\ c.lines[i].len \in Nat
                                     /\ c.lines[i].len = 0 => c.lines[i].key = NoKey
ASSUME BufferAssumption ==
    StartBuf \in Nat \ {0} /\ MaxToken \in Nat /\ StartBuf <= MaxToken

VARIABLES
    content,        \* of the key file
    scan,           \* the Scanner: buffers, window, file offset, end of file
    list,           \* what List has appended so far
    pc,             \* "scan" or "done"
    drive           \* the configdrive made from the keys, or NoDrive

scanVars == <<content, scan, list, pc, drive>>

NL == <<0, 0>>
NUL == <<0, 1>>

LineBytes(i) == [j \in 1 .. content.lines[i].len |-> <<i, j>>]

Text == LET all == FlattenSeq([i \in DOMAIN content.lines |-> Append(LineBytes(i), NL)])
        IN  IF content.ended \/ all = <<>> THEN all ELSE Front(all)

-----------------------------------------------------------------------------
(* The scanner                                                             *)

\* bufs are all arrays the scanner has had: a key may keep an old one alive.
NewScanner == [bufs |-> <<[i \in 1 .. StartBuf |-> NUL]>>,
               start |-> 0, end |-> 0, pos |-> 0, eof |-> FALSE]

Buf == Last(scan.bufs)
Window == SubSeq(Buf, scan.start + 1, scan.end)
HasLine == NL \in ToSet(Window)

\* Room is made by moving the unread bytes to the front of the array, over
\* bytes that were read before.
Shifts == /\ scan.start > 0
          /\ scan.end = Len(Buf) \/ scan.start > Len(Buf) \div 2

Shifted == IF ~Shifts THEN scan
           ELSE [scan EXCEPT !.bufs[Len(scan.bufs)] =
                                 Window \o SubSeq(Buf, Len(Window) + 1, Len(Buf)),
                             !.start = 0, !.end = Len(Window)]

\* A full array is copied into one of twice the size.
Grown(s) == LET b == Last(s.bufs)
                size == IF 2 * Len(b) < MaxToken THEN 2 * Len(b) ELSE MaxToken
            IN  IF s.end < Len(b) THEN s
                ELSE [s EXCEPT !.bufs = Append(@, [i \in 1 .. size |->
                                                     IF i <= Len(b) THEN b[i] ELSE NUL])]

ReadInto(s) == LET b == Last(s.bufs)
                   room == Len(b) - s.end
                   left == Len(Text) - s.pos
                   n == IF room < left THEN room ELSE left
               IN  [s EXCEPT !.bufs[Len(s.bufs)] =
                               [i \in DOMAIN b |-> IF i \in s.end + 1 .. s.end + n
                                                   THEN Text[s.pos + i - s.end] ELSE b[i]],
                             !.end = @ + n, !.pos = @ + n, !.eof = (n = 0)]

\* The one line is longer than the scanner takes.
TooLong == ~HasLine /\ ~scan.eof /\ scan.start = 0 /\ scan.end = Len(Buf) /\ Len(Buf) = MaxToken

Refill == /\ pc = "scan" /\ ~HasLine /\ ~scan.eof /\ ~TooLong
          /\ scan' = ReadInto(Grown(Shifted))
          /\ UNCHANGED <<content, list, pc, drive>>

-----------------------------------------------------------------------------
(* List and Get                                                            *)

\* The lines of the file that consist of these bytes.
SameLines(bytes) == {i \in DOMAIN content.lines : LineBytes(i) = bytes}

\* ParseAuthorizedKey: of bytes that are no line of the file nothing is known
\* but that they are no key on one.
parseKey(bytes) == IF bytes = <<>> \/ SameLines(bytes) = {} THEN [key |-> NoKey, comment |-> NoKey]
                   ELSE LET l == content.lines[CHOOSE i \in SameLines(bytes) : TRUE]
                        IN  [key |-> l.key, comment |-> l.comment]

\* The loop's body: the line is buffer bytes start+1 .. to.
ListLine(to, next) ==
    LET parsed == parseKey(SubSeq(Buf, scan.start + 1, to))
    IN  /\ scan' = [scan EXCEPT !.start = next]
        /\ list' = IF parsed.key = NoKey THEN list
                   ELSE Append(list, [parsed |-> parsed, buf |-> Len(scan.bufs),
                                      from |-> scan.start + 1, to |-> to])
        /\ UNCHANGED <<content, pc, drive>>

NextLine == /\ pc = "scan" /\ HasLine
            /\ LET nl == scan.start + SelectInSeq(Window, LAMBDA b : b = NL)
               IN  ListLine(nl - 1, nl)

\* The last line may lack its newline.
LastLine == /\ pc = "scan" /\ scan.eof /\ ~HasLine /\ Window # <<>>
            /\ ListLine(scan.end, scan.end)

\* List does not look at the scanner's error.
ListReturns == /\ pc = "scan"
               /\ TooLong \/ (scan.eof /\ Window = <<>>)
               /\ pc' = "done"
               /\ UNCHANGED <<content, scan, list, drive>>

\* The bytes a key's slice holds now.
Value(k) == SubSeq(scan.bufs[k.buf], k.from, k.to)

Listed(fp) == \E i \in DOMAIN list : list[i].parsed.key = fp
Get(fp) == list[SelectInSeq(list, LAMBDA k : k.parsed.key = fp)]

-----------------------------------------------------------------------------
(* The configdrive                                                         *)

NoDrive == [format |-> "none", chosen |-> <<>>, values |-> {}]

Comment(fp) == Get(fp).parsed.comment

\* Mutant: a map from comments in both formats.
PublicKeysByComment(format, fps) ==
    {Value(Get(fps[i])) : i \in {i \in DOMAIN fps :
        \A j \in i + 1 .. Len(fps) : Comment(fps[j]) # Comment(fps[i])}}

\* public_keys of OpenStack is a map from comments.
PublicKeys(format, fps) ==
    {Value(Get(fps[i])) : i \in {i \in DOMAIN fps :
        format = "openstack" => \A j \in i + 1 .. Len(fps) : Comment(fps[j]) # Comment(fps[i])}}

\* The form names keys by fingerprint, as the page listed them; each is looked
\* up with a List of its own over the same file.
CreateVm(format, fps) ==
    /\ pc = "done" /\ drive = NoDrive
    /\ \A i \in DOMAIN fps : Listed(fps[i])
    /\ drive' = [format |-> format, chosen |-> fps, values |-> PublicKeys(format, fps)]
    /\ UNCHANGED <<content, scan, list, pc>>

\* What the page of the virtual machine reads back: lines that do not parse
\* are left out.
ConfigKeys == {parseKey(v).key : v \in drive.values} \ {NoKey}

\* The next request lists the keys with a scanner of its own.
ListAgain == /\ pc = "done"
             /\ scan' = NewScanner /\ list' = <<>> /\ pc' = "scan" /\ drive' = NoDrive
             /\ UNCHANGED content

-----------------------------------------------------------------------------

ScanInit == /\ content \in Contents
            /\ scan = NewScanner
            /\ list = <<>>
            /\ pc = "scan"
            /\ drive = NoDrive

Forms == {fps \in UNION {[1 .. n -> Fingerprints] : n \in 1 .. Cardinality(Fingerprints)} :
             IsInjective(fps)}

ScanNext == \/ Refill \/ NextLine \/ LastLine \/ ListReturns \/ ListAgain
            \/ \E format \in {"nocloud", "openstack"}, fps \in Forms : CreateVm(format, fps)

ScanSpec == ScanInit /\ [][ScanNext]_scanVars

-----------------------------------------------------------------------------
(* Properties                                                              *)

\* The keys of the lines before one that is too long, in order: what KeyFile
\* takes List for.
KeyLines == LET short(l) == l.len < MaxToken
                f == content.lines
                upTo == IF \A i \in DOMAIN f : short(f[i]) THEN Len(f)
                        ELSE SelectInSeq(f, LAMBDA l : ~short(l)) - 1
            IN  Keep(SubSeq(f, 1, upTo), {l \in ToSet(f) : l.key # NoKey})

\* No byte is moved onto another before List returns: one read takes the whole
\* file, and what it leaves for the end of the file need not move.
HeldInPlace ==
    /\ Len(Text) <= StartBuf
    /\ \/ content.ended \/ Len(content.lines) < 2
       \/ LET rest == Len(Text) - Last(content.lines).len
          IN  Len(Text) < StartBuf /\ rest <= StartBuf \div 2
       \/ Last(content.lines).len = 0

\* List returns the keys of the file in their order whatever moves in the
\* buffer; their values are their lines, in every state, if nothing moves.
\* In a file of more than one buffer, or edited without a last newline, a
\* value may be the text of other lines (List and the Scanner it reads from).
ListSound ==
    /\ pc = "done" => [i \in DOMAIN list |-> list[i].parsed]
                      = [i \in DOMAIN KeyLines |-> [key |-> KeyLines[i].key,
                                                    comment |-> KeyLines[i].comment]]
    /\ HeldInPlace => \A i \in DOMAIN list : parseKey(Value(list[i])) = list[i].parsed

\* Two keys of the form have one comment, which the OpenStack format takes for
\* their name.
SharedComment(fps) == \E i, j \in DOMAIN fps : i # j /\ Comment(fps[i]) = Comment(fps[j])

\* The virtual machine gets exactly the keys its form named, and its page shows
\* them, unless List's buffer moved or the OpenStack format dropped one of two
\* keys with the same comment (CreateVm, generateConfigDrive, parseConfigDrive).
KeysReachGuest ==
    drive # NoDrive =>
        \/ ConfigKeys = ToSet(drive.chosen)
        \/ ~HeldInPlace
        \/ drive.format = "openstack" /\ SharedComment(drive.chosen)

\* The keys of the file are listed, and the chosen ones reach the guest (List,
\* generateConfigDrive).
KeysDelivered == ListSound /\ KeysReachGuest
=============================================================================
