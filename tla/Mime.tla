-------------------------------- MODULE Mime -------------------------------
(***************************************************************************)
(* Reading a received message into what the database stores and the pages  *)
(* show, and assembling the messages that are sent.                        *)
(*                                                                         *)
(* A message is its parts in document order, each at its depth.  What is   *)
(* in a part is its place in that sequence: a body or an attachment is     *)
(* given back when those places are.  Addresses, charsets, filenames and   *)
(* the text of headers are left out.                                       *)
(*                                                                         *)
(* Python's email package splits the message; it is modelled from how      *)
(* src/ uses it.                                                           *)
(***************************************************************************)
EXTENDS Integers, FiniteSets, SequencesExt

CONSTANTS
    MaxParts,       \* MAX_PARTS
    MaxDepth,       \* MAX_DEPTH
    MaxLength,      \* bound: parts of a message
    MaxAttachments  \* bound: attachments of a message that is sent

ASSUME CapAssumption == MaxParts \in Nat /\ MaxParts >= 2 /\ MaxDepth \in Nat /\ MaxDepth >= 2
ASSUME LengthAssumption == MaxLength \in Nat /\ MaxAttachments \in Nat

(* "hollow": a part that declares itself a multipart and names no boundary *)
(* to split it at.  "unreadable": one whose type raises when it is asked   *)
(* for.  A part is filed if it is marked as an attachment or has a         *)
(* filename.                                                               *)
Texts == {"plain", "html"}
Whole == Texts \cup {"other", "hollow"}
Kinds == Whole \cup {"message", "multi", "unreadable"}
Part == [depth : Nat, kind : Kinds, filed : BOOLEAN]

(* A message, and which ceilings other than those on parts it is over.     *)
Ceilings == {"headers", "plain", "html"}

VARIABLES
    parts,  \* the parts of a received message
    over,   \* the ceilings it is over
    draft   \* a message to be sent

mimeVars == <<parts, over, draft>>

-----------------------------------------------------------------------------
(* The walk over the parts.                                                *)

(* within: the depth of the leaf the walk is inside of, whose parts it     *)
(* does not look at, or -1.                                                *)
Start == [leaves |-> <<>>, truncated |-> FALSE, within |-> -1]

(* Mutant: a multipart at the cap is left out without a word.              *)
VisitSilentCap(mail, walk, i) ==
    LET part == mail[i] IN
    IF walk.within >= 0 /\ part.depth > walk.within THEN walk
    ELSE IF Len(walk.leaves) >= MaxParts
         THEN [walk EXCEPT !.truncated = TRUE, !.within = part.depth]
    ELSE IF part.kind = "multi" /\ part.depth < MaxDepth
         THEN [walk EXCEPT !.within = -1]
    ELSE [walk EXCEPT !.leaves = Append(@, i), !.within = part.depth]

(* _leaves at one part: a message in the message is a leaf, and so is a    *)
(* multipart that is nested too deep; once there are too many leaves, no   *)
(* more are.                                                               *)
Visit(mail, walk, i) ==
    LET part == mail[i] IN
    IF walk.within >= 0 /\ part.depth > walk.within THEN walk
    ELSE IF Len(walk.leaves) >= MaxParts
         THEN [walk EXCEPT !.truncated = TRUE, !.within = part.depth]
    ELSE IF part.kind = "multi" /\ part.depth < MaxDepth
         THEN [walk EXCEPT !.within = -1]
    ELSE [leaves |-> Append(walk.leaves, i), within |-> part.depth,
          truncated |-> walk.truncated \/ part.kind = "multi"]

(* _leaves, from the first part to the last.                               *)
Leaves(mail) ==
    FoldLeft(LAMBDA walk, i : Visit(mail, walk, i), Start, [i \in DOMAIN mail |-> i])

(* _classified: the first text of each kind that is not a file is a body.  *)
Roles(mail, leaves) ==
    LET Body(i, kind) == mail[leaves[i]].kind = kind /\ ~mail[leaves[i]].filed
        First(i, kind) == Body(i, kind) /\ \A j \in DOMAIN leaves : j < i => ~Body(j, kind)
    IN [i \in DOMAIN leaves |->
           IF First(i, "plain") THEN "plain"
           ELSE IF First(i, "html") THEN "html" ELSE "attachment"]

(* What is beneath a part, and the first part beneath it with its own.     *)
Beneath(mail, i) ==
    {j \in DOMAIN mail : j > i /\ \A n \in (i + 1)..j : mail[n].depth > mail[i].depth}
FirstBeneath(mail, i) ==
    {j \in Beneath(mail, i) :
        j = i + 1 \/ j \in Beneath(mail, i + 1)}

(* _payload: of a message its first part, of a multipart that was split    *)
(* and of what cannot be read nothing, and of one not split its text.      *)
Payload(mail, i) ==
    CASE mail[i].kind = "message" -> FirstBeneath(mail, i)
      [] mail[i].kind \in {"multi", "unreadable"} -> {}
      [] OTHER -> {i}

(* The leaves that are attachments, in the order they are come upon.       *)
Files(leaves, roles) ==
    FoldLeft(LAMBDA files, i : IF roles[i] = "attachment" THEN Append(files, leaves[i]) ELSE files,
             <<>>, [i \in DOMAIN leaves |-> i])

(* parse_message.  A body over the ceiling is cut, and says so.            *)
Parse(mail, beyond) ==
    LET walk == Leaves(mail)
        roles == Roles(mail, walk.leaves)
        Of(role) == {walk.leaves[i] : i \in {j \in DOMAIN roles : roles[j] = role}}
    IN [text |-> Of("plain"), html |-> Of("html"),
        attachments |-> Files(walk.leaves, roles),
        truncated |-> \/ walk.truncated
                      \/ "headers" \in beyond
                      \/ \E kind \in Texts \cap beyond : Of(kind) # {}]

(* Mutant: every part is counted, not only the attachments.                *)
ReadAttachmentOfParts(mail, index) ==
    LET leaves == Leaves(mail).leaves
        roles == Roles(mail, leaves)
    IN {leaves[i] : i \in {j \in DOMAIN leaves : roles[j] = "attachment" /\ j - 1 = index}}

(* read_attachment: walks the stored message again, counting.              *)
ReadAttachment(mail, index) ==
    LET leaves == Leaves(mail).leaves
        roles == Roles(mail, leaves)
        Before(j) == Cardinality({k \in 1..(j - 1) : roles[k] = "attachment"})
    IN {leaves[i] : i \in {j \in DOMAIN leaves :
                              roles[j] = "attachment" /\ Before(j) = index}}

(* require_attachment, against the row the message was stored in.          *)
Listed(row, index) == index >= 0 /\ index < Len(row.attachments)

-----------------------------------------------------------------------------
(* Assembling a message.                                                   *)

(* What a caller asks for.  The content type of an attachment is the       *)
(* caller's to choose.                                                     *)
Drafts == [plain : BOOLEAN, html : BOOLEAN,
           attachments : BoundedSeq({"plain", "html", "other", "message", "multi"},
                                    MaxAttachments)]

(* build_message refuses one without a body.                               *)
HasBody(o) == o.plain \/ o.html

At(depth, kind, filed) == [depth |-> depth, kind |-> kind, filed |-> filed]

(* An attachment is base64: declared a message it parses as one with that  *)
(* text inside it, and declared a multipart as one without a boundary.     *)
AttachedAs(kind) ==
    CASE kind = "message" -> <<At(1, "message", TRUE), At(2, "plain", FALSE)>>
      [] kind = "multi" -> <<At(1, "hollow", TRUE)>>
      [] OTHER -> <<At(1, kind, TRUE)>>

(* The bodies, at a depth: text first, HTML as its alternative.            *)
Bodies(o, depth) ==
    IF o.plain /\ o.html
    THEN <<At(depth, "multi", FALSE), At(depth + 1, "plain", FALSE), At(depth + 1, "html", FALSE)>>
    ELSE <<At(depth, IF o.plain THEN "plain" ELSE "html", FALSE)>>

(* build_message.                                                          *)
Build(o) ==
    IF o.attachments = <<>> THEN Bodies(o, 0)
    ELSE FoldLeft(LAMBDA mail, kind : mail \o AttachedAs(kind),
                  <<At(0, "multi", FALSE)>> \o Bodies(o, 1), o.attachments)

-----------------------------------------------------------------------------
NoDraft == [plain |-> FALSE, html |-> FALSE, attachments |-> <<>>]

MimeInit ==
    /\ parts = <<>>
    /\ over \in SUBSET Ceilings
    /\ draft = NoDraft

(* One more part of a message that somebody sends: whatever splits.        *)
Grow(part) ==
    /\ draft = NoDraft
    /\ Len(parts) < MaxLength
    /\ IF parts = <<>> THEN part.depth = 0
       ELSE /\ part.depth > 0
            /\ \/ part.depth <= parts[Len(parts)].depth
               \/ /\ part.depth = parts[Len(parts)].depth + 1
                  /\ parts[Len(parts)].kind \in {"message", "multi"}
    /\ parts' = Append(parts, part)
    /\ UNCHANGED <<over, draft>>

(* The depth of a part is never beyond that of its place.                  *)
Shapes == [depth : 0..(MaxLength - 1), kind : Kinds, filed : BOOLEAN]

Compose(o) ==
    /\ parts = <<>> /\ over = {}
    /\ HasBody(o)
    /\ draft' = o
    /\ UNCHANGED <<parts, over>>

MimeNext ==
    \/ \E part \in Shapes : (part.kind \notin Texts => ~part.filed) /\ Grow(part)
    \/ \E o \in Drafts : Compose(o)

MimeSpec == MimeInit /\ [][MimeNext]_mimeVars

-----------------------------------------------------------------------------
(* What a reader of a message should see: every part but the multiparts    *)
(* themselves and what cannot be read.  Of a message within it that is     *)
(* several blocks, as a delivery report is, only the first.                *)
Inside(mail) ==
    UNION {Beneath(mail, i) \cup {i} : i \in {j \in DOMAIN mail : mail[j].kind = "message"}}
Outermost(mail) ==
    {i \in DOMAIN mail : mail[i].kind = "message"
                         /\ \A j \in DOMAIN mail : mail[j].kind = "message" => i \notin Beneath(mail, j)}
Contents(mail) ==
    {i \in DOMAIN mail : mail[i].kind \in Whole /\ i \notin Inside(mail)}
    \cup UNION {FirstBeneath(mail, i) : i \in Outermost(mail)}

(* Unless it is marked truncated, everything in a received message is in   *)
(* the row once: as the text, as the HTML or in one attachment, in the     *)
(* order of the message ("nothing in the message is silently dropped").    *)
NothingDropped ==
    LET row == Parse(parts, over)
        Given(n) == Payload(parts, row.attachments[n])
        places == DOMAIN row.attachments
    IN /\ ~row.truncated =>
              Contents(parts) = row.text \cup row.html \cup UNION {Given(n) : n \in places}
       /\ \A n, o \in places : n < o => /\ row.attachments[n] < row.attachments[o]
                                        /\ Given(n) \cap Given(o) = {}
       /\ \A n \in places : row.attachments[n] \notin row.text \cup row.html
       /\ Len(row.attachments) <= MaxParts

(* The attachment that a download by its index gives is the one the row    *)
(* lists there, though the message is split anew, and there is one exactly *)
(* where the row lists one (read_attachment, require_attachment).          *)
IndexesAgree ==
    LET row == Parse(parts, over) IN
    \A index \in -1..(Len(parts) + 1) :
        ReadAttachment(parts, index) =
            IF Listed(row, index) THEN {row.attachments[index + 1]} ELSE {}

(* Reading a message that was sent gives back its text as text, its HTML   *)
(* as HTML and each attachment, in order, as an attachment, unless there   *)
(* are more parts than are read; what is in an attachment comes back       *)
(* unless it was declared a message (build_message).                       *)
SentIsRead ==
    HasBody(draft) =>
        LET mail == Build(draft)
            row == Parse(mail, {})
            declared == draft.attachments
            Is(places, kind) == \A i \in places : mail[i].kind = kind /\ ~mail[i].filed
        IN /\ Cardinality(row.text) = (IF draft.plain THEN 1 ELSE 0) /\ Is(row.text, "plain")
           /\ Cardinality(row.html) = (IF draft.html THEN 1 ELSE 0) /\ Is(row.html, "html")
           /\ ~row.truncated =>
                  /\ Len(row.attachments) = Len(declared)
                  /\ \A n \in DOMAIN declared :
                         /\ mail[row.attachments[n]].filed
                         /\ declared[n] # "message" =>
                                Payload(mail, row.attachments[n]) = {row.attachments[n]}
                         /\ declared[n] \notin {"message", "multi"} =>
                                mail[row.attachments[n]].kind = declared[n]

(* Both, of received mail and of sent: every index a reader is given leads *)
(* to its attachment, and a message sent through one instance and received *)
(* by another arrives as it was composed (message.py, parse.py).           *)
ReadingIsFaithful == IndexesAgree /\ SentIsRead
=============================================================================
