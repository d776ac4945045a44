------------------------------ MODULE PackArray ------------------------------
(***************************************************************************)
(* The archives of the web interface: PackArray.js on the server, which    *)
(* appends packed records to one string and cuts its front off when it     *)
(* grows too long, and UnPackArray.js in the page, which finds the records *)
(* again.  The cut falls anywhere: inside a marker, a name or a record.    *)
(* A text is a sequence of characters; "0", "1" and "2" stand for the      *)
(* characters \x00, \x01 and \x02, which JSON.stringify never writes.      *)
(***************************************************************************)
EXTENDS Integers, Sequences, SequencesExt

CONSTANTS
    Characters, \* of which texts are made
    Records,   \* JSON texts of the objects written
    Name,      \* the name they are written under
    MaxSize,   \* PackArray.maxSize, 1 MiB in the code
    MaxRecent  \* how many of the last records `recent' keeps

Markers == {"0", "1", "2"}
MSG_START_MARKER == <<"0", "0">>
MSG_DELTA_MARKER == <<"0", "1">>
MSG_END_MARKER   == <<"0", "2">>

VARIABLES
    data,     \* PackArray.data
    recent    \* the last records written

vars == <<data, recent>>

-----------------------------------------------------------------------------
(* PackArray.js *)

Pack(r) == MSG_START_MARKER \o Name \o MSG_DELTA_MARKER \o r \o MSG_END_MARKER

\* Texts without the characters of the markers
Texts == Seq(Characters \ Markers)

\* A record is a few hundred characters, half an archive is 512 Ki.  A packed
\* record has at least seven, so `recent' remembers as many as an archive holds.
ASSUME RecordsAssumption ==
    /\ MaxSize \in Nat /\ MaxRecent \in Nat /\ MaxSize <= 7 * MaxRecent
    /\ Markers \subseteq Characters
    /\ Name \in Texts /\ Name # <<>>
    /\ Records \subseteq Texts
    /\ \A r \in Records : 2 * Len(Pack(r)) <= MaxSize

\* Mutant: the end of the text is cut off.
CutEnd(text) ==
    IF Len(text) > MaxSize THEN SubSeq(text, 1, Len(text) - MaxSize \div 2) ELSE text

\* substr(maxSize >> 1) of a text that is too long
Cut(text) ==
    IF Len(text) > MaxSize THEN SubSeq(text, MaxSize \div 2 + 1, Len(text)) ELSE text

Write(r) ==
    /\ data' = Cut(data \o Pack(r))
    /\ recent' = LET all == Append(recent, r)
                 IN IF Len(all) > MaxRecent THEN Tail(all) ELSE all

-----------------------------------------------------------------------------
(* UnPackArray.js *)

\* str.indexOf: the first place of `marker' at or after `from', 0 if none.
IndexOf(text, marker, from) ==
    LET places == {i \in from .. Len(text) - Len(marker) + 1 :
                     SubSeq(text, i, i + Len(marker) - 1) = marker}
    IN IF places = {} THEN 0 ELSE Min(places)

\* The records found: each between a start marker, a delta marker and an end
\* marker, searched one after the other; text that is no JSON is left out.
UnPackArray(text) ==
    LET list[from \in Nat] ==
            LET startIndex == IndexOf(text, MSG_START_MARKER, from)
                deltaIndex == IndexOf(text, MSG_DELTA_MARKER, startIndex + 2)
                endIndex   == IndexOf(text, MSG_END_MARKER, deltaIndex + 2)
                json       == SubSeq(text, deltaIndex + 2, endIndex - 1)
            IN IF startIndex = 0 \/ deltaIndex = 0 \/ endIndex = 0 THEN <<>>
               ELSE (IF json \in Records THEN <<json>> ELSE <<>>) \o list[endIndex]
    IN list[1]

-----------------------------------------------------------------------------
Init == data = <<>> /\ recent = <<>>

Next == \E r \in Records : Write(r)

Spec == Init /\ [][Next]_vars

-----------------------------------------------------------------------------
(* Properties *)

\* Wherever the front was cut off, a page finds the last records written, the
\* last one among them, whole, in their order, and nothing else; and what it
\* is sent is within the limit.
PageFindsLast ==
    LET found == UnPackArray(data)
    IN /\ IsSuffix(found, recent)
       /\ recent # <<>> => found # <<>>
       /\ Len(data) <= MaxSize

=============================================================================
