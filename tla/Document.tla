------------------------------ MODULE Document ------------------------------
(***************************************************************************)
(* crates/sith_server/src/edit/document.rs: the server's copy of a text    *)
(* document, kept in step with the client's by didChange notifications,    *)
(* each a list of changes applied in order.  The client is external: it    *)
(* edits its own text and describes every edit by the positions it had     *)
(* when it was made.  One step is one turn of the loop of apply_changes.   *)
(***************************************************************************)
EXTENDS Convert

CONSTANTS
    MaxChanges,     \* bound: changes in one notification
    MaxVersion      \* bound: the version of the document

ASSUME BoundsAssumption == MaxChanges \in Nat /\ MaxVersion \in Nat

VARIABLES
    text,           \* the client's text
    encoding,       \* the negotiated position encoding
    contents, index, version,   \* Document
    handler,        \* "idle", "changing" in apply_changes, or "panicked" there
    changes,        \* number of changes of the notification applied so far
    onlyFull,       \* the notification so far is one change without a range
    new_contents, active_index, \* locals of apply_changes
    misled      \* history: a range was read with the index of another text

clientVars == <<text, encoding>>
documentVars == <<contents, index, version>>
localVars == <<changes, onlyFull, new_contents, active_index, misled>>
vars == <<clientVars, documentVars, handler, localVars>>

Texts == UNION {[1..n -> Characters] : n \in 0..MaxLen}

(* Document::new, on didOpen. *)
Init ==
    /\ text \in {t \in Texts : Len(t) <= 2}
    /\ encoding \in PositionEncodings
    /\ contents = text
    /\ index = FromSourceText(text)
    /\ version = 0
    /\ handler = "idle"
    /\ changes = 0
    /\ onlyFull = FALSE
    /\ new_contents = text
    /\ active_index = index
    /\ misled = FALSE
-----------------------------------------------------------------------------
(* The client's side of a change. *)

(* `t` with the characters after the first `i` and up to `j` replaced. *)
Replaced(t, i, j, s) == SubSeq(t, 1, i) \o s \o SubSeq(t, j + 1, Len(t))

(* The client's own position of the character after the first `i`. *)
ClientPosition(i) ==
    LET lines == {k \in 1..i : EndsLine(text, k)}
        start == IF lines = {} THEN 0 ELSE CHOOSE k \in lines : \A l \in lines : l <= k
        column == SubSeq(text, start + 1, i)
    IN  [line |-> Cardinality(lines),
         character |-> CASE encoding = "UTF8" -> Bytes(column, Len(column))
                         [] encoding = "UTF16" -> Size(LenUtf16, column, Len(column))
                         [] encoding = "UTF32" -> Len(column)]

(* A client does not point between the characters of a CRLF. *)
Pointable(i) == ~(0 < i /\ i < Len(text) /\ text[i] = "cr" /\ text[i + 1] = "nl")

-----------------------------------------------------------------------------
(* A didChange notification arrives. *)
StartChanges ==
    /\ handler = "idle"
    /\ version < MaxVersion
    /\ handler' = "changing"
    /\ new_contents' = contents
    /\ active_index' = index
    /\ changes' = 0
    /\ onlyFull' = FALSE
    /\ UNCHANGED <<clientVars, documentVars, misled>>

(* Mutant: the line index is only computed when all changes are applied. *)
ReindexNever(t) == UNCHANGED active_index

(* The line index follows the text, unless the text is the old one again. *)
Reindex(t) ==
    active_index' = IF t # contents THEN FromSourceText(t) ELSE active_index

(* A change restored the text that another change of the notification had  *)
(* replaced: the index is that of neither.                                 *)
StaleIndex == new_contents = contents /\ active_index # index

(* A position past the lines, or inside a character: an index or a slice   *)
(* panics, in the conversion or in replace_range.                          *)
OutOfText(start, end) ==
    \/ \E p \in {start, end} : ToOffsetPanics(p, new_contents, active_index, encoding)
    \/ \E p \in {start, end} :
          ~IsBoundary(new_contents, ToOffset(p, new_contents, active_index, encoding))

(* The assertion in TextRange::new. *)
Unordered(start, end) ==
    /\ \A p \in {start, end} : ~ToOffsetPanics(p, new_contents, active_index, encoding)
    /\ ToOffset(start, new_contents, active_index, encoding)
          > ToOffset(end, new_contents, active_index, encoding)

(* A change with a range: to_text_range, then replace_range. *)
ChangeRange(i, j, s) ==
    /\ handler = "changing"
    /\ changes < MaxChanges
    /\ Pointable(i) /\ Pointable(j)
    /\ Len(Replaced(text, i, j, s)) <= MaxLen
    /\ LET start == ClientPosition(i)
           end == ClientPosition(j)
       IN  IF Unordered(start, end) \/ OutOfText(start, end)
           THEN handler' = "panicked" /\ UNCHANGED <<new_contents, active_index>>
           ELSE LET from == CharsBefore(new_contents, ToOffset(start, new_contents, active_index, encoding))
                    to == CharsBefore(new_contents, ToOffset(end, new_contents, active_index, encoding))
                IN  /\ new_contents' = Replaced(new_contents, from, to, s)
                    /\ Reindex(new_contents')
                    /\ UNCHANGED handler
    /\ text' = Replaced(text, i, j, s)
    /\ changes' = changes + 1
    /\ onlyFull' = FALSE
    /\ misled' = (misled \/ StaleIndex)
    /\ UNCHANGED <<encoding, documentVars>>

(* A change without one replaces the text. *)
ChangeFull(t) ==
    /\ handler = "changing"
    /\ changes < MaxChanges
    /\ text' = t
    /\ new_contents' = t
    /\ Reindex(t)
    /\ changes' = changes + 1
    /\ onlyFull' = (changes = 0)
    /\ UNCHANGED <<encoding, documentVars, handler, misled>>

(* The fast path, a single change without a range: `modify`. *)
FinishFull ==
    /\ handler = "changing"
    /\ onlyFull
    /\ contents' = new_contents
    /\ index' = FromSourceText(new_contents)
    /\ version' = version + 1
    /\ handler' = "idle"
    /\ UNCHANGED <<clientVars, localVars>>

(* Mutant: a notification that leaves the lines where they are is skipped. *)
FinishChangesSameLines ==
    /\ handler = "changing"
    /\ ~onlyFull
    /\ index' = active_index
    /\ contents' = IF active_index # index THEN new_contents ELSE contents
    /\ version' = version + 1
    /\ handler' = "idle"
    /\ UNCHANGED <<clientVars, localVars>>

(* modify_with_manual_index at the end of the loop. *)
FinishChanges ==
    /\ handler = "changing"
    /\ ~onlyFull
    /\ index' = IF contents # new_contents THEN active_index ELSE index
    /\ contents' = new_contents
    /\ version' = version + 1
    /\ handler' = "idle"
    /\ UNCHANGED <<clientVars, localVars>>

Done == handler = "panicked" \/ (handler = "idle" /\ version = MaxVersion)

Next ==
    \/ StartChanges
    \/ \E i \in 0..Len(text) : \E j \in i..Len(text), s \in {t \in Texts : Len(t) <= 1} :
          ChangeRange(i, j, s)
    \/ \E t \in Texts : ChangeFull(t)
    \/ FinishFull \/ FinishChanges
    \/ Done /\ UNCHANGED vars

Spec == Init /\ [][Next]_vars
-----------------------------------------------------------------------------
(* "Stays up-to-date with changes made by the user" (document.rs:10), and  *)
(* the index "should always reflect the current version of `contents`":    *)
(* between two notifications the document is the client's text and the     *)
(* line index is that of the text, although apply_changes updates the two  *)
(* separately.                                                             *)
StaysUpToDate == handler = "idle" => contents = text /\ index = FromSourceText(contents)

(* It does unless a notification went on after it had restored the text:   *)
(* the next change is then read with a stale index.                        *)
InSync == ~misled => StaysUpToDate

(* Positions of the client's text never make apply_changes panic, neither  *)
(* in an index or a slice nor in the assertion of TextRange::new, unless   *)
(* they were read with such an index.                                      *)
NoPanic == handler = "panicked" => misled

(* to_range and to_text_range are inverse to each other at every character *)
(* of the document, in every encoding; a byte order mark is no column of   *)
(* the former.                                                             *)
RoundTrip ==
    handler = "idle" /\ ~misled =>
        \A n \in 0..Len(contents) :
            LET o == Bytes(contents, n)
            IN  ~(encoding = "UTF32" /\ contents # <<>> /\ contents[1] = "bom") =>
                ToOffset(OffsetToPosition(o, contents, index, encoding), contents, index, encoding) = o
=============================================================================
