-------------------------- MODULE DocumentEncoding --------------------------
(***************************************************************************)
(* The bytes of one file and the document open on it (Workspace.cpp): what *)
(* the document remembers of the file's encoding and line ends while its   *)
(* text is edited, and what a save writes.  Edits go through the history   *)
(* to the document alone; only a draft that is put back (a closed tab      *)
(* reopened, a session restored) goes through Workspace::apply, which      *)
(* rewrites the terminators too.                                           *)
(*                                                                         *)
(* The file always exists and reads and writes succeed: what missing files *)
(* and failing writes do is EditorSession's and ExternalModification's,    *)
(* which know a content only by name.                                      *)
(***************************************************************************)
EXTENDS TextCodec

CONSTANTS
    Files,        \* the contents the file may start with
    Rewrites,     \* the contents other programs write
    Insertions,   \* the texts an edit inserts
    MaxText,      \* bound: bytes of a text edits leave
    MaxEdits,     \* bound: edits
    MaxChanges,   \* bound: changes by other programs
    MaxDrafts     \* bound: documents closed or left at an exit

ASSUME EncodingAssumption ==
    /\ <<>> \notin Insertions
    /\ MaxText \in Nat /\ MaxEdits \in Nat /\ MaxChanges \in Nat /\ MaxDrafts \in Nat

VARIABLES
    disk,       \* what the file holds
    entry,      \* the workspace's entry of the file
    draft,      \* the text a closed tab or the session snapshot keeps, and its baseline
    edits, changes, drafts

vars == <<disk, entry, draft, edits, changes, drafts>>
counters == <<edits, changes, drafts>>

\* An entry, and three observers: the bytes its terminators were read from, the
\* bytes last read or written, and whether the terminators have been rewritten
\* for a draft or kept for another text since then.
Entry(kind, text, decoded, bytes) ==
    [kind |-> kind, text |-> text, decoded |-> decoded, rawBytes |-> bytes,
     persistedStatus |-> decoded.status,
     source |-> bytes, origin |-> bytes, reworked |-> FALSE]
NoEntry == Entry("Closed", <<>>, emptyText, <<>>)
NoDraft == [kind |-> "None", text |-> <<>>, baseline |-> <<>>]

Init ==
    /\ disk \in Files
    /\ entry = NoEntry /\ draft = NoDraft
    /\ edits = 0 /\ changes = 0 /\ drafts = 0

-----------------------------------------------------------------------------
(* The workspace's functions. *)

containsBinaryNul(bytes) == \E k \in DOMAIN bytes : bytes[k] = NUL

Opened(decoded, bytes) == Entry("Text", decoded.text.utf8, decoded.text, bytes)

\* addBytes: bytes that are not text open as an empty read-only document.
openedIf(decoded, bytes) ==
    IF decoded.accepted THEN Opened(decoded, bytes) ELSE Entry("DecodeFailure", <<>>, emptyText, bytes)
addBytes(bytes) ==
    IF containsBinaryNul(bytes) THEN Entry("Binary", <<>>, emptyText, bytes)
    ELSE openedIf(decodeText(bytes), bytes)

dirty(e) == e.text # e.decoded.utf8 \/ e.decoded.status # e.persistedStatus

\* Another text with the terminators of its lines.
ended(original, text, terminators) ==
    [utf8 |-> text, lineTerminators |-> terminators \o withoutLast(text),
     status |-> [original.status EXCEPT !.finalNewline = text # <<>> /\ ~Unended(text)]]
Known(original, line) == line \in DOMAIN original.lineTerminators /\ original.lineTerminators[line] # "None"
unlessSame(original, other) == IF other.utf8 = original.utf8 THEN original ELSE other

\* Mutant: a line added below the known ones always ends in "\n".
LineFeedBelow(original, text) ==
    unlessSame(original, ended(original, text, [line \in 1..newlines(text) |->
        IF Known(original, line) THEN original.lineTerminators[line] ELSE "Lf"]))

\* textForSave: the line with a number keeps the terminator recorded for that number.
textForSave(original, text) ==
    unlessSame(original, ended(original, text, [line \in 1..newlines(text) |->
        IF Known(original, line) THEN original.lineTerminators[line]
        ELSE toTerminator(original.status.lineEnding)]))

\* Workspace::apply of one edit that replaces the whole text: every line gets
\* the default terminator, and the status follows; decoded.utf8 stays.
drafted(e, text, decoded) ==
    [e EXCEPT !.text = text,
              !.decoded.lineTerminators = decoded.lineTerminators,
              !.decoded.status = [decoded.status EXCEPT !.lineEnding = detectedLineEnding(decoded.lineTerminators)],
              !.source = <<>>, !.reworked = TRUE]
ReplacedByDraft(e, text) ==
    drafted(e, text, ended(e.decoded, text,
        [line \in 1..newlines(text) |-> toTerminator(e.decoded.status.lineEnding)]))

Restored(e, text) == IF e.kind # "Text" \/ e.text = text THEN e ELSE ReplacedByDraft(e, text)

\* What a save writes, and what it leaves of the entry.
toSave(e) == textForSave(e.decoded, e.text)
Saves(e) == encodeText(toSave(e))

\* Mutant: a save remembers the text it wrote and keeps the terminators it had.
TextOnly(e, text, bytes) ==
    [e EXCEPT !.decoded.utf8 = text.utf8, !.rawBytes = bytes, !.origin = bytes, !.reworked = FALSE]

Saved(e, text, bytes) ==
    [e EXCEPT !.decoded = text, !.rawBytes = bytes, !.origin = bytes,
              !.persistedStatus = text.status, !.reworked = FALSE]

-----------------------------------------------------------------------------
(* What the user does. *)

Open ==
    /\ entry.kind = "Closed"
    /\ draft.kind # "Snapshot"
    /\ entry' = addBytes(disk)
    /\ UNCHANGED <<disk, draft, counters>>

Boundaries(text) == {at \in 0..Len(text) : at = Len(text) \/ ~Continues(text[at + 1])}

\* An edit, an undo or a redo: the history changes the document.
Edit ==
    /\ entry.kind = "Text"
    /\ edits < MaxEdits
    /\ \E from, to \in Boundaries(entry.text), inserted \in Insertions \cup {<<>>} :
          /\ from <= to
          /\ from < to \/ inserted # <<>>
          /\ entry' = [entry EXCEPT !.text = SubSeq(@, 1, from) \o inserted \o SubSeq(@, to + 1, Len(@))]
    /\ Len(entry'.text) <= MaxText
    /\ edits' = edits + 1
    /\ UNCHANGED <<disk, draft, changes, drafts>>

\* saveTo; a text that cannot be encoded is not saved.
Writes(text, encoding) ==
    /\ encoding.accepted
    /\ disk' = encoding.bytes
    /\ entry' = Saved(entry, text, encoding.bytes)
SavesAs(text) == Writes(text, encodeText(text))
Save ==
    /\ entry.kind = "Text"
    /\ SavesAs(toSave(entry))
    /\ UNCHANGED <<draft, counters>>

\* What has been decoded takes the place of the document.
Adopts(decoded) == decoded.accepted /\ entry' = Opened(decoded, disk)

\* reload: the encoding is detected again.
Reload ==
    /\ entry.kind = "Text"
    /\ ~containsBinaryNul(disk)
    /\ Adopts(decodeText(disk))
    /\ UNCHANGED <<disk, draft, counters>>

\* Closing a tab keeps its text in a recovery record.
Close ==
    /\ entry.kind # "Closed"
    /\ drafts < MaxDrafts
    /\ entry' = NoEntry
    /\ draft' = [kind |-> "Record", text |-> entry.text, baseline |-> <<>>]
    /\ drafts' = drafts + 1
    /\ UNCHANGED <<disk, edits, changes>>

\* reopenTab: the file is opened as it is now and the text put over it.
Reopen ==
    /\ entry.kind = "Closed"
    /\ draft.kind = "Record"
    /\ entry' = Restored(addBytes(disk), draft.text)
    /\ draft' = NoDraft
    /\ UNCHANGED <<disk, counters>>

\* saveSession keeps the text of a document with unsaved changes.
Exit ==
    /\ entry.kind # "Closed"
    /\ drafts < MaxDrafts
    /\ draft' = IF entry.kind = "Text" /\ dirty(entry)
                  THEN [kind |-> "Snapshot", text |-> entry.text, baseline |-> entry.rawBytes]
                  ELSE NoDraft
    /\ entry' = NoEntry
    /\ drafts' = drafts + 1
    /\ UNCHANGED <<disk, edits, changes>>

\* restoreSession: over the file it was taken from, or over one that already
\* holds the text; an untitled copy otherwise, and the file stays closed.
Holds(decoded, text) == decoded.accepted /\ decoded.text.utf8 = text
startsWith(e) == IF e.kind = "Text" THEN Restored(e, draft.text) ELSE NoEntry
Start ==
    /\ draft.kind = "Snapshot"
    /\ entry' = IF Holds(decodeText(disk), draft.text) \/ disk = draft.baseline
                  THEN startsWith(addBytes(disk)) ELSE NoEntry
    /\ draft' = NoDraft
    /\ UNCHANGED <<disk, counters>>

-----------------------------------------------------------------------------
(* Other programs. *)

Rewrite ==
    /\ changes < MaxChanges
    /\ disk' \in Rewrites \ {disk}
    /\ changes' = changes + 1
    /\ UNCHANGED <<entry, draft, edits, drafts>>

\* reloadWithContent: the bytes are read in the encoding the document has.
ReadAs(e, bytes) == decodeSelected(bytes, e.decoded.status.encoding)

\* An external change reaches the document: a clean one adopts it; a dirty one
\* adopts it when the user answers to reload.
AdoptChange ==
    /\ entry.kind # "Closed" /\ disk # entry.rawBytes
    /\ entry.kind = "Text" /\ Adopts(ReadAs(entry, disk))
    /\ UNCHANGED <<disk, draft, counters>>

\* commitExternalDismissal: the answer to keep the text.
KeepBuffer ==
    /\ entry.kind # "Closed" /\ disk # entry.rawBytes
    /\ dirty(entry) \/ ~(entry.kind = "Text" /\ ReadAs(entry, disk).accepted)
    /\ entry' = [entry EXCEPT !.rawBytes = disk]
    /\ UNCHANGED <<disk, draft, counters>>

\* adoptExternalRename: a clean document follows the renamed file; a dirty one,
\* and one that is read-only, keeps its text and its terminators.
keptOver(e, decoded, bytes) ==
    [e EXCEPT !.decoded.utf8 = decoded.utf8, !.rawBytes = bytes, !.origin = bytes,
              !.persistedStatus = decoded.status, !.source = <<>>, !.reworked = TRUE]
AdoptsRenamed(decoded) ==
    \/ ~dirty(entry) /\ entry.kind = "Text" /\ Adopts(decoded)
    \/ /\ decoded.accepted /\ (dirty(entry) \/ entry.kind # "Text")
       /\ entry' = keptOver(entry, decoded.text, disk)
AdoptRename ==
    /\ entry.kind # "Closed"
    /\ AdoptsRenamed(ReadAs(entry, disk))
    /\ changes < MaxChanges /\ changes' = changes + 1
    /\ UNCHANGED <<disk, draft, edits, drafts>>

Next ==
    \/ Open \/ Edit \/ Save \/ Reload \/ Close \/ Reopen \/ Exit \/ Start
    \/ Rewrite \/ AdoptChange \/ KeepBuffer \/ AdoptRename

Spec == Init /\ [][Next]_vars

-----------------------------------------------------------------------------
(* Properties. *)

\* The variables have their types; a read-only document shows no text.
TypeOK ==
    /\ entry.kind \in {"Closed", "Text", "Binary", "DecodeFailure"}
    /\ draft.kind \in {"None", "Record", "Snapshot"}
    /\ entry.kind # "Text" => entry.text = <<>>
    /\ entry.decoded.status.encoding \in TextEncodings
    /\ entry.decoded.status.lineEnding \in LineEndings

GivesBack(decoded, bytes, encoding) ==
    /\ encoding.accepted
    /\ encoding.bytes = (IF decoded.status.hadBom THEN bytes ELSE bomOf(decoded.status.encoding) \o bytes)
ReturnsTo(decoded, bytes) == decoded.accepted => GivesBack(decoded.text, bytes, encodeText(decoded.text))

\* Whatever the encoding the bytes are read in, writing the text back gives
\* the bytes again; a Unicode encoding that has a byte order mark adds the one
\* that was missing (encodeText, TextCodec.cpp:508).
EncodingsReturnTheirBytes ==
    \A encoding \in TextEncodings : ReturnsTo(decodeSelected(disk, encoding), disk)

Keeps(e, saves) ==
    /\ saves.accepted
    /\ saves.bytes = (IF e.decoded.status.hadBom \/ StartsWith(e.origin, bomOf(e.decoded.status.encoding))
                         THEN e.origin ELSE bomOf(e.decoded.status.encoding) \o e.origin)

\* A document without unsaved changes is what its file was: saving it writes
\* the bytes it was last read from or written as, every line end and the byte
\* order mark included.  A missing mark is added, and terminators that were
\* rewritten no longer say (Workspace::state, saveTo).
CleanSavesKeepTheFile ==
    entry.kind = "Text" /\ ~dirty(entry) /\ ~entry.reworked => Keeps(entry, Saves(entry))

\* A lone "\r" that ends a line is read with the "\n" that ends an empty one after it.
lineBefore(utf8, k) == newlines(SubSeq(utf8, 1, k))
Merges(text) ==
    \E k \in 1..Len(text.utf8) - 1 :
        /\ text.utf8[k] = NL /\ text.utf8[k + 1] = NL
        /\ SubSeq(text.lineTerminators, lineBefore(text.utf8, k), lineBefore(text.utf8, k) + 1) = <<"Cr", "Lf">>
Shows(e, text) == e.kind = "Text" /\ e.text = text
ReadsBack(e, saves) ==
    \/ ~saves.accepted
    \/ Shows(addBytes(saves.bytes), e.text)
    \/ Merges(toSave(e))
    \/ e.decoded.status.encoding \in {"Utf16le", "Utf16be"} /\ containsBinaryNul(saves.bytes)
GoesThrough(e, saves) == saves.accepted \/ (e.reworked /\ e.text = e.decoded.utf8)

\* A text on the screen can be saved, and what a save writes reads back as the
\* text that was saved: opening the file again shows the document that was on
\* the screen.  Only terminators that were rewritten can stand in the way, and
\* only while the text is the one of the file; only a lone "\r" before an empty
\* line, and code points that UTF-16 spells with a zero byte, read differently
\* (textForSave, outputScalars, encodeText, addBytes).
SavesReadBack ==
    TypeOK /\ (entry.kind = "Text" => GoesThrough(entry, Saves(entry)) /\ ReadsBack(entry, Saves(entry)))

EndingsIn(text) == ToSet(text.lineTerminators) \ {"None"}
StaysUniform(text, source) ==
    source.accepted /\ Cardinality(EndingsIn(source.text)) = 1 => EndingsIn(text) \subseteq EndingsIn(source.text)

\* A file opened with lines that all end the same way keeps it: whatever is
\* typed and however often it is saved, no other line end gets into it
\* (defaultTerminator, textForSave).  Rewritten terminators no longer say.
UniformEndingsStay ==
    entry.kind = "Text" /\ Saves(entry).accepted => StaysUniform(toSave(entry), decodeText(entry.source))

=============================================================================
