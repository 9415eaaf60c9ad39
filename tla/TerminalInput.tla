---------------------------- MODULE TerminalInput ----------------------------
(***************************************************************************)
(* What a terminal sends, read in pieces and decoded into keys, pointer    *)
(* events, pastes and replies (TerminalInput.cpp), with the loop that      *)
(* reads and waits (main.cpp, TerminalClient.cpp) and the probe of the     *)
(* terminal's capabilities (TerminalCapabilities.cpp).                     *)
(*                                                                         *)
(* A byte is a model value with its glyph for a name; "A" and "H" stand    *)
(* for the letters of arrows, Home and End, "^A" and "^Q" for the control  *)
(* letters, "E9" for a first byte of two in UTF-8, "80" for a second one.  *)
(***************************************************************************)
EXTENDS TextGeometry

CONSTANTS Keys,        \* what the user does: [legacy, kitty : bytes, means, severed : events]
          Replies,     \* what the terminal answers to the probe, in the order it does
          Forced,      \* SSG_TERM_KEYBOARD_PROTOCOL: "on", "off" or "unset"
          MaxSequence, \* kMaxSequenceBytes
          MaxPaste,    \* kMaxPasteBytes
          MaxSplits,   \* bound on the reads that end before what was sent
          MaxKeys      \* bound on what the user does

VARIABLES wire,     \* bytes on their way from the terminal
          input,    \* TerminalClient's buffer
          waits,    \* pendingInputDeadline is set
          quit,     \* the loop has ended
          probe,    \* TerminalCapabilities: [probing, late, keyboard, clipboard, synchronized]
          protocol, \* the terminal speaks the keyboard protocol
          answers,  \* replies not sent yet
          pressed,  \* observer: what the user has done
          out,      \* observer: the events routed to the editor
          splits,   \* reads that ended early, up to MaxSplits
          piece,    \* observer: what was read since all that was sent had been taken in, and whether more is on its way
          mixed,    \* observer: bytes met that a terminal cannot tell apart
          severed   \* observer: the reads that ended between two escape bytes and their bracket

vars == <<wire, input, waits, quit, probe, protocol, answers, pressed, out, splits, piece, mixed, severed>>

-----------------------------------------------------------------------------
(* Bytes. *)

DigitValue == [d \in {"0", "1", "2", "3", "4", "5", "6", "7", "8", "9"} |->
  CHOOSE n \in 0..9 : <<"0", "1", "2", "3", "4", "5", "6", "7", "8", "9">>[n + 1] = d]
Digits == DOMAIN DigitValue
Parameters == Digits \cup {";", "<", "?"}
Intermediates == {" ", "$"}
Capitals == "A" :> "a" @@ "H" :> "h" @@ "M" :> "m" @@ "O" :> "o"
Plain == Digits \cup {";", " ", "[", "a", "c", "h", "m", "o", "q", "t", "u", "y"}
Finals == DOMAIN Capitals \cup {"[", "~", "a", "c", "h", "m", "o", "q", "t", "u", "y"}

asciiKeyCode(b) == IF b \in DOMAIN Capitals THEN Capitals[b] ELSE IF b \in Plain THEN b ELSE "None"
utf8Length(b) == IF b = "80" THEN 0 ELSE IF b = "E9" THEN 2 ELSE 1
Controls == {"ESC", "CR", "DEL", "TAB", "^A", "^Q", "NUL"}
NamedKeys == "CR" :> "Enter" @@ "DEL" :> "Backspace" @@ "TAB" :> "Tab"

\* Where the first byte outside a set is, from a position on, and the number some digits write.
After(bytes, from, set) == Min({i \in from..Len(bytes) : i = Len(bytes) \/ At(bytes, i) \notin set})
Number(digits) == FoldLeft(LAMBDA n, d : 10 * n + DigitValue[d], 0, digits)

-----------------------------------------------------------------------------
(* Strokes and events. *)

Stroke(code, shift, mod) == [code |-> code, shift |-> shift, mod |-> mod, meta |-> FALSE]
Event(status, stroke, text) == [status |-> status, stroke |-> stroke, text |-> text]
NoStroke == Stroke("None", FALSE, FALSE)
KeyEvent(code) == Event("key", Stroke(code, FALSE, FALSE), <<>>)
TextEvent(text) == Event("key", IF Len(text) = 1 THEN Stroke(asciiKeyCode(text[1]), text[1] \in DOMAIN Capitals, FALSE)
                                ELSE NoStroke, text)
NoEvent == Event("none", NoStroke, <<>>)

Taken(count, event) == [consumed |-> count, event |-> event]
Incomplete == Taken(0, Event("incomplete", NoStroke, <<>>))

Bit(number, k) == (number \div (2 ^ k)) % 2 = 1

\* The locks are no modifiers, and both of Alt and Ctrl are none.
applyMask(code, mask, kitty) ==
  IF mask <= 0 \/ (Bit(mask, 1) /\ Bit(mask, 2)) \/ (~kitty /\ \E k \in 3..5 : Bit(mask, k))
    THEN Stroke(code, FALSE, FALSE)
  ELSE [Stroke(code, Bit(mask, 0), Bit(mask, 1) \/ Bit(mask, 2)) EXCEPT !.meta = kitty /\ Bit(mask, 5)]
applyModifierBitmask(code, modifier, kitty) == applyMask(code, modifier - 1, kitty)

-----------------------------------------------------------------------------
(* Control sequences. *)

\* A sequence is parameters, then intermediates, then a final byte; one too long is none.
finalOf(bytes) == After(bytes, After(bytes, 2, Parameters), Intermediates)
scanTo(bytes, final) ==
  IF final >= MaxSequence THEN [scan |-> "malformed", end |-> MaxSequence]
  ELSE IF final >= Len(bytes) THEN [scan |-> "incomplete", end |-> final]
  ELSE [scan |-> IF At(bytes, final) \in Finals THEN "complete" ELSE "malformed", end |-> final + 1]
scanAtOnceTo(bytes, final) ==
  IF final >= Len(bytes) THEN [scan |-> "malformed", end |-> Len(bytes)] ELSE scanTo(bytes, final)

scanCsiAtOnce(bytes) == scanAtOnceTo(bytes, finalOf(bytes))
scanCsi(bytes) == scanTo(bytes, finalOf(bytes))

isReplyCsi(bytes, end) == At(bytes, end - 1) \in (IF At(bytes, 2) = "?" THEN {"c", "u", "y"} ELSE {"t"})

unhandledCsi(bytes, end) ==
  Taken(end, IF isReplyCsi(bytes, end) THEN Event("reply", NoStroke, Slice(bytes, 0, end)) ELSE NoEvent)

kittyKeyCode(number) ==
  CASE number = 27  -> "Escape"
    [] number = 13  -> "Enter"
    [] number = 9   -> "Tab"
    [] number = 127 -> "Backspace"
    [] number = 97  -> "a"
    [] number = 113 -> "q"
    [] number = 91  -> "["
    [] OTHER        -> "None"

\* Only the key and its modifiers are read; what is between them is passed over.
isKittyKey(bytes, end) == At(bytes, end - 1) = "u" /\ At(bytes, 2) \in Digits
digitsFrom(bytes, from) == Slice(bytes, from, After(bytes, from, Digits))
kittyModifier(bytes, end, next) == IF next < end - 1 THEN Number(digitsFrom(bytes, next + 1)) ELSE 1
kittyKeyEvent(code, modifier) ==
  IF code = "None" THEN NoEvent ELSE Event("key", applyModifierBitmask(code, modifier, TRUE), <<>>)
decodeKittyKey(bytes, end) ==
  Taken(end, kittyKeyEvent(kittyKeyCode(Number(digitsFrom(bytes, 2))),
                           kittyModifier(bytes, end, After(bytes, 2, (Finals \cup Parameters \cup Intermediates) \ {";"}))))

unhandledGuessed(bytes) == Taken(3, NoEvent)

\* A sequence that no case reads is consumed whole, or waited for.
unhandledScanned(bytes, csi) ==
  CASE At(bytes, 1) = "O"         -> Taken(3, NoEvent)
    [] csi.scan = "incomplete"    -> Incomplete
    [] csi.scan = "malformed"     -> Taken(csi.end, NoEvent)
    [] isKittyKey(bytes, csi.end) -> decodeKittyKey(bytes, csi.end)
    [] OTHER                      -> unhandledCsi(bytes, csi.end)
unhandled(bytes) == unhandledScanned(bytes, scanCsi(bytes))

\* The keys a leading number stands for, by the final byte.
NavigationKeys(number) ==
  CASE number = "1" -> "A" :> "ArrowUp" @@ "H" :> "Home" @@ "~" :> "Home"
    [] number = "3" -> "~" :> "Delete"
    [] number = "5" -> "~" :> "PageUp"
    [] number = "6" -> "~" :> "PageDown"
    [] number = "7" -> "~" :> "Home"
    [] OTHER        -> "~" :> "End"

\* A semicolon, a modifier and the final byte of one of the keys.
navigationModified(bytes, keys, final) ==
  CASE final < Len(bytes) /\ 4 < final /\ At(bytes, final) \in DOMAIN keys ->
            Taken(final + 1, Event("key", applyModifierBitmask(keys[At(bytes, final)],
                                                                   Number(Slice(bytes, 4, final)), FALSE), <<>>))
    [] final = Len(bytes) -> Incomplete
    [] OTHER              -> unhandled(bytes)
navigationOf(bytes, keys) ==
  CASE Len(bytes) < 4     -> Incomplete
    [] At(bytes, 3) = "~" -> Taken(4, KeyEvent(keys["~"]))
    [] OTHER              -> navigationModified(bytes, keys, IF At(bytes, 3) = ";" THEN After(bytes, 4, Digits) ELSE 0)
navigationKey(bytes) == navigationOf(bytes, NavigationKeys(At(bytes, 2)))

PasteStart == <<"ESC", "[", "2", "0", "0", "~">>
PasteEnd == <<"ESC", "[", "2", "0", "1", "~">>
pasteEnds(bytes) ==
  {i \in Len(PasteStart)..(Len(bytes) - Len(PasteEnd)) : Slice(bytes, i, i + Len(PasteEnd)) = PasteEnd}
pastedTo(bytes, ends) ==
  IF ends # {} THEN Taken(Min(ends) + Len(PasteEnd), Event("paste", NoStroke, Slice(bytes, Len(PasteStart), Min(ends))))
  ELSE IF Len(bytes) < MaxPaste THEN Incomplete ELSE Taken(Len(bytes), NoEvent)
pasted(bytes) ==
  CASE IsStrictPrefix(bytes, PasteStart) -> Incomplete
    [] IsPrefix(PasteStart, bytes)       -> pastedTo(bytes, pasteEnds(bytes))
    [] OTHER                             -> unhandled(bytes)

\* The pointer: button, column and row, each of digits.
PointerEvent(cb, column, row, release) ==
  LET wheel == cb - (IF Bit(cb, 3) THEN 8 ELSE 0)
      kind == IF release THEN "release" ELSE IF Bit(cb, 5) THEN "drag" ELSE "press"
      at(n) == IF n > 0 THEN n - 1 ELSE 0
  IN IF wheel \in {64, 65} THEN Event("scroll", NoStroke, <<IF wheel = 64 THEN -3 ELSE 3, at(column), at(row)>>)
     ELSE IF Bit(cb, 6) THEN NoEvent
     ELSE Event(kind, NoStroke, <<cb % 4, at(column), at(row), Bit(cb, 3)>>)

\* The three numbers of a report, and where the digits of the last one end.
mouseNumber(bytes, report) ==
  IF /\ report.wellFormed
     /\ report.next < Len(bytes) /\ At(bytes, report.next) \in Digits
     /\ report.numbers # <<>> => At(bytes, report.next - 1) = ";"
    THEN [report EXCEPT !.numbers = Append(@, Number(digitsFrom(bytes, report.next))),
                        !.next = After(bytes, @, Digits) + 1]
  ELSE [report EXCEPT !.wellFormed = FALSE]
mouseReport(bytes) ==
  FoldLeft(LAMBDA report, k : mouseNumber(bytes, report), [numbers |-> <<>>, wellFormed |-> TRUE, next |-> 3], <<1, 2, 3>>)
mouseReported(report, end, release) ==
  IF report.wellFormed /\ report.next = end THEN PointerEvent(report.numbers[1], report.numbers[2], report.numbers[3], release)
  ELSE NoEvent
mouseScanned(bytes, csi) ==
  CASE csi.scan = "incomplete"                    -> Incomplete
    [] csi.scan = "malformed"                     -> Taken(csi.end, NoEvent)
    [] At(bytes, csi.end - 1) \notin {"M", "m"}   -> unhandled(bytes)
    [] OTHER -> Taken(csi.end, mouseReported(mouseReport(bytes), csi.end, At(bytes, csi.end - 1) = "m"))
mouse(bytes) == mouseScanned(bytes, scanCsi(bytes))

\* The wheel of an old terminal: a final byte and three more.
oldMouse(bytes) ==
  IF At(bytes, 1) = "O" THEN Taken(3, KeyEvent("Enter"))
  ELSE IF Len(bytes) < 6 THEN Incomplete
  ELSE Taken(6, IF At(bytes, 3) = "a" THEN Event("scroll", NoStroke, <<3, 0, 0>>) ELSE NoEvent)

\* What begins with ESC [ or ESC O.
sequenceBy(bytes, third) ==
  CASE third = "A"                                  -> Taken(3, KeyEvent("ArrowUp"))
    [] third = "H"                                  -> Taken(3, KeyEvent("Home"))
    [] third \in {"1", "3", "4", "5", "6", "7", "8"} -> navigationKey(bytes)
    [] third = "2"                                  -> pasted(bytes)
    [] third = "<"                                  -> mouse(bytes)
    [] third = "M"                                  -> oldMouse(bytes)
    [] OTHER                                        -> unhandled(bytes)
decodeSequence(bytes) == IF Len(bytes) < 3 THEN Incomplete ELSE sequenceBy(bytes, At(bytes, 2))

\* What begins with ESC: a sequence, a key with Alt, or the key itself, which is only
\* told from the others by what does not follow.
Alt(event) == [event EXCEPT !.stroke.mod = ~@]
EscapeAlone == Taken(1, KeyEvent("Escape"))
altSequence(inner) ==
  CASE inner.event.status = "incomplete" -> Incomplete
    [] inner.event.status = "key"        -> Taken(1 + inner.consumed, Alt(inner.event))
    [] OTHER                             -> EscapeAlone
altText(bytes, length) ==
  CASE length = 0              -> EscapeAlone
    [] Len(bytes) < 1 + length -> Incomplete
    [] OTHER                   -> Taken(1 + length, Alt(TextEvent(Slice(bytes, 1, 1 + length))))

\* A second escape byte before a bracket is Alt with the sequence that follows.
doubled(bytes) == Len(bytes) > 2 /\ At(bytes, 1) = "ESC" /\ At(bytes, 2) \in {"[", "O"}
sequenceIn(bytes) == decodeSequence(IF doubled(bytes) THEN Tail(bytes) ELSE bytes)
decodeAfterEscape(bytes, second) ==
  CASE second \in {"[", "O"}        -> sequenceIn(bytes)
    [] doubled(bytes)               -> altSequence(sequenceIn(bytes))
    [] second \in DOMAIN NamedKeys  -> Taken(2, Alt(KeyEvent(NamedKeys[second])))
    [] second \in Controls          -> EscapeAlone
    [] OTHER                        -> altText(bytes, utf8Length(second))
decodeEscape(bytes, inputExhausted) ==
  IF Len(bytes) > 1 THEN decodeAfterEscape(bytes, At(bytes, 1))
  ELSE IF inputExhausted THEN EscapeAlone ELSE Incomplete

decodeText(bytes, length) ==
  CASE length = 0          -> Taken(1, NoEvent)
    [] Len(bytes) < length -> Incomplete
    [] OTHER               -> Taken(length, TextEvent(Slice(bytes, 0, length)))
decodeInputRaw(bytes, inputExhausted) ==
  CASE bytes[1] \in DOMAIN NamedKeys -> Taken(1, KeyEvent(NamedKeys[bytes[1]]))
    [] bytes[1] = "ESC" -> decodeEscape(bytes, inputExhausted)
    [] bytes[1] = "^A"  -> Taken(1, Alt(KeyEvent("a")))
    [] bytes[1] = "^Q"  -> Taken(1, Alt(KeyEvent("q")))
    [] bytes[1] = "NUL" -> Taken(1, NoEvent)
    [] OTHER            -> decodeText(bytes, utf8Length(bytes[1]))

\* Enter has no modifiers, however it came.
withPlainEnter(d) ==
  IF d.event.status = "key" /\ d.event.stroke.code = "Enter" THEN [d EXCEPT !.event.stroke = Stroke("Enter", FALSE, FALSE)]
  ELSE d
decodeInput(bytes, inputExhausted) == withPlainEnter(decodeInputRaw(bytes, inputExhausted))

-----------------------------------------------------------------------------
(* The probe of the capabilities. *)

\* The numbers of a reply.
parameterByte(numbers, b) ==
  CASE b = ";"      -> Append(numbers, 0)
    [] b \in Digits -> Append(Front(numbers), 10 * Last(numbers) + DigitValue[b])
    [] OTHER        -> numbers
parametersOf(reply) == FoldLeft(parameterByte, <<0>>, reply)

\* The device attributes are asked for last: nothing is heard after them, or too late.
answeredBy(p, reply, numbers) ==
  CASE Last(reply) = "c" -> [p EXCEPT !.probing = FALSE, !.clipboard = \E k \in 2..Len(numbers) : numbers[k] = 52]
    [] Last(reply) = "u" -> [p EXCEPT !.keyboard = TRUE]
    [] Last(reply) = "y" /\ Last(Front(reply)) = "$" /\ Len(numbers) > 1 /\ numbers[1] = 2026 ->
         [p EXCEPT !.synchronized = numbers[2] \in {1, 2, 3}]
    [] OTHER -> p
observeReply(p, reply) ==
  IF ~p.probing \/ p.late THEN [p EXCEPT !.probing = FALSE]
  ELSE IF At(reply, 2) = "?" THEN answeredBy(p, reply, parametersOf(reply)) ELSE p
hasKeyboard(p) == IF Forced = "unset" THEN p.keyboard ELSE Forced = "on"

-----------------------------------------------------------------------------
(* The buffer is consumed up to what must be waited for. *)

QuitRequested(event) == event.status = "key" /\ event.stroke.code = "q" /\ event.stroke.mod

\* A drag that another follows at once is passed over.
probedAs(s, p) == [s EXCEPT !.probe = p, !.protocol = @ \/ hasKeyboard(p)]
DragsOn(event, rest) ==
  event.status = "drag" /\ rest # <<>> /\ decodeInput(rest, FALSE).event.status = "drag"

\* What an event does, s being what is left after it: an event that is routed has been
\* waited for, so what follows it has its own wait.
consumed(s, event) ==
  CASE event.status = "reply" -> probedAs(s, observeReply(s.probe, event.text))
    [] QuitRequested(event)   -> [s EXCEPT !.quit = TRUE, !.goesOn = FALSE]
    [] event.status = "none" \/ DragsOn(event, s.input) -> s
    [] event.status = "paste" /\ event.text = <<>> -> [s EXCEPT !.exhausted = FALSE]
    [] OTHER -> [s EXCEPT !.events = Append(@, event), !.exhausted = FALSE]
consumeTaken(s, d) ==
  IF d.event.status = "incomplete" THEN [s EXCEPT !.goesOn = FALSE]
  ELSE consumed([s EXCEPT !.input = Slice(@, d.consumed, Len(@))], d.event)
RECURSIVE consumeInput(_)
consumeInput(s) == IF s.goesOn /\ s.input # <<>> THEN consumeInput(consumeTaken(s, decodeInput(s.input, s.exhausted))) ELSE s

Consumption(bytes, inputExhausted) ==
  [input |-> bytes, events |-> <<>>, probe |-> probe, protocol |-> protocol, quit |-> FALSE,
   exhausted |-> inputExhausted, goesOn |-> TRUE]
Becomes(after) ==
  /\ input' = after.input
  /\ out' = out \o after.events
  /\ probe' = after.probe /\ protocol' = after.protocol /\ quit' = after.quit

BecomesWithoutDeadline(after) == Becomes(after) /\ waits' = FALSE

\* What is left is waited for.
BecomesAndWaits(after) == Becomes(after) /\ waits' = (after.input # <<>> /\ ~after.quit)

Consumes(bytes, inputExhausted) == BecomesAndWaits(consumeInput(Consumption(bytes, inputExhausted)))

-----------------------------------------------------------------------------
(* The loop, and what goes on outside. *)

\* The first of two escape bytes is a key when nothing follows them yet: a bracket that
\* comes with the next read no longer makes them one key with Alt.
Severs(bytes, left, rest) ==
  /\ IsSuffix(<<"ESC", "ESC">>, bytes) /\ left = <<"ESC">>
  /\ rest # <<>> /\ Head(rest) \in {"[", "O"}

\* A read brings as much of what was sent as has arrived.
Takes(size) == ~quit /\ wire' = Slice(wire, size, Len(wire))
Read ==
  \E size \in 1..Len(wire) :
    LET bytes == Slice(wire, 0, size)
    IN /\ Takes(size)
       /\ size = Len(wire) \/ splits < MaxSplits
       /\ splits' = IF size = Len(wire) THEN splits ELSE splits + 1
       /\ Consumes(input \o bytes, FALSE)
       /\ severed' = IF Severs(input \o bytes, input', wire') THEN severed + 1 ELSE severed
       /\ piece' = CASE severed' # severed -> [bytes |-> input', from |-> Len(out'), more |-> TRUE]
                     [] input = <<>> /\ ~piece.more -> [bytes |-> bytes, from |-> Len(out), more |-> size < Len(wire)]
                     [] OTHER -> [piece EXCEPT !.bytes = @ \o bytes, !.more = size < Len(wire)]
       /\ UNCHANGED <<answers, pressed, mixed>>

\* Nothing came in time: a lone ESC is the key.
Timeout ==
  /\ ~quit /\ waits
  /\ Consumes(input, TRUE)
  /\ piece' = IF input' = input THEN piece ELSE [bytes |-> input', from |-> Len(out'), more |-> FALSE]
  /\ mixed' = (mixed \/ (input' # input /\ wire # <<>>))
  /\ UNCHANGED <<wire, answers, pressed, splits, severed>>

ProbeExpires ==
  /\ probe.probing /\ ~probe.late
  /\ probe' = [probe EXCEPT !.late = TRUE]
  /\ UNCHANGED <<wire, input, waits, quit, protocol, answers, pressed, out, splits, piece, mixed, severed>>

\* What follows an ESC that is not resolved yet cannot be told from its continuation.
Sends(bytes) ==
  /\ wire' = wire \o bytes
  /\ mixed' = (mixed \/ (input \o wire # <<>> /\ Last(input \o wire) = "ESC"))

\* The terminal speaks the protocol some time after it was asked to.
Press ==
  \E key \in DOMAIN Keys :
    /\ Len(pressed) < MaxKeys
    /\ \E heard \in {FALSE, protocol} : Sends(IF heard THEN Keys[key].kitty ELSE Keys[key].legacy)
    /\ pressed' = Append(pressed, key)
    /\ UNCHANGED <<input, waits, quit, probe, protocol, answers, out, splits, piece, severed>>

Answer ==
  /\ answers # <<>>
  /\ Sends(Head(answers)) /\ answers' = Tail(answers)
  /\ UNCHANGED <<input, waits, quit, probe, protocol, pressed, out, splits, piece, severed>>

Init ==
  /\ wire = <<>> /\ input = <<>> /\ waits = FALSE /\ quit = FALSE
  /\ probe = [probing |-> TRUE, late |-> FALSE, keyboard |-> FALSE, clipboard |-> FALSE, synchronized |-> FALSE]
  /\ protocol = FALSE
  /\ answers \in Replies
  /\ pressed = <<>> /\ out = <<>> /\ splits = 0 /\ mixed = FALSE /\ severed = 0
  /\ piece = [bytes |-> <<>>, from |-> 0, more |-> FALSE]

Next == Read \/ Timeout \/ ProbeExpires \/ Press \/ Answer

\* The loop goes on reading and waiting; all that a deadline ever resolves is a lone ESC,
\* so a wait that runs out is one that leaves nothing of it.
RunsOut == ~quit /\ waits /\ input = <<"ESC">> /\ input' = <<>> /\ wire' = wire

Spec == Init /\ [][Next]_vars /\ WF_wire(\E size \in 1..Len(wire) : Takes(size)) /\ WF_input(RunsOut) /\ WF_vars(Answer)

-----------------------------------------------------------------------------
(* Properties. *)

\* A drag followed by another stands for both, and a chord is its stroke, whatever its text.
Chord(event) == IF event.stroke.mod THEN [event EXCEPT !.text = <<>>] ELSE event
Coalesced(events) ==
  LET kept == SelectSeq(Numbers(1, Len(events)),
                        LAMBDA k : events[k].status # "drag" \/ k = Len(events) \/ events[k + 1].status # "drag")
  IN [k \in DOMAIN kept |-> Chord(events[kept[k]])]
Settled(events) == IF events # <<>> /\ Last(events).status = "drag" THEN Coalesced(Front(events)) ELSE Coalesced(events)
\* What was done, when the bytes of the keys in a set were severed.
Severable == {k \in DOMAIN pressed : Keys[pressed[k]].severed # Keys[pressed[k]].means}
Meaning(cut) ==
  FlattenSeq([k \in DOMAIN pressed |-> IF k \in cut THEN Keys[pressed[k]].severed ELSE Keys[pressed[k]].means])
Meanings == {Coalesced(Meaning(cut)) : cut \in kSubset(severed, Severable)}

\* What is routed is what the user did, in the order it was done, and nothing of what
\* the terminal answered or the user pasted is taken for keys: for every way reads may
\* fall, unless the bytes themselves do not tell (decodeInput, consumeInput). One read
\* does change a key: each that ends after the two escape bytes of Alt with a special key
\* makes of it Escape and the key without Alt.
KeysArriveAsPressed == ~mixed => \E meaning \in Meanings : IsPrefix(Settled(out), meaning)

ReadsAs(whole) == whole.quit \/ Coalesced(whole.events) = Coalesced(Slice(out, piece.from, Len(out)))

\* Reading in pieces decodes as reading at once, wherever a read ends (decodeInput: what
\* is incomplete is held, and nothing of it decided), but between two escape bytes and
\* their bracket: what follows such a read decodes as if it began with the second escape.
SplitReadsAgree == ~mixed /\ ~quit => ReadsAs(consumeInput(Consumption(piece.bytes, FALSE)))

\* What is done is routed in the end: a lone ESC by its deadline, and the rest when the
\* last of its bytes is read (pendingInputDeadline).
EveryKeyIsDelivered == <>[](mixed \/ quit \/ Coalesced(out) \in Meanings)
=============================================================================
