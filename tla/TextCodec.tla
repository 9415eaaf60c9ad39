------------------------------ MODULE TextCodec ------------------------------
(***************************************************************************)
(* From the bytes of a file to the text of a document and back             *)
(* (TextCodec.cpp).  A document's text is UTF-8 with "\n" ending every     *)
(* line; what ended each line in the file is kept beside it, in            *)
(* lineTerminators, with a None for a last line nothing ends.              *)
(*                                                                         *)
(* Bytes and code points are numbers; a text is the sequence of its UTF-8  *)
(* bytes.  Offsets count from 0, as they do in the code.  A result is      *)
(* accepted and carries what was asked for, or is not and names the        *)
(* offset; messages are left out.                                          *)
(***************************************************************************)
EXTENDS Naturals, Sequences, SequencesExt, FiniteSetsExt

UnicodeEncodings == {"Utf8", "Utf8Bom", "Utf16le", "Utf16be"}
SingleByteEncodings == {"Windows1252", "Iso88591"}
TextEncodings == UnicodeEncodings \cup SingleByteEncodings
LineEndings == {"Lf", "Crlf", "Cr", "Mixed"}
LineTerminators == {"None", "Lf", "Crlf", "Cr"}
FinalNewlinePolicies == {"Preserve", "EnsurePresent", "EnsureAbsent"}

NUL == 0
NL == 10
CR == 13

invalidInput(offset) == [accepted |-> FALSE, offset |-> offset]
defaultStatus == [encoding |-> "Utf8", lineEnding |-> "Lf", hadBom |-> FALSE, finalNewline |-> FALSE]
emptyText == [utf8 |-> <<>>, lineTerminators |-> <<>>, status |-> defaultStatus]

StartsWith(bytes, prefix) == IsPrefix(prefix, bytes)
skip(bytes, count) == SubSeq(bytes, count + 1, Len(bytes))
Unended(utf8) == utf8 # <<>> /\ Last(utf8) # NL

-----------------------------------------------------------------------------
(* Code points in UTF-8 and UTF-16. *)

appendUtf8(value) ==
  CASE value <= 127 -> <<value>>
    [] value \in 128..2047 -> <<192 + value \div 64, 128 + (value % 64)>>
    [] value \in 2048..65535 ->
         <<224 + value \div 4096, 128 + ((value \div 64) % 64), 128 + (value % 64)>>
    [] OTHER ->
         <<240 + value \div 262144, 128 + ((value \div 4096) % 64),
           128 + ((value \div 64) % 64), 128 + (value % 64)>>

\* A leading byte: how many bytes continue it, its own bits, and the least value it may spell.
Lead(byte) ==
  CASE byte <= 127 -> [count |-> 0, bits |-> byte, minimum |-> 0]
    [] byte \in 194..223 -> [count |-> 1, bits |-> byte % 32, minimum |-> 128]
    [] byte \in 224..239 -> [count |-> 2, bits |-> byte % 16, minimum |-> 2048]
    [] byte \in 240..244 -> [count |-> 3, bits |-> byte % 8, minimum |-> 65536]
Leads(byte) == byte <= 127 \/ byte \in 194..244
Continues(byte) == byte \div 64 = 2
Surrogate(value) == value \in 55296..57343

\* The scalar that starts at an offset.
scalarOf(value, lead, at) ==
  IF value < lead.minimum \/ Surrogate(value) \/ value > 1114111 THEN invalidInput(at)
  ELSE [accepted |-> TRUE, width |-> 1 + lead.count, value |-> value]
continued(lead, tail, at) ==
  IF Len(tail) < lead.count THEN invalidInput(at)
  ELSE IF \E k \in DOMAIN tail : ~Continues(tail[k])
    THEN invalidInput(at + Min({k \in DOMAIN tail : ~Continues(tail[k])}))
  ELSE scalarOf(FoldLeft(LAMBDA sum, byte : sum * 64 + (byte % 64), lead.bits, tail), lead, at)
scalarLed(bytes, lead, at) == continued(lead, SubSeq(bytes, at + 2, Min({Len(bytes), at + 1 + lead.count})), at)
utf8Scalar(bytes, at) == IF Leads(bytes[at + 1]) THEN scalarLed(bytes, Lead(bytes[at + 1]), at) ELSE invalidInput(at)

NoScalars == [accepted |-> TRUE, scalars |-> <<>>]
Prepended(scalar, rest) ==
  IF rest.accepted THEN [rest EXCEPT !.scalars = <<scalar>> \o @] ELSE rest

RECURSIVE decodeUtf8From(_, _), decodeUtf16From(_, _, _)
prependedTo(bytes, at, scalar) ==
  IF ~scalar.accepted THEN scalar
  ELSE Prepended([value |-> scalar.value, offset |-> at], decodeUtf8From(bytes, at + scalar.width))
decodeUtf8From(bytes, at) ==
  IF at = Len(bytes) THEN NoScalars ELSE prependedTo(bytes, at, utf8Scalar(bytes, at))
decodeUtf8(bytes) == decodeUtf8From(bytes, 0)

unitAt(bytes, at, littleEndian) ==
  IF littleEndian THEN bytes[at + 1] + 256 * bytes[at + 2] ELSE 256 * bytes[at + 1] + bytes[at + 2]

unitsOf(bytes, littleEndian) ==
  [k \in 1..Len(bytes) \div 2 |-> unitAt(bytes, 2 * (k - 1), littleEndian)]

\* The offset of a pair is taken after the index has moved to its second unit.
decodeUtf16From(units, k, baseOffset) ==
  CASE k > Len(units) -> NoScalars
    [] k <= Len(units) /\ ~Surrogate(units[k]) ->
         Prepended([value |-> units[k], offset |-> baseOffset + 2 * (k - 1)], decodeUtf16From(units, k + 1, baseOffset))
    [] k < Len(units) /\ units[k] \in 55296..56319 /\ units[k + 1] \in 56320..57343 ->
         Prepended([value |-> 65536 + (units[k] - 55296) * 1024 + (units[k + 1] - 56320), offset |-> baseOffset + 2 * k],
                   decodeUtf16From(units, k + 2, baseOffset))
    [] OTHER -> invalidInput(baseOffset + 2 * (k - 1))
decodeUtf16(bytes, littleEndian, baseOffset) ==
  IF Len(bytes) % 2 # 0 THEN invalidInput(baseOffset + Len(bytes) - 1)
  ELSE decodeUtf16From(unitsOf(bytes, littleEndian), 1, baseOffset)

appendUnit(unit, littleEndian) ==
  IF littleEndian THEN <<unit % 256, unit \div 256>> ELSE <<unit \div 256, unit % 256>>
appendUtf16(value, littleEndian) ==
  IF value <= 65535 THEN appendUnit(value, littleEndian)
  ELSE appendUnit(55296 + (value - 65536) \div 1024, littleEndian)
         \o appendUnit(56320 + ((value - 65536) % 1024), littleEndian)

-----------------------------------------------------------------------------
(* Code points in one byte. *)

kWindows1252High ==
  << 8364,  129, 8218,  402, 8222, 8230, 8224, 8225,  710, 8240,  352, 8249,  338,  141,  381,  143,
      144, 8216, 8217, 8220, 8221, 8226, 8211, 8212,  732, 8482,  353, 8250,  339,  157,  382,  376 >>

decodeSingleByte(bytes, encoding) ==
  [accepted |-> TRUE,
   scalars |-> [k \in DOMAIN bytes |->
     [value |-> IF encoding = "Windows1252" /\ bytes[k] \in 128..159
                  THEN kWindows1252High[bytes[k] - 127] ELSE bytes[k],
      offset |-> k - 1]]]

\* Mutant: the table's first byte taken for 129.
OneTooHigh(value) ==
  IF value <= 127 \/ value \in 160..255 THEN {value}
  ELSE {128 + k : k \in {k \in 1..32 : kWindows1252High[k] = value}}

\* The byte of a code point, if it has one.
windows1252Byte(value) ==
  IF value <= 127 \/ value \in 160..255 THEN {value}
  ELSE {127 + k : k \in {k \in 1..32 : kWindows1252High[k] = value}}

iso88591Byte(value) == IF value <= 255 THEN {value} ELSE {}

-----------------------------------------------------------------------------
(* Lines. *)

toTerminator(lineEnding) == IF lineEnding = "Mixed" THEN "Lf" ELSE lineEnding

lineEndingOf(endings) ==
  IF endings = {} THEN "Lf" ELSE IF Cardinality(endings) > 1 THEN "Mixed" ELSE CHOOSE ending \in endings : TRUE
detectedLineEnding(terminators) == lineEndingOf(ToSet(terminators) \ {"None"})

\* What a walk over the file returns: the text and the terminators found, then the status.
NoText == [accepted |-> TRUE, utf8 |-> <<>>, terminators |-> <<>>]
Spelled(spelling, rest) == IF rest.accepted THEN [rest EXCEPT !.utf8 = spelling \o @] ELSE rest
Broken(terminator, rest) ==
  IF rest.accepted
    THEN [rest EXCEPT !.utf8 = <<NL>> \o @, !.terminators = <<terminator>> \o @]
    ELSE rest

withoutLast(utf8) == IF Unended(utf8) THEN <<"None">> ELSE <<>>
statusOf(terminators, encoding, hadBom) ==
  [encoding |-> encoding, lineEnding |-> detectedLineEnding(terminators), hadBom |-> hadBom,
   finalNewline |-> terminators # <<>> /\ Last(terminators) # "None"]
decodedAs(utf8, terminators, encoding, hadBom) ==
  [accepted |-> TRUE,
   text |-> [utf8 |-> utf8, lineTerminators |-> terminators, status |-> statusOf(terminators, encoding, hadBom)]]
WithStatus(walk, encoding, hadBom) ==
  IF ~walk.accepted THEN walk
  ELSE decodedAs(walk.utf8, walk.terminators \o withoutLast(walk.utf8), encoding, hadBom)

\* A line end at a position of some code points or bytes: "\r\n" before "\r" and "\n".
EndingAt(values, k) ==
  CASE values[k] = CR /\ k < Len(values) /\ values[k + 1] = NL -> "Crlf"
    [] values[k] = NL -> "Lf"
    [] OTHER          -> "Cr"
EndsLine(value) == value \in {CR, NL}
After(k, ending) == IF ending = "Crlf" THEN k + 2 ELSE k + 1

RECURSIVE walkScalars(_, _), walkUtf8(_, _, _)
walkEnding(read, k, ending) == Broken(ending, walkScalars(read, After(k, ending)))
walkScalars(read, k) ==
  IF k > Len(read.values) THEN NoText
  ELSE IF read.values[k] = NUL THEN invalidInput(read.offsets[k])
  ELSE IF EndsLine(read.values[k]) THEN walkEnding(read, k, EndingAt(read.values, k))
  ELSE Spelled(appendUtf8(read.values[k]), walkScalars(read, k + 1))
valuesOf(scalars) ==
  [values |-> [k \in DOMAIN scalars |-> scalars[k].value], offsets |-> [k \in DOMAIN scalars |-> scalars[k].offset]]
normalized(read, encoding, hadBom) ==
  IF read.accepted THEN WithStatus(walkScalars(valuesOf(read.scalars), 1), encoding, hadBom) ELSE read

\* The walk that validates, copies and normalizes at once.
walkUtf8Ending(bytes, k, baseOffset, ending) == Broken(ending, walkUtf8(bytes, After(k, ending), baseOffset))
walkUtf8Scalar(bytes, k, baseOffset, scalar) ==
  IF ~scalar.accepted THEN invalidInput(baseOffset + scalar.offset)
  ELSE Spelled(SubSeq(bytes, k, k - 1 + scalar.width), walkUtf8(bytes, k + scalar.width, baseOffset))
walkUtf8(bytes, k, baseOffset) ==
  IF k > Len(bytes) THEN NoText
  ELSE IF bytes[k] = NUL THEN invalidInput(baseOffset + k - 1)
  ELSE IF EndsLine(bytes[k]) THEN walkUtf8Ending(bytes, k, baseOffset, EndingAt(bytes, k))
  ELSE walkUtf8Scalar(bytes, k, baseOffset, utf8Scalar(bytes, k - 1))
decodeUtf8Fused(bytes, baseOffset, encoding, hadBom) ==
  WithStatus(walkUtf8(bytes, 1, baseOffset), encoding, hadBom)

-----------------------------------------------------------------------------
(* Whole files. *)

bomOf(encoding) ==
  CASE encoding = "Utf8Bom" -> <<239, 187, 191>>
    [] encoding = "Utf16le" -> <<255, 254>>
    [] encoding = "Utf16be" -> <<254, 255>>
    [] OTHER -> <<>>

Marked(bytes, encoding) == bomOf(encoding) # <<>> /\ StartsWith(bytes, bomOf(encoding))
markOf(bytes, encoding) == IF Marked(bytes, encoding) THEN Len(bomOf(encoding)) ELSE 0

decodeUtf8Marked(bytes, mark, encoding) ==
  decodeUtf8Fused(skip(bytes, mark), mark, IF mark > 0 THEN "Utf8Bom" ELSE encoding, mark > 0)
readUtf16(bytes, mark, encoding) ==
  IF Marked(bytes, IF encoding = "Utf16le" THEN "Utf16be" ELSE "Utf16le") THEN invalidInput(0)
  ELSE decodeUtf16(skip(bytes, mark), encoding = "Utf16le", mark)
readUnits(bytes, encoding) ==
  IF encoding \in SingleByteEncodings THEN decodeSingleByte(bytes, encoding)
  ELSE readUtf16(bytes, markOf(bytes, encoding), encoding)
decodeSelected(bytes, encoding) ==
  IF encoding \in {"Utf8", "Utf8Bom"} THEN decodeUtf8Marked(bytes, markOf(bytes, "Utf8Bom"), encoding)
  ELSE normalized(readUnits(bytes, encoding), encoding, Marked(bytes, encoding))

\* decodeText without an encoding: the byte order mark names it.
Detected(bytes) ==
  IF \E e \in UnicodeEncodings : Marked(bytes, e) THEN CHOOSE e \in UnicodeEncodings : Marked(bytes, e) ELSE "Utf8"
decodeText(bytes) == decodeSelected(bytes, Detected(bytes))

\* Mutant: the pair is written the wrong way round.
Reversed(terminator) ==
  CASE terminator = "Crlf" -> <<NL, CR>> [] terminator = "Cr" -> <<CR>> [] OTHER -> <<NL>>

\* The code points of a line end.
Spelling(terminator) ==
  CASE terminator = "Crlf" -> <<CR, NL>> [] terminator = "Cr" -> <<CR>> [] OTHER -> <<NL>>

newlines(utf8) == Len(SelectSeq(utf8, LAMBDA byte : byte = NL))

\* The terminators have to fit the text, line by line.
Fits(text, lines) ==
  /\ Len(text.lineTerminators) = lines + Len(withoutLast(text.utf8))
  /\ \A k \in 1..lines : text.lineTerminators[k] # "None"
  /\ Unended(text.utf8) => Last(text.lineTerminators) = "None"

Refused == [accepted |-> FALSE, values |-> <<>>, bytes |-> <<>>]
chosen(stored, options) == IF options.lineEnding = "Mixed" THEN stored ELSE toTerminator(options.lineEnding)
defaultEnding(text, options) == toTerminator(chosen(text.status.lineEnding, options))

\* What a code point of the text is written as; a line end as the one of its line.
lineOf(scalars, k) == Len(SelectSeq(SubSeq(scalars, 1, k), LAMBDA scalar : scalar.value = NL))
written(scalars, k, text, options) ==
  CASE scalars[k].value # NL -> <<scalars[k].value>>
    [] k = Len(scalars) /\ options.finalNewline = "EnsureAbsent" -> <<>>
    [] OTHER -> Spelling(chosen(text.lineTerminators[lineOf(scalars, k)], options))
added(text, options) ==
  IF Unended(text.utf8) /\ options.finalNewline = "EnsurePresent" THEN Spelling(defaultEnding(text, options)) ELSE <<>>

\* The code points to write.
outputOf(text, options, read) ==
  IF ~read.accepted \/ ~Fits(text, newlines(text.utf8)) THEN Refused
  ELSE [accepted |-> TRUE,
        values |-> FlattenSeq([k \in DOMAIN read.scalars |-> written(read.scalars, k, text, options)]) \o added(text, options)]
outputScalars(text, options) == outputOf(text, options, decodeUtf8(text.utf8))

\* The bytes of a code point, if it has any.
bytesOf(value, encoding) ==
  CASE encoding \in {"Utf8", "Utf8Bom"} -> {appendUtf8(value)}
    [] encoding \in {"Utf16le", "Utf16be"} -> {appendUtf16(value, encoding = "Utf16le")}
    [] encoding = "Windows1252" -> {<<byte>> : byte \in windows1252Byte(value)}
    [] encoding = "Iso88591" -> {<<byte>> : byte \in iso88591Byte(value)}
joined(spellings, encoding) ==
  IF {} \in ToSet(spellings) THEN Refused
  ELSE [accepted |-> TRUE,
        bytes |-> bomOf(encoding) \o FlattenSeq([k \in DOMAIN spellings |-> CHOOSE bytes \in spellings[k] : TRUE])]
encoded(output, encoding) ==
  IF output.accepted THEN joined([k \in DOMAIN output.values |-> bytesOf(output.values[k], encoding)], encoding)
  ELSE Refused

\* encodeText with options; it refuses a code point the encoding has no byte for.
encodeTextWith(text, options) == encoded(outputScalars(text, options), options.encoding)

encodeText(text) ==
  encodeTextWith(text, [encoding |-> text.status.encoding, lineEnding |-> "Mixed",
                        finalNewline |-> "Preserve"])

=============================================================================
